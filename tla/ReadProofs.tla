----------------------------- MODULE ReadProofs -----------------------------
(***************************************************************************)
(* What one call of the SDK under the read tier promises, and what the      *)
(* reads made of such calls answer.                                         *)
(*                                                                         *)
(* Of ReadTier: for any number of calls in flight, any attempts, any custom *)
(* schedule and whatever is thrown.  The slots do not touch each other, so  *)
(* the invariant is one of a single request (Good), kept by whatever        *)
(* happens to it (Asking, Answering, Throwing, CuttingOff, AskingAgain).    *)
(*                                                                         *)
(* Of SuiReads: for any objects and spellings of them, any batch, any size  *)
(* and number of chunks, and any holding.  First the data: ids are listed   *)
(* once each and cut into chunks that miss none (Ascending, Firsts, Chunks). *)
(* Then one lemma for each action keeps ReadsInv.                           *)
(***************************************************************************)
EXTENDS SuiReads, FiniteSetTheorems, WellFoundedInduction, TLAPS

Request == [method : Method, pc : Pc, attempt : Nat, said : Thrown \cup {NoThrow},
            answer : Failures]

Limit == IF readRetry = NoSchedule THEN MAX_READ_ATTEMPTS ELSE readRetry + 1

MayPass(r) == r.answer.tag = "TransportError" /\ r.answer.retryable

(* What was said is said of a thing's absence.                              *)
Says(said, tag) ==
  CASE tag = "ObjectNotFound" -> said.class = "object" /\ said.reason = "notFound"
    [] tag = "ObjectDeleted" -> said.class = "object" /\ said.reason = "deleted"
    [] OTHER -> said.class = "transaction"

Absences == {"ObjectNotFound", "ObjectDeleted", "TransactionNotFound"}

Faithful(m, said, answer) ==
  \A tag \in Absences : answer.tag = tag <=> Says(said, tag) /\ tag \in Tags(m)

Good(r) ==
  /\ r.attempt <= Limit
  /\ r.pc = "waiting" => retried(r.method) /\ MayPass(r) /\ r.attempt < Limit
  /\ r.pc = "done" /\ MayPass(r) /\ retried(r.method) => r.attempt = Limit
  /\ r.method \in Sends => r.attempt <= 1
  /\ r.pc = "done" => Faithful(r.method, r.said, r.answer)

Typed == request \in [Slot -> Request]

IInv == Typed /\ \A s \in Slot : Good(request[s])

(* Some numbers have a least one.                                           *)
LEMMA Least ==
  ASSUME NEW T, T \subseteq Nat, T # {}
  PROVE  \E x \in T : \A y \in T : x <= y
<1> DEFINE Less == {p \in Nat \X Nat : p[1] < p[2]}
<1>1. IsWellFoundedOn(Less, Nat)
  BY NatLessThanWellFounded DEF OpToRel
<1>2. \A x, y \in Nat : <<y, x>> \in Less <=> y < x
  OBVIOUS
<1> HIDE DEF Less
<1>3. PICK x \in T : \A y \in T : ~ (<<y, x>> \in Less)
  BY <1>1, WFMin
<1>4. \A y \in T : ~ (y < x)
  BY <1>2, <1>3
<1> QED
  BY <1>4

(* A list of some numbers in their order.                                   *)
Lists(f, numbers) ==
  /\ f \in [1..Cardinality(numbers) -> numbers]
  /\ ToSet(f) = numbers /\ \A i, j \in DOMAIN f : i < j => f[i] < f[j]

(* One more number, above the others, goes to the end of their list.        *)
LEMMA OneMore ==
  ASSUME NEW n \in Nat, NEW T, T \subseteq 1..n, NEW g, Lists(g, T)
  PROVE  \E f : Lists(f, T \cup {n + 1})
<1> DEFINE m == Cardinality(T)
           S == T \cup {n + 1}
<1>1. T \subseteq Nat /\ (\A t \in T : t <= n) /\ n + 1 \notin T
  OBVIOUS
<1>2. IsFiniteSet(T) /\ m \in Nat
  BY <1>1, FS_BoundedSetOfNaturals, FS_CardinalityType
<1>3. Cardinality(S) = m + 1
  BY <1>1, <1>2, FS_AddElement
<1>4. /\ g \in [1..m -> T] /\ {g[i] : i \in 1..m} = T
      /\ \A i, j \in 1..m : i < j => g[i] < g[j]
  BY DEF Lists, ToSet
<1> HIDE DEF m
<1> DEFINE f == [i \in 1..(m + 1) |-> IF i = m + 1 THEN n + 1 ELSE g[i]]
<1>5. \A i \in 1..(m + 1) : i = m + 1 \/ i \in 1..m
  BY <1>2
<1>6. f \in [1..(m + 1) -> S]
  BY <1>4, <1>5
<1>7. \A i \in 1..m : i \in 1..(m + 1) /\ i # m + 1
  BY <1>2
<1>8. m + 1 \in 1..(m + 1)
  BY <1>2
<1>9. (\A i \in 1..m : f[i] = g[i]) /\ f[m + 1] = n + 1 /\ DOMAIN f = 1..(m + 1)
  BY <1>7, <1>8
<1> HIDE DEF f
<1>10. {f[i] : i \in 1..(m + 1)} = S
  <2>1. \A x \in S : \E i \in 1..(m + 1) : f[i] = x
    BY <1>4, <1>7, <1>8, <1>9
  <2> QED
    BY <1>6, <2>1
<1>11. ASSUME NEW i \in 1..(m + 1), NEW j \in 1..(m + 1), i < j
       PROVE  f[i] < f[j]
  <2>1. i \in 1..m
    BY <1>2, <1>11
  <2>2. CASE j = m + 1
    <3>1. f[i] \in T /\ f[j] = n + 1
      BY <1>4, <1>9, <2>1, <2>2
    <3>2. \A t \in T : t < n + 1
      BY <1>1
    <3> QED
      BY <3>1, <3>2
  <2>3. CASE j \in 1..m
    BY <1>4, <1>9, <1>11, <2>1, <2>3
  <2> QED
    BY <1>5, <2>2, <2>3
<1> QED
  BY <1>3, <1>6, <1>9, <1>10, <1>11 DEF Lists, ToSet

(* Numbers up to some number can be listed in their order.                  *)
LEMMA Listable ==
  ASSUME NEW N \in Nat, NEW S, S \subseteq 1..N
  PROVE  \E f : Lists(f, S)
<1> DEFINE Can(n) == \A T \in SUBSET (1..n) : \E f : Lists(f, T)
           Rest == {n \in 0..N : ~Can(n)}
<1>1. Can(0)
  <2>1. \A T \in SUBSET (1..0) : T = {}
    OBVIOUS
  <2>2. Lists(<<>>, {})
    BY FS_EmptySet DEF Lists, ToSet
  <2> QED
    BY <2>1, <2>2
<1>2. ASSUME NEW n \in 1..N, Can(n - 1)
      PROVE  Can(n)
  <2>1. SUFFICES ASSUME NEW T \in SUBSET (1..n) PROVE \E f : Lists(f, T)
    OBVIOUS
  <2>2. n - 1 \in Nat /\ n = (n - 1) + 1 /\ n \in Nat
    OBVIOUS
  <2>3. T \ {n} \in SUBSET (1..(n - 1))
    OBVIOUS
  <2>4. PICK g : Lists(g, T \ {n})
    BY <1>2, <2>3
  <2>5. CASE n \in T
    <3>1. \E f : Lists(f, (T \ {n}) \cup {(n - 1) + 1})
      BY <2>2, <2>3, <2>4, OneMore
    <3>2. (T \ {n}) \cup {(n - 1) + 1} = T
      BY <2>2, <2>5
    <3> QED
      BY <3>1, <3>2
  <2>6. CASE n \notin T
    <3>1. T \ {n} = T
      BY <2>6
    <3> QED
      BY <2>4, <3>1
  <2> QED
    BY <2>5, <2>6
<1> HIDE DEF Can
<1>3. Rest = {}
  <2>1. SUFFICES ASSUME Rest # {} PROVE FALSE
    OBVIOUS
  <2>2. PICK m \in Rest : \A n \in Rest : m <= n
    <3>1. Rest \subseteq Nat
      OBVIOUS
    <3> QED
      BY <2>1, <3>1, Least
  <2>3. m \in 0..N /\ m # 0 /\ ~Can(m)
    BY <1>1, <2>2
  <2>4. m \in 1..N /\ m - 1 \in 0..N /\ ~ (m <= m - 1)
    BY <2>3
  <2>5. Can(m - 1)
    BY <2>2, <2>4
  <2> QED
    BY <1>2, <2>3, <2>4, <2>5
<1>4. Can(N)
  BY <1>3
<1> QED
  BY <1>4 DEF Can

(* What ascending lists: the numbers, all of them, each after the smaller.  *)
LEMMA Ascending ==
  ASSUME NEW N \in Nat, NEW S, S \subseteq 1..N
  PROVE  LET f == ascending(S)
         IN  /\ f \in Seq(S) /\ f \in Seq(1..N) /\ {f[i] : i \in 1..Len(f)} = S
             /\ \A i, j \in 1..Len(f) : i < j => f[i] < f[j]
<1> DEFINE f == ascending(S)
<1>1. PICK g : Lists(g, S)
  BY Listable
<1>2. Lists(f, S)
  BY <1>1 DEF Lists, ascending
<1> HIDE DEF f
<1>3. S \subseteq Nat /\ \A s \in S : s <= N
  OBVIOUS
<1>4. Cardinality(S) \in Nat
  BY <1>3, FS_BoundedSetOfNaturals, FS_CardinalityType
<1>5. f \in Seq(S) /\ Len(f) = Cardinality(S)
  BY <1>2, <1>4 DEF Lists
<1>6. f \in Seq(1..N)
  <2>1. f \in [1..Len(f) -> 1..N]
    BY <1>2, <1>5 DEF Lists
  <2> QED
    BY <1>4, <1>5, <2>1
<1>7. {f[i] : i \in 1..Len(f)} = S
  BY <1>2, <1>5 DEF Lists, ToSet
<1>8. \A i, j \in 1..Len(f) : i < j => f[i] < f[j]
  BY <1>2, <1>5 DEF Lists
<1> QED
  BY <1>5, <1>6, <1>7, <1>8 DEF f

(* The quotient of two numbers.                                             *)
LEMMA Divided ==
  ASSUME NEW a \in Nat, NEW k \in Nat \ {0}
  PROVE  /\ a \div k \in Nat /\ (a \div k) * k \in Nat
         /\ (a \div k) * k <= a /\ a < (a \div k) * k + k
<1>1. a = k * (a \div k) + (a % k)
  OBVIOUS
<1>3. a % k \in 0..(k - 1)
  OBVIOUS
<1>2. a \div k \in Int
  OBVIOUS
<1> QED
  BY <1>1, <1>2, <1>3

(* Twice as much of the same is as much of twice.                           *)
LEMMA Products ==
  ASSUME NEW k \in Nat \ {0}, NEW b \in Int, NEW c \in Int
  PROVE  /\ b * k \in Int /\ (b - 1) * k = b * k - k /\ (b + 1) * k = b * k + k
         /\ b < c => b * k + k <= c * k
         /\ b <= c => b * k <= c * k
         /\ b * k < c * k => b < c
OBVIOUS

(* Every object of a list has a first spelling in it.                       *)
LEMMA Firsts ==
  ASSUME NEW ids \in Seq(Spelling)
  PROVE  /\ unique(ids) \in Seq(1..Len(ids))
         /\ \A i \in 1..Len(ids) : \E m \in 1..Len(unique(ids)) :
              keyOf[ids[unique(ids)[m]]] = keyOf[ids[i]]
<1> DEFINE S == {i \in DOMAIN ids : \A j \in 1..(i - 1) : keyOf[ids[j]] # keyOf[ids[i]]}
           f == ascending(S)
<1>1. Len(ids) \in Nat /\ DOMAIN ids = 1..Len(ids) /\ S \subseteq 1..Len(ids)
  OBVIOUS
<1>2. unique(ids) = f
  BY DEF unique
<1>3. f \in Seq(1..Len(ids)) /\ {f[m] : m \in 1..Len(f)} = S
  BY <1>1, Ascending
<1> HIDE DEF f
<1>4. ASSUME NEW i \in 1..Len(ids)
      PROVE  \E m \in 1..Len(f) : keyOf[ids[f[m]]] = keyOf[ids[i]]
  <2> DEFINE Same == {j \in 1..Len(ids) : keyOf[ids[j]] = keyOf[ids[i]]}
  <2>1. PICK j \in Same : \A k \in Same : j <= k
    <3>1. i \in Same /\ Same \subseteq Nat
      OBVIOUS
    <3> QED
      BY <3>1, Least
  <2>2. ASSUME NEW k \in 1..(j - 1)
        PROVE  keyOf[ids[k]] # keyOf[ids[j]]
    <3>1. j \in 1..Len(ids) /\ keyOf[ids[j]] = keyOf[ids[i]]
      OBVIOUS
    <3>2. k \in 1..Len(ids) /\ ~ (j <= k)
      BY <3>1, <1>1
    <3>3. k \notin Same
      BY <2>1, <3>2
    <3> QED
      BY <3>1, <3>2, <3>3
  <2>3. j \in S
    BY <1>1, <2>2
  <2>4. PICK m \in 1..Len(f) : f[m] = j
    BY <1>3, <2>3
  <2> QED
    BY <2>4
<1> QED
  BY <1>2, <1>3, <1>4

(* The chunks are of spellings, none is empty, and each object of the list  *)
(* has its place in one.                                                    *)
LEMMA Chunks ==
  ASSUME NEW ids \in Seq(Spelling)
  PROVE  LET chunks == chunksOf(ids)
         IN  /\ Len(chunks) \in Nat
             /\ \A c \in 1..Len(chunks) : chunks[c] \in Seq(Spelling) /\ Len(chunks[c]) >= 1
             /\ \A i \in 1..Len(ids) : \E c \in 1..Len(chunks) :
                  \E k \in 1..Len(chunks[c]) : keyOf[chunks[c][k]] = keyOf[ids[i]]
<1> DEFINE f == unique(ids)
           L == Len(f)
           K == CHUNK
           n == (L + K - 1) \div K
           last(c) == IF c = n THEN L ELSE c * K
           size(c) == last(c) - (c - 1) * K
           chunk(c) == [i \in 1..size(c) |-> ids[f[(c - 1) * K + i]]]
           chunks == chunksOf(ids)
<1>1. chunks = [c \in 1..n |-> chunk(c)]
  BY DEF chunksOf
<1>2. f \in Seq(1..Len(ids)) /\ L \in Nat /\ K \in Nat \ {0}
  BY Firsts, ChunkLimitsPositive
<1> HIDE DEF f, L, K, chunks
<1>3. n \in Nat /\ n * K <= L + K - 1 /\ L + K - 1 < n * K + K /\ n * K \in Nat
  <2>1. L + K - 1 \in Nat
    BY <1>2
  <2> QED
    BY <1>2, <2>1, Divided
<1> HIDE DEF n
<1>4. Len(chunks) = n /\ \A c \in 1..n : chunks[c] = chunk(c)
  BY <1>1, <1>3
<1>5. ASSUME NEW c \in 1..n
      PROVE  /\ c * K \in Int /\ (c - 1) * K \in Nat /\ (c - 1) * K = c * K - K
             /\ size(c) \in 1..K /\ last(c) \in 1..L
             /\ c # n => c * K + 1 <= L
  <2>1. c \in Int /\ n \in Int /\ 1 \in Int /\ c >= 1 /\ c <= n
    BY <1>3
  <2>2. c * K \in Int /\ (c - 1) * K = c * K - K /\ 1 * K <= c * K /\ 1 * K = K
    BY <1>2, <2>1, Products
  <2>3. c < n => c * K + K <= n * K
    BY <1>2, <2>1, Products
  <2> DEFINE x == c * K
             y == n * K
             z == (c - 1) * K
  <2>4. x \in Int /\ y \in Int /\ z = x - K /\ K <= x /\ (c < n => x + K <= y)
    BY <1>3, <2>2, <2>3
  <2>5. y <= L + K - 1 /\ L < y + 1
    BY <1>2, <1>3
  <2>6. /\ last(c) = IF c = n THEN L ELSE x
        /\ size(c) = last(c) - z /\ (c = n => x = y)
    OBVIOUS
  <2> HIDE DEF x, y, z, last, size
  <2>7. c # n => c < n
    BY <2>1
  <2> QED
    BY <1>2, <2>4, <2>5, <2>6, <2>7 DEF x, z
<1>6. ASSUME NEW c \in 1..n
      PROVE  chunks[c] \in Seq(Spelling) /\ Len(chunks[c]) = size(c) /\ size(c) >= 1
  <2>1. \A i \in 1..size(c) : (c - 1) * K + i \in 1..L
    <3>1. (c - 1) * K + size(c) = last(c) /\ last(c) <= L
      BY <1>2, <1>5
    <3>2. (c - 1) * K \in Nat /\ size(c) \in Nat /\ L \in Nat
      BY <1>2, <1>5
    <3> HIDE DEF size, last
    <3> DEFINE z == (c - 1) * K
    <3>3. z + size(c) <= L /\ z \in Nat
      BY <3>1, <3>2
    <3> HIDE DEF z
    <3>4. \A i \in 1..size(c) : z + i \in 1..L
      BY <3>2, <3>3
    <3> QED
      BY <3>4 DEF z
  <2>2. \A m \in 1..L : ids[f[m]] \in Spelling
    BY <1>2 DEF L
  <2>3. size(c) \in Nat /\ size(c) >= 1
    BY <1>2, <1>5
  <2> HIDE DEF size
  <2>4. chunk(c) \in [1..size(c) -> Spelling]
    BY <2>1, <2>2
  <2>5. chunks[c] \in [1..size(c) -> Spelling]
    BY <1>4, <2>4
  <2> QED
    BY <2>3, <2>5
<1>7. ASSUME NEW i \in 1..Len(ids)
      PROVE  \E c \in 1..n : \E k \in 1..Len(chunks[c]) : keyOf[chunks[c][k]] = keyOf[ids[i]]
  <2>1. PICK m \in 1..L : keyOf[ids[f[m]]] = keyOf[ids[i]]
    BY Firsts DEF f, L
  <2> DEFINE q == (m - 1) \div K
             c == q + 1
             k == (m - 1) - q * K + 1
  <2>2. q \in Nat /\ q * K \in Nat /\ q * K <= m - 1 /\ m - 1 < q * K + K
    <3>1. m - 1 \in Nat
      OBVIOUS
    <3> QED
      BY <1>2, <3>1, Divided
  <2> HIDE DEF q
  <2>3. k \in 1..K /\ q * K + k = m
    <3> DEFINE x == q * K
    <3>1. x \in Nat /\ x <= m - 1 /\ m - 1 < x + K /\ k = (m - 1) - x + 1
      BY <2>2
    <3> HIDE DEF x, k
    <3>2. k \in 1..K /\ x + k = m
      BY <1>2, <3>1
    <3> QED
      BY <3>2 DEF x
  <2>4. q < n
    <3>1. q * K < n * K
      <4> DEFINE x == q * K
                 y == n * K
      <4>1. x \in Nat /\ y \in Nat /\ x <= m - 1 /\ L + K - 1 < y + K
        BY <1>3, <2>2
      <4> HIDE DEF x, y
      <4>2. x < y
        BY <1>2, <4>1
      <4> QED
        BY <4>2 DEF x, y
    <3>2. q \in Int /\ n \in Int
      BY <1>3, <2>2
    <3> QED
      BY <1>2, <3>1, <3>2, Products
  <2>5. c \in 1..n /\ c - 1 = q
    BY <1>3, <2>2, <2>4
  <2>6. k \in 1..size(c)
    <3>1. CASE c = n
      <4>1. size(c) = L - q * K
        BY <2>5, <3>1
      <4> HIDE DEF size, k
      <4>2. k <= L - q * K
        <5> DEFINE x == q * K
        <5>1. x \in Nat /\ x + k = m
          BY <2>2, <2>3
        <5> HIDE DEF x
        <5>2. k <= L - x
          BY <1>2, <2>3, <5>1
        <5> QED
          BY <5>2 DEF x
      <4> QED
        BY <1>2, <1>5, <2>3, <2>5, <4>1, <4>2
    <3>2. CASE c # n
      <4>1. size(c) = c * K - (c - 1) * K
        BY <3>2
      <4>2. size(c) = K
        <5> DEFINE x == c * K
                   z == (c - 1) * K
        <5>1. x \in Int /\ z = x - K /\ size(c) = x - z
          BY <1>5, <2>5, <4>1
        <5> HIDE DEF x, z, size
        <5> QED
          BY <1>2, <5>1
      <4> QED
        BY <2>3, <4>2
    <3> QED
      BY <3>1, <3>2
  <2>7. chunks[c][k] = ids[f[m]]
    <3>1. chunks[c] = [j \in 1..size(c) |-> ids[f[q * K + j]]]
      BY <1>4, <2>5
    <3> HIDE DEF size, k
    <3>2. chunks[c][k] = ids[f[q * K + k]]
      BY <2>6, <3>1
    <3> QED
      BY <2>3, <3>2
  <2> HIDE DEF c, k, size
  <2>8. k \in 1..Len(chunks[c])
    BY <1>6, <2>5, <2>6
  <2> QED
    BY <2>1, <2>5, <2>7, <2>8
<1> HIDE DEF size
<1>8. \A c \in 1..Len(chunks) : chunks[c] \in Seq(Spelling) /\ Len(chunks[c]) >= 1
  BY <1>4, <1>6
<1> QED
  BY <1>3, <1>4, <1>7, <1>8 DEF chunks
-----------------------------------------------------------------------------
(* A call may be tried at least once.                                       *)
LEMMA LimitPositive == Limit \in Nat /\ Limit >= 1
  BY AttemptsPositive, ScheduleIsCount DEF Limit

(* What is thrown becomes a failure of the taxonomy or a defect.            *)
LEMMA FailuresAreTyped ==
  ASSUME NEW m, NEW thrown
  PROVE  narrowed(m, thrown) \in Failures
<1>1. \A cause : /\ classifyTransportCause(cause).status \in Statuses \cup {"none"}
                  /\ classifyTransportCause(cause).retryable \in BOOLEAN
  BY DEF classifyTransportCause
<1>2. transportError(thrown) \in Failures
  BY <1>1 DEF transportError, TransportError, Failure, Failures
<1>3. ASSUME NEW causes, NEW t \in transportCauseOf(causes)
      PROVE  t.status \in Statuses \cup {"none"} /\ t.retryable \in BOOLEAN
  <2>1. PICK first : t = [status |-> classifyTransportCause(first).status,
                          retryable |-> first = "TypeError"
                                          \/ classifyTransportCause(first).retryable]
    BY <1>3 DEF transportCauseOf
  <2>2. QED
    BY <2>1, <1>1
<1>4. mapSdkError(thrown) \in Failures
  <2>1. CASE ~recognised(thrown)
    BY <2>1, <1>2 DEF mapSdkError, recognised
  <2>2. CASE recognised(thrown)
    <3> DEFINE transport == IF thrown.executionError THEN {}
                            ELSE transportCauseOf(thrown.causes)
               found == CHOOSE t \in transport : TRUE
    <3>1. transport # {} => /\ found.status \in Statuses \cup {"none"}
                            /\ found.retryable \in BOOLEAN
      BY <1>3
    <3>2. CASE thrown.class = "object"
      BY <2>2, <3>2 DEF mapSdkError, recognised, Failure, Failures
    <3>3. CASE thrown.class # "object"
      <4> HIDE DEF transport
      <4>1. mapSdkError(thrown) \in {Failure("TransactionNotFound", FALSE, "none"),
                 IF transport = {} THEN Failure("SimulationFailed", FALSE, "none")
                 ELSE Failure("TransportError", found.retryable, found.status)}
        BY <2>2, <3>3 DEF mapSdkError, recognised, transport
      <4>2. /\ Failure("TransactionNotFound", FALSE, "none") \in Failures
            /\ Failure("SimulationFailed", FALSE, "none") \in Failures
        BY DEF Failure, Failures
      <4>3. transport # {} =>
              Failure("TransportError", found.retryable, found.status) \in Failures
        <5> HIDE DEF found
        <5>1. QED
          BY <3>1 DEF Failure, Failures
      <4>4. QED
        BY <4>1, <4>2, <4>3
    <3>4. QED
      BY <3>2, <3>3
  <2>3. QED
    BY <2>1, <2>2
<1>5. QED
  BY <1>2, <1>4 DEF narrowed

(* Absence is what the SDK says of it in its own classes, and nothing else. *)
LEMMA AbsencesAreTheNodes ==
  ASSUME NEW m \in Method, NEW thrown \in Thrown
  PROVE  Faithful(m, thrown, narrowed(m, thrown))
<1>1. thrown \in Throwable
  BY ThrownIsThrowable
<1>2. /\ thrown.class \in {"object", "transaction", "simulation", "transport",
                           "argument", "marked"}
      /\ thrown.class = "object" => thrown.reason \in {"notFound", "deleted", "unknown"}
  BY <1>1 DEF Throwable
<1>3. transportError(thrown).tag \notin Absences
  BY DEF transportError, TransportError, Failure, Absences
<1>4. m \in PlainReads \cup Sends => Tags(m) = {}
  BY DEF PlainReads, StateReads, NodeReads, LedgerReads, ChainReads, NameReads, Sends,
         Tags, ObjectLookups, TransactionLookups
<1>5. ASSUME NEW tag \in Absences
      PROVE  mapSdkError(thrown).tag = tag <=> Says(thrown, tag)
  <2>1. CASE thrown.class = "object"
    BY <2>1, <1>2 DEF mapSdkError, recognised, Failure, Says, Absences
  <2>2. CASE thrown.class = "transaction"
    BY <2>2 DEF mapSdkError, recognised, Failure, Says, Absences
  <2>3. CASE thrown.class = "simulation"
    BY <2>3 DEF mapSdkError, recognised, Failure, Says, Absences
  <2>4. CASE thrown.class \in {"transport", "argument", "marked"}
    BY <2>4, <1>3 DEF mapSdkError, recognised, Says, Absences
  <2>5. QED
    BY <1>2, <2>1, <2>2, <2>3, <2>4
<1>6. CASE m \in PlainReads \cup Sends
  BY <1>3, <1>4, <1>6 DEF narrowed, Faithful
<1>7. CASE m \notin PlainReads \cup Sends
  BY <1>3, <1>5, <1>7 DEF narrowed, Faithful, Absences
<1>8. QED
  BY <1>6, <1>7

(* A failed attempt of a request that is under way: asked again in its turn, *)
(* or answered with the failure.                                            *)
LEMMA FailureKeepsGood ==
  ASSUME Typed, NEW s \in Slot, request[s].pc = "asked", Good(request[s]),
         NEW error \in Failures, NEW said \in Thrown \cup {NoThrow},
         Faithful(request[s].method, said, error),
         Fails(s, error, said)
  PROVE  Typed' /\ Good(request'[s]) /\ \A t \in Slot \ {s} : request'[t] = request[t]
<1> DEFINE q == request[s]
           r == request'[s]
           again == readPolicy(q.method, q.attempt, error)
<1>1. q \in Request /\ request \in [Slot -> Request]
  BY DEF Typed
<1>2. /\ r.method = q.method /\ r.attempt = q.attempt /\ r.answer = error
      /\ r.pc = IF again THEN "waiting" ELSE "done"
      /\ r.said = IF again THEN NoThrow ELSE said
      /\ \A t \in Slot \ {s} : request'[t] = request[t]
  BY <1>1 DEF Fails, Request
<1>3. Typed'
  BY <1>1 DEF Fails, Typed, Request, Pc
<1>4. again <=> /\ retried(q.method) /\ MayPass(r)
                /\ q.attempt < Limit
  BY <1>1, <1>2, LimitPositive, AttemptsPositive, ScheduleIsCount
     DEF readPolicy, MayPass, Limit, Request
<1>5. Good(r)
  <2> HIDE DEF again, r
  <2> q.attempt \in Nat
    BY <1>1 DEF Request
  <2>1. CASE again
    BY <2>1, <1>2, <1>4 DEF Good, MayPass
  <2>2. CASE ~again
    BY <2>2, <1>2, <1>4, LimitPositive DEF Good, MayPass
  <2>3. QED
    BY <2>1, <2>2
<1>6. QED
  BY <1>2, <1>3, <1>5

(* An answer that tells of no absence, to a request nothing was said to.    *)
LEMMA NothingSaid ==
  ASSUME NEW m, NEW answer, answer.tag \notin Absences
  PROVE  Faithful(m, NoThrow, answer)
  BY DEF Faithful, Says, NoThrow, Absences

(* Each step of one request keeps it typed and good and leaves the others   *)
(* alone: it is asked,                                                      *)
LEMMA Asking ==
  ASSUME IInv, NEW s \in Slot, NEW m \in Method, Ask(s, m)
  PROVE  /\ IInv' /\ request[s].pc = "idle"
         /\ request'[s] = [method |-> m, pc |-> "asked", attempt |-> 1, said |-> NoThrow,
                           answer |-> Answered]
         /\ \A t \in Slot \ {s} : request'[t] = request[t]
BY LimitPositive
   DEF Ask, IInv, Typed, Request, Good, MayPass, Answered, Failure, Failures, Pc

(* answered,                                                                *)
LEMMA Answering ==
  ASSUME IInv, NEW s \in Slot, Answers(s)
  PROVE  IInv'
<1>0. request \in [Slot -> Request] /\ \A t \in Slot : Good(request[t]) /\ request[t] \in Request
  BY DEF IInv, Typed
<1>1. /\ request'[s].method = request[s].method
      /\ request'[s].attempt = request[s].attempt
      /\ request'[s].pc = "done" /\ request'[s].said = NoThrow
      /\ request'[s].answer = Answered
      /\ \A t \in Slot \ {s} : request'[t] = request[t]
  BY <1>0 DEF Answers, Request
<1>2. Typed'
  <2>1. Answered \in Failures
    BY DEF Answered, Failure, Failures
  <2> QED
    BY <1>0, <2>1 DEF Answers, Typed, Request, Pc
<1>3. Good(request'[s])
  <2>1. Answered.tag \notin Absences \cup {"TransportError"}
    BY DEF Answered, Failure, Absences
  <2>2. Faithful(request'[s].method, NoThrow, Answered)
    BY <2>1, NothingSaid
  <2> QED
    BY <1>0, <1>1, <2>1, <2>2 DEF Good, MayPass
<1> QED
  BY <1>0, <1>1, <1>2, <1>3 DEF IInv

(* failed,                                                                  *)
LEMMA Failing ==
  ASSUME IInv, NEW s \in Slot, request[s].pc = "asked",
         NEW error \in Failures, NEW said \in Thrown \cup {NoThrow},
         Faithful(request[s].method, said, error), Fails(s, error, said)
  PROVE  /\ IInv' /\ request'[s].method = request[s].method
         /\ request'[s].pc \in {"waiting", "done"} /\ request'[s].answer = error
         /\ request'[s].pc = "done" => request'[s].said = said
         /\ \A t \in Slot \ {s} : request'[t] = request[t]
<1>0. /\ Typed /\ request \in [Slot -> Request]
      /\ \A t \in Slot : Good(request[t]) /\ request[t] \in Request
  BY DEF IInv, Typed
<1>1. Typed' /\ Good(request'[s]) /\ \A t \in Slot \ {s} : request'[t] = request[t]
  BY <1>0, FailureKeepsGood
<1>2. PICK again \in BOOLEAN :
        request' = [request EXCEPT ![s].pc = IF again THEN "waiting" ELSE "done",
                                   ![s].said = IF again THEN NoThrow ELSE said,
                                   ![s].answer = error]
  <2> DEFINE policy == readPolicy(request[s].method, request[s].attempt, error)
  <2>1. request' = [request EXCEPT ![s].pc = IF policy THEN "waiting" ELSE "done",
                                   ![s].said = IF policy THEN NoThrow ELSE said,
                                   ![s].answer = error]
    BY DEF Fails
  <2> HIDE DEF policy
  <2>2. CASE policy
    BY <2>1, <2>2
  <2>3. CASE ~policy
    BY <2>1, <2>3
  <2> QED
    BY <2>2, <2>3
<1>3. /\ request'[s].method = request[s].method /\ request'[s].answer = error
      /\ request'[s].pc = IF again THEN "waiting" ELSE "done"
      /\ request'[s].said = IF again THEN NoThrow ELSE said
  BY <1>0, <1>2 DEF Request
<1> QED
  BY <1>0, <1>1, <1>3 DEF IInv

(* What a throw is to the caller, of a read of an object's past or not.     *)
LEMMA NarrowedTags ==
  ASSUME NEW m, NEW thrown \in Throwable
  PROVE  narrowed(m, thrown).tag \notin {"ok", "Absent"}
<1>1. transportError(thrown).tag \notin {"ok", "Absent"}
  BY DEF transportError, TransportError, Failure
<1>2. mapSdkError(thrown).tag \notin {"ok", "Absent"}
  <2>1. CASE ~recognised(thrown)
    BY <1>1, <2>1 DEF mapSdkError, recognised
  <2>2. CASE recognised(thrown) /\ thrown.class = "object"
    BY <2>2 DEF mapSdkError, recognised, Failure
  <2>3. CASE recognised(thrown) /\ thrown.class # "object"
    <3> DEFINE transport == IF thrown.executionError THEN {}
                            ELSE transportCauseOf(thrown.causes)
               found == CHOOSE t \in transport : TRUE
    <3> HIDE DEF transport, found
    <3>1. mapSdkError(thrown) \in {Failure("TransactionNotFound", FALSE, "none"),
               IF transport = {} THEN Failure("SimulationFailed", FALSE, "none")
               ELSE Failure("TransportError", found.retryable, found.status)}
      BY <2>3 DEF mapSdkError, recognised, transport, found
    <3> QED
      BY <3>1 DEF Failure
  <2> QED
    BY <2>1, <2>2, <2>3
<1> QED
  BY <1>1, <1>2 DEF narrowed

(* met with an error the SDK throws,                                        *)
LEMMA Throwing ==
  ASSUME IInv, NEW s \in Slot, NEW thrown \in Thrown, Throws(s, thrown)
  PROVE  /\ IInv' /\ request[s].pc = "asked" /\ request'[s].method = request[s].method
         /\ request'[s].pc \in {"waiting", "done"} /\ request'[s].answer.tag # "ok"
         /\ request'[s].answer.tag = "Absent" => absentVersion(request[s].method, thrown)
         /\ request'[s].pc = "done" => request'[s].said = thrown
         /\ \A t \in Slot \ {s} : request'[t] = request[t]
<1>0. /\ Typed /\ request \in [Slot -> Request] /\ request[s].pc = "asked"
      /\ \A t \in Slot : Good(request[t]) /\ request[t] \in Request
  BY DEF IInv, Typed, Throws
<1>1. CASE absentVersion(request[s].method, thrown)
  <2> DEFINE absent == Failure("Absent", FALSE, "none")
  <2>1. absent \in Failures /\ absent.tag \notin Absences \cup {"TransportError", "ok"}
    BY DEF Failure, Failures, Absences
  <2>2. request' = [request EXCEPT ![s].pc = "done", ![s].said = thrown,
                                   ![s].answer = absent]
    BY <1>1 DEF Throws
  <2> HIDE DEF absent
  <2>3. /\ request'[s].method = request[s].method
        /\ request'[s].attempt = request[s].attempt
        /\ request'[s].pc = "done" /\ request'[s].said = thrown
        /\ request'[s].answer = absent
        /\ \A t \in Slot \ {s} : request'[t] = request[t]
    BY <1>0, <2>2 DEF Request
  <2>4. Typed'
    BY <1>0, <2>1, <2>2 DEF Typed, Request, Pc
  <2>5. Good(request'[s])
    <3>1. thrown.class = "transport"
      BY <1>1 DEF absentVersion
    <3>2. Faithful(request'[s].method, thrown, absent)
      BY <2>1, <3>1 DEF Faithful, Says, Absences
    <3> QED
      BY <1>0, <2>1, <2>3, <3>2 DEF Good, MayPass
  <2> QED
    BY <1>0, <1>1, <2>1, <2>3, <2>4, <2>5 DEF IInv
<1>2. CASE ~absentVersion(request[s].method, thrown)
  <2> DEFINE error == narrowed(request[s].method, thrown)
  <2>1. error \in Failures
    BY FailuresAreTyped
  <2>2. Faithful(request[s].method, thrown, error)
    BY <1>0, AbsencesAreTheNodes DEF Request
  <2>3. Fails(s, error, thrown)
    BY <1>2 DEF Throws
  <2>4. error.tag \notin {"ok", "Absent"}
    BY NarrowedTags, ThrownIsThrowable
  <2> HIDE DEF error
  <2> QED
    BY <1>0, <2>1, <2>2, <2>3, <2>4, Failing
<1> QED
  BY <1>1, <1>2

(* cut off,                                                                 *)
LEMMA CuttingOff ==
  ASSUME IInv, NEW s \in Slot, TimesOut(s)
  PROVE  /\ IInv' /\ request[s].pc = "asked" /\ request'[s].method = request[s].method
         /\ request'[s].pc \in {"waiting", "done"} /\ request'[s].answer.tag = "TransportError"
         /\ request'[s].pc = "done" => request'[s].said = NoThrow
         /\ \A t \in Slot \ {s} : request'[t] = request[t]
<1> DEFINE late == Failure("TransportError", TRUE, "DEADLINE_EXCEEDED")
<1>1. late \in Failures /\ late.tag \notin Absences /\ late.tag = "TransportError"
  BY DEF Failure, Failures, Statuses, Absences
<1>2. request[s].pc = "asked" /\ Fails(s, late, NoThrow)
  BY DEF TimesOut
<1> HIDE DEF late
<1>3. Faithful(request[s].method, NoThrow, late)
  BY <1>1, NothingSaid
<1> QED
  BY <1>1, <1>2, <1>3, Failing

(* asked again on the schedule,                                             *)
LEMMA AskingAgain ==
  ASSUME IInv, NEW s \in Slot, Again(s)
  PROVE  /\ IInv' /\ request[s].pc = "waiting" /\ request'[s].method = request[s].method
         /\ request'[s].pc = "asked"
         /\ \A t \in Slot \ {s} : request'[t] = request[t]
<1>0. request \in [Slot -> Request] /\ \A t \in Slot : Good(request[t]) /\ request[t] \in Request
  BY DEF IInv, Typed
<1>1. /\ request'[s].method = request[s].method
      /\ request'[s].attempt = request[s].attempt + 1
      /\ request'[s].pc = "asked" /\ request'[s].answer = Answered
      /\ \A t \in Slot \ {s} : request'[t] = request[t]
  BY <1>0 DEF Again, Request
<1>2. Typed'
  BY <1>0 DEF Again, Typed, Request, Pc, Answered, Failure, Failures
<1>3. retried(request[s].method) /\ request[s].attempt < Limit
  BY <1>0 DEF Again, Good
<1>4. Good(request'[s])
  <2>1. request[s].method \notin Sends
    BY <1>3 DEF retried
  <2> QED
    BY <1>0, <1>1, <1>3, <2>1, LimitPositive DEF Good, Request
<1> QED
  BY <1>0, <1>1, <1>2, <1>4 DEF IInv, Again

(* An idle request is good.                                                 *)
LEMMA Rested == Idle \in Request /\ Good(Idle)
BY LimitPositive
   DEF Request, Idle, Answered, Failure, Failures, Pc, Method, Uses, Good, Sends, MayPass

(* or let go.                                                               *)
LEMMA LettingGo ==
  ASSUME IInv, NEW s \in Slot, Release(s)
  PROVE  IInv' /\ request' = [request EXCEPT ![s] = Idle]
BY Rested DEF Release, IInv, Typed

(* The invariant of the read tier holds always.                             *)
LEMMA IInvAlways == ReadSpec => []IInv
<1>1. ReadInit => IInv
  BY Rested DEF ReadInit, IInv, Typed
<1>2. IInv /\ [ReadNext]_request => IInv'
  <2> SUFFICES ASSUME IInv, [ReadNext]_request
               PROVE  IInv'
    OBVIOUS
  <2>1. CASE UNCHANGED request
    BY <2>1 DEF IInv, Typed
  <2> QED
    BY <2>1, Asking, Answering, Throwing, CuttingOff, AskingAgain, LettingGo DEF ReadNext
<1>3. QED
  BY <1>1, <1>2, PTL DEF ReadSpec

-----------------------------------------------------------------------------
(* The requests keep their types: attempts are counted, and what a caller   *)
(* is told is a failure of the taxonomy, a defect or an answer.             *)
THEOREM TypeCorrect == ReadSpec => []ReadTypeOK
<1>1. IInv => ReadTypeOK
  BY DEF IInv, Typed, Request, ReadTypeOK
<1>2. QED
  BY <1>1, IInvAlways, PTL

(* executeTransaction and signAndExecuteTransaction reach the node once per *)
(* call, whatever becomes of it: the read tier has no word of the journal.  *)
THEOREM SendsAreSentOnce == ReadSpec => []SendsOnce
<1>1. IInv => SendsOnce
  BY DEF IInv, Good, SendsOnce
<1>2. QED
  BY <1>1, IInvAlways, PTL

(* What does not exist does so by the node's word: mapSdkError and the      *)
(* narrowing of each method tell of an absence exactly when the SDK did.    *)
THEOREM AbsenceIsSaid == ReadSpec => []AbsenceIsTheNodes
<1>1. IInv => AbsenceIsTheNodes
  BY DEF IInv, Good, Faithful, Says, Absences, AbsenceIsTheNodes
<1>2. QED
  BY <1>1, IInvAlways, PTL

(* A read is asked again exactly while its failure may pass and attempts    *)
(* are left, under the default policy and any custom schedule; the wait for *)
(* a transaction at most that often.                                        *)
THEOREM ReadsAreRetried == ReadSpec => []RetriedWhileItMayPass
<1>1. IInv => RetriedWhileItMayPass
  BY DEF IInv, Good, MayPass, Limit, RetriedWhileItMayPass
<1>2. QED
  BY <1>1, IInvAlways, PTL

(* The method a read calls.                                                 *)
MethodOf(op) ==
  IF op \in Batch THEN "getObjects"
  ELSE IF op \in DOMAIN Stream1 THEN Stream1[op] ELSE Read1[op]

Reading ==
  [op : Op, pc : {"idle", "asking", "done"}, ids : Seq(Spelling), asked : Nat,
   at : [Slot -> Nat], answers : SUBSET Item, results : Seq(Item), result : Result,
   client : Client, cursor : 0..MaxHeld, emitted : Seq(1..MaxHeld)]

Held == [held : SUBSET (1..MaxHeld), since : SUBSET (1..MaxHeld), ever : SUBSET (1..MaxHeld)]

ReadsTyped ==
  /\ Typed /\ read \in Reading /\ holding \in Held
  /\ told \in [Object -> SUBSET (Is \cup {"version", "noVersion"})]
  /\ holding.since \subseteq holding.held /\ holding.held \subseteq holding.ever

(* A request under way is the read's own, at a chunk that was asked for; a  *)
(* failure it has ended with is one the node told of.                       *)
OfTheRead(s) ==
  request[s].pc # "idle" =>
    /\ read.pc = "asking" /\ request[s].method = MethodOf(read.op)
    /\ IF read.op \in Batch THEN read.at[s] \in 1..read.asked ELSE s = 1
    /\ request[s].pc = "done" =>
         /\ request[s].answer.tag # "ok"
         /\ request[s].said.class = "object" =>
              read.op \in ObjectReads1 /\ request[s].said.reason \in told[Asked]
         /\ request[s].answer.tag = "Absent" =>
              read.op = "getObjectAtVersion" /\ "noVersion" \in told[Asked]

AnsweredOf(chunk, answers) ==
  \A k \in 1..Len(chunk) : \E item \in answers : item.about = keyOf[chunk[k]]

(* A chunk that was asked for has been answered or is being asked for.      *)
BatchKept ==
  read.pc = "asking" /\ read.op \in Batch =>
    /\ read.asked <= Len(chunksOf(read.ids))
    /\ \A item \in read.answers : item.is \in told[item.about]
    /\ \A c \in 1..read.asked :
         \/ AnsweredOf(chunksOf(read.ids)[c], read.answers)
         \/ \E s \in Slot : request[s].pc # "idle" /\ read.at[s] = c

OneIsAsked == read.op \in DOMAIN Read1 /\ read.pc # "idle" => Len(read.ids) = 1

(* What a stream gave out lies up to its cursor, in order, with all that was *)
(* held throughout.                                                         *)
StreamKept ==
  read.op \in DOMAIN Stream1 =>
    /\ \A i, j \in 1..Len(read.emitted) : i < j => read.emitted[i] < read.emitted[j]
    /\ \A i \in 1..Len(read.emitted) :
         read.emitted[i] \in holding.ever /\ read.emitted[i] <= read.cursor
    /\ \A h \in holding.since :
         h <= read.cursor => \E i \in 1..Len(read.emitted) : read.emitted[i] = h
    /\ read.pc = "done" /\ read.result = "value" => read.cursor = MaxHeld
    /\ read.pc = "asking" => read.result = "value"

ReadsInv ==
  /\ ReadsTyped /\ \A s \in Slot : Good(request[s]) /\ OfTheRead(s)
  /\ BatchKept /\ OneIsAsked /\ StreamKept
  /\ EachIdItsOwnAnswer /\ NoneIsAnAnswer


-----------------------------------------------------------------------------
Saying == [Object -> SUBSET (Is \cup {"version", "noVersion"})]

(* What a batch answers, of what was told.                                  *)
Batched(op, ids, results, said) ==
  /\ Len(results) = Len(ids)
  /\ \A i \in DOMAIN ids :
       /\ results[i].about = keyOf[ids[i]]
       /\ results[i].is \in said[keyOf[ids[i]]]
       /\ op = "getObjectsStrict" => results[i].is = "live"
  /\ \A o \in Object : Cardinality({r \in ToSet(results) : r.about = o}) <= 1

(* What may be answered with, of what was told.                             *)
MayEndWith(op, ids, client, result, results, said) ==
  /\ op \in Batch /\ result = "value" => Batched(op, ids, results, said)
  /\ result = "none" /\ op \in ObjectReads1 =>
       said[keyOf[ids[1]]] \cap {"notFound", "deleted"} # {}
  /\ result = "Absent" /\ client # "other" => "noVersion" \in said[keyOf[ids[1]]]
  /\ result = "value" /\ op = "getObjectAtVersion" => "version" \in said[keyOf[ids[1]]]

(* A failure is no answer about anything.                                   *)
LEMMA FailuresTell ==
  ASSUME NEW op, NEW ids, NEW client, NEW result, NEW results, NEW said,
         result \notin {"value", "none", "Absent"}
  PROVE  MayEndWith(op, ids, client, result, results, said)
BY DEF MayEndWith

(* The fields of the read.                                                  *)
LEMMA Fields ==
  ASSUME read \in Reading
  PROVE  /\ read.op \in Op /\ read.pc \in {"idle", "asking", "done"}
         /\ read.ids \in Seq(Spelling) /\ read.asked \in Nat /\ read.at \in [Slot -> Nat]
         /\ read.answers \subseteq Item /\ read.results \in Seq(Item)
         /\ read.result \in Result /\ read.client \in Client
         /\ read.cursor \in 0..MaxHeld /\ read.emitted \in Seq(1..MaxHeld)
BY DEF Reading

(* The kinds of reads are different ones.                                   *)
LEMMA Kinds ==
  /\ Batch \cap (DOMAIN Read1 \cup DOMAIN Stream1) = {} /\ DOMAIN Read1 \cap DOMAIN Stream1 = {}
  /\ ObjectReads1 \subseteq DOMAIN Read1 /\ NodeReads1 \subseteq DOMAIN Read1
  /\ \A op \in DOMAIN Read1 : Read1[op] \in Method /\ MethodOf(op) = Read1[op]
  /\ \A op \in DOMAIN Stream1 : Stream1[op] \in Method /\ MethodOf(op) = Stream1[op]
  /\ \A op \in Batch : MethodOf(op) = "getObjects"
  /\ "getObjects" \in Method
  /\ \A op \in NodeReads1 : Read1[op] = op
  /\ \A op \in Op : MethodOf(op) = "getObjectAtVersion" => op = "getObjectAtVersion"
  /\ "layer" \in DOMAIN Read1 /\ Read1["layer"] = "getChainIdentifier"
<1>1. /\ Batch = {"getObjects", "getObjectsStrict"}
      /\ DOMAIN Stream1 = {"streamOwnedObjects", "streamDynamicFields", "streamBalances",
                           "streamCoins"}
      /\ DOMAIN Read1 = {"getObject", "getObjectOption", "getDynamicFieldOption",
           "getDynamicObjectFieldOption", "chainTime", "getBalance", "getTransaction",
           "getCoinMetadataOption", "resolveNameServiceAddressOption",
           "defaultNameServiceNameOption", "getObjectAtVersion", "getServiceInfo",
           "simulate", "view", "layer"}
  BY DEF Batch, Stream1, Read1
<1>2. \A op \in DOMAIN Read1 : Read1[op] \in Method
  BY DEF Read1, Method, ObjectLookups, TransactionLookups, PlainReads, StateReads, NodeReads,
         ChainReads, NameReads
<1>3. \A op \in DOMAIN Stream1 : Stream1[op] \in Method
  BY DEF Stream1, Method, PlainReads, StateReads
<1>4. "getObjects" \in Method
  BY DEF Method, PlainReads, StateReads
<1>5. /\ \A op \in DOMAIN Read1 : op \notin Batch \cup DOMAIN Stream1
      /\ \A op \in DOMAIN Stream1 : op \notin Batch
  BY <1>1
<1>6. /\ \A op \in DOMAIN Read1 : MethodOf(op) = Read1[op]
      /\ \A op \in DOMAIN Stream1 : MethodOf(op) = Stream1[op]
      /\ \A op \in Batch : MethodOf(op) = "getObjects"
  BY <1>5 DEF MethodOf
<1>7. \A op \in Op : MethodOf(op) = "getObjectAtVersion" => op = "getObjectAtVersion"
  <2>1. \A op \in DOMAIN Read1 : Read1[op] = "getObjectAtVersion" => op = "getObjectAtVersion"
    BY DEF Read1
  <2>2. \A op \in DOMAIN Stream1 : Stream1[op] # "getObjectAtVersion"
    BY DEF Stream1
  <2>3. \A op \in Op : op \in DOMAIN Read1 \/ op \in DOMAIN Stream1 \/ op \in Batch
    BY DEF Op, Batch
  <2> QED
    BY <1>6, <2>1, <2>2, <2>3
<1>8. ObjectReads1 \subseteq DOMAIN Read1 /\ NodeReads1 \subseteq DOMAIN Read1
  BY <1>1 DEF ObjectReads1, NodeReads1
<1>9. \A op \in NodeReads1 : Read1[op] = op
  BY DEF NodeReads1, Read1
<1>10. "layer" \in DOMAIN Read1 /\ Read1["layer"] = "getChainIdentifier"
  BY DEF Read1
<1>11. /\ Batch \cap (DOMAIN Read1 \cup DOMAIN Stream1) = {}
       /\ DOMAIN Read1 \cap DOMAIN Stream1 = {}
  BY <1>5
<1> QED
  BY <1>2, <1>3, <1>4, <1>6, <1>7, <1>8, <1>9, <1>10, <1>11

(* The requests of a read that is over, or has none under way.              *)
LEMMA Resting ==
  ASSUME request = [s \in Slot |-> Idle]
  PROVE  Typed /\ \A s \in Slot : Good(request[s]) /\ OfTheRead(s) /\ request[s].pc = "idle"
BY Rested DEF Typed, OfTheRead, Idle

(* A read of one thing has a slot to ask in.                                *)
LEMMA OneSlot == 1 \in Slot
BY RoomForChunks, ChunkLimitsPositive

(* A read ends with what may be answered.                                   *)
LEMMA Ending ==
  ASSUME ReadsInv, read.pc = "asking", NEW result \in Result, NEW results \in Seq(Item),
         Finish(result, results), holding' = holding, told' \in Saying,
         MayEndWith(read.op, read.ids, read.client, result, results, told'),
         result = "value" => read.op \notin DOMAIN Stream1
  PROVE  ReadsInv'
<1>0. read \in Reading /\ ReadsTyped /\ OneIsAsked /\ StreamKept
  BY DEF ReadsInv, ReadsTyped
<1>1. read' = [read EXCEPT !.pc = "done", !.result = result, !.results = results,
                           !.at = [s \in Slot |-> 0]]
  BY DEF Finish
<1>2. read' \in Reading
  BY <1>0, <1>1 DEF Reading
<1>3. /\ read'.pc = "done" /\ read'.result = result /\ read'.results = results
      /\ read'.op = read.op /\ read'.ids = read.ids /\ read'.client = read.client
      /\ read'.cursor = read.cursor /\ read'.emitted = read.emitted
  BY <1>0, <1>1 DEF Reading
<1>4. Typed' /\ \A s \in Slot : Good(request'[s]) /\ OfTheRead(s)'
  <2>1. request' = [s \in Slot |-> Idle]
    BY DEF Finish
  <2> QED
    BY <2>1, Rested DEF Typed, OfTheRead, Idle
<1>5. ReadsTyped'
  BY <1>0, <1>2, <1>4 DEF ReadsTyped, Saying
<1>6. BatchKept' /\ OneIsAsked'
  BY <1>0, <1>3 DEF BatchKept, OneIsAsked
<1>7. StreamKept'
  BY <1>0, <1>3 DEF StreamKept
<1>8. EachIdItsOwnAnswer' /\ NoneIsAnAnswer'
  BY <1>3 DEF EachIdItsOwnAnswer, NoneIsAnAnswer, MayEndWith, Batched, Asked
<1> QED
  BY <1>4, <1>5, <1>6, <1>7, <1>8 DEF ReadsInv

(* A request of the read moves on: the rest of the read stays as it is, but *)
(* for the count of the asked of a read that asks for one thing.            *)
LEMMA MovingOn ==
  ASSUME ReadsInv, read.pc = "asking", NEW s \in Slot, IInv',
         request[s].pc # "idle", request'[s].pc # "idle",
         request'[s].method = request[s].method,
         \A t \in Slot \ {s} : request'[t] = request[t],
         holding' = holding, told' \in Saying, \A o \in Object : told[o] \subseteq told'[o],
         NEW asked \in Nat, read' = [read EXCEPT !.asked = asked],
         read.op \in Batch => asked = read.asked,
         request'[s].pc = "done" =>
           /\ request'[s].answer.tag # "ok"
           /\ request'[s].said.class = "object" =>
                read.op \in ObjectReads1 /\ request'[s].said.reason \in told'[Asked]
           /\ request'[s].answer.tag = "Absent" =>
                read.op = "getObjectAtVersion" /\ "noVersion" \in told'[Asked]
  PROVE  ReadsInv'
<1>0. read \in Reading /\ ReadsTyped /\ OneIsAsked /\ StreamKept /\ BatchKept
  BY DEF ReadsInv, ReadsTyped
<1>1. read' \in Reading
  BY <1>0 DEF Reading
<1>2. /\ read'.pc = read.pc /\ read'.op = read.op /\ read'.ids = read.ids
      /\ read'.at = read.at /\ read'.answers = read.answers /\ read'.result = read.result
      /\ read'.asked = asked
      /\ read'.cursor = read.cursor /\ read'.emitted = read.emitted
  BY <1>0 DEF Reading
<1>3. Typed' /\ \A t \in Slot : Good(request'[t])
  BY DEF IInv
<1>4. ReadsTyped'
  BY <1>0, <1>1, <1>3 DEF ReadsTyped, Saying
<1>5. Asked' = Asked
  BY <1>2 DEF Asked
<1>6. OfTheRead(s)'
  <2>1. OfTheRead(s)
    BY DEF ReadsInv
  <2> QED
    BY <1>2, <1>5, <2>1 DEF OfTheRead
<1>7. ASSUME NEW t \in Slot \ {s} PROVE OfTheRead(t)'
  <2>1. OfTheRead(t) /\ request'[t] = request[t]
    BY DEF ReadsInv
  <2>2. told \in Saying
    BY <1>0 DEF ReadsTyped, Saying
  <2>3. Asked \in Object => told[Asked] \subseteq told'[Asked]
    OBVIOUS
  <2>4. request[t].pc # "idle" /\ read.op \notin Batch => t = 1
    BY <2>1 DEF OfTheRead
  <2>5. request[s].pc # "idle" /\ read.op \notin Batch => s = 1
    BY DEF ReadsInv, OfTheRead
  <2>6. request[t].pc # "idle" => read.op \in Batch
    BY <2>4, <2>5
  <2>7. read.op \in Batch => read.op \notin ObjectReads1 /\ read.op # "getObjectAtVersion"
    BY DEF Batch, ObjectReads1
  <2> QED
    BY <1>2, <1>5, <2>1, <2>6, <2>7 DEF OfTheRead
<1>8. BatchKept'
  <2>1. SUFFICES ASSUME read.op \in Batch
                 PROVE  BatchKept'
    BY <1>2 DEF BatchKept
  <2>2. /\ read.asked <= Len(chunksOf(read.ids))
        /\ \A item \in read.answers : item.is \in told[item.about]
        /\ \A c \in 1..read.asked :
             \/ AnsweredOf(chunksOf(read.ids)[c], read.answers)
             \/ \E t \in Slot : request[t].pc # "idle" /\ read.at[t] = c
    BY <1>0, <2>1 DEF BatchKept
  <2>3. \A item \in read.answers : item.is \in told'[item.about]
    <3>1. \A item \in read.answers : item.about \in Object
      BY <1>0 DEF Reading, Item
    <3> QED
      BY <2>2, <3>1
  <2>4. \A t \in Slot : request[t].pc # "idle" => request'[t].pc # "idle"
    OBVIOUS
  <2> QED
    BY <1>2, <2>1, <2>2, <2>3, <2>4 DEF BatchKept
<1>9. OneIsAsked' /\ StreamKept'
  BY <1>0, <1>2 DEF OneIsAsked, StreamKept
<1>10. EachIdItsOwnAnswer' /\ NoneIsAnAnswer'
  BY <1>2 DEF EachIdItsOwnAnswer, NoneIsAnAnswer
<1> QED
  BY <1>3, <1>4, <1>6, <1>7, <1>8, <1>9, <1>10 DEF ReadsInv

(* The invariant of the requests is part of the invariant of the reads.     *)
LEMMA Requests == ReadsInv => IInv /\ Typed /\ \A s \in Slot : request[s] \in Request
BY DEF ReadsInv, ReadsTyped, IInv, Typed

(* A transport fails, an attempt is cut off, the schedule goes on.          *)
LEMMA TransportFails ==
  ASSUME ReadsInv, NEW s \in Slot, transportFails(s)
  PROVE  ReadsInv'
<1>0. /\ read.pc = "asking" /\ UNCHANGED <<read, told, holding>> /\ IInv
      /\ read \in Reading /\ told \in Saying /\ OfTheRead(s)
  BY Requests DEF transportFails, ReadsInv, ReadsTyped, Saying
<1>1. read.asked \in Nat /\ read' = [read EXCEPT !.asked = read.asked]
  BY <1>0 DEF Reading
<1>2. CASE TimesOut(s)
  <2>1. NoThrow.class # "object"
    BY DEF NoThrow
  <2>2. /\ IInv' /\ request[s].pc = "asked" /\ request'[s].method = request[s].method
        /\ request'[s].pc \in {"waiting", "done"} /\ request'[s].answer.tag = "TransportError"
        /\ request'[s].pc = "done" => request'[s].said = NoThrow
        /\ \A t \in Slot \ {s} : request'[t] = request[t]
    BY <1>0, <1>2, CuttingOff
  <2> QED
    BY <1>0, <1>1, <2>1, <2>2, MovingOn
<1>3. CASE Again(s)
  BY <1>0, <1>1, <1>3, AskingAgain, MovingOn
<1>4. ASSUME NEW thrown \in Thrown, thrown.class \in ThrownBy(read.op),
             read.op = "getObjectAtVersion" => thrown \notin NotServed, Throws(s, thrown)
      PROVE  ReadsInv'
  <2>1. thrown.class # "object"
    BY <1>4 DEF ThrownBy
  <2>2. /\ IInv' /\ request[s].pc = "asked" /\ request'[s].method = request[s].method
        /\ request'[s].pc \in {"waiting", "done"} /\ request'[s].answer.tag # "ok"
        /\ request'[s].answer.tag = "Absent" => absentVersion(request[s].method, thrown)
        /\ request'[s].pc = "done" => request'[s].said = thrown
        /\ \A t \in Slot \ {s} : request'[t] = request[t]
    BY <1>0, <1>4, Throwing
  <2>3. ~absentVersion(request[s].method, thrown)
    <3>1. SUFFICES ASSUME absentVersion(request[s].method, thrown) PROVE FALSE
      OBVIOUS
    <3>2. MethodOf(read.op) = "getObjectAtVersion" /\ read.op \in Op
      BY <1>0, <2>2, <3>1 DEF absentVersion, OfTheRead, Reading
    <3>3. read.op = "getObjectAtVersion"
      BY <3>2, Kinds
    <3>4. thrown.class = "transport" /\ thrown.cause \in {"NOT_FOUND", "5"}
      BY <3>1 DEF absentVersion
    <3>5. thrown \in Throwable
      BY ThrownIsThrowable
    <3>6. thrown \in [class : {"transport"}, cause : Cause]
      BY <3>4, <3>5 DEF Throwable
    <3>7. thrown \in NotServed
      BY <3>4, <3>6 DEF NotServed
    <3> QED
      BY <1>4, <3>3, <3>7
  <2> QED
    BY <1>0, <1>1, <2>1, <2>2, <2>3, MovingOn
<1> QED
  BY <1>2, <1>3, <1>4 DEF transportFails

(* Where a request may be asked: at rest, nothing is under way.             *)
LEMMA Rest ==
  ASSUME ReadsInv, read.pc # "asking"
  PROVE  \A s \in Slot : request[s].pc = "idle"
BY DEF ReadsInv, OfTheRead

(* A read of one thing starts, and asks.                                    *)
LEMMA StartsOne ==
  ASSUME ReadsInv, NEW op \in DOMAIN Read1, NEW id \in Spelling, NEW client \in Client,
         read.pc = "idle",
         read' = [op |-> op, pc |-> "asking", ids |-> <<id>>, asked |-> 0,
                  at |-> [s \in Slot |-> 0], answers |-> {}, results |-> <<>>,
                  result |-> "value", client |-> client, cursor |-> 0, emitted |-> <<>>],
         Ask(1, Read1[op]), UNCHANGED <<told, holding>>
  PROVE  ReadsInv'
<1>0. \A s \in Slot : request[s].pc = "idle"
  BY Rest
<1>1. op \in Op /\ op \notin Batch /\ op \notin DOMAIN Stream1
      /\ Read1[op] \in Method /\ MethodOf(op) = Read1[op]
  BY Kinds DEF Op
<1>2. /\ IInv'
      /\ request'[1] = [method |-> Read1[op], pc |-> "asked", attempt |-> 1, said |-> NoThrow,
                        answer |-> Answered]
      /\ \A t \in Slot \ {1} : request'[t] = request[t]
  BY <1>1, Requests, Asking, OneSlot
<1>3. PICK ids \in Seq(Spelling) : ids = <<id>> /\ Len(ids) = 1
  <2>1. <<id>> \in Seq(Spelling) /\ Len(<<id>>) = 1
    OBVIOUS
  <2> QED
    BY <2>1
<1>4. read' \in Reading
  <2>1. read' = [op |-> op, pc |-> "asking", ids |-> ids, asked |-> 0,
                 at |-> [s \in Slot |-> 0], answers |-> {}, results |-> <<>>,
                 result |-> "value", client |-> client, cursor |-> 0, emitted |-> <<>>]
    BY <1>3
  <2>2. 0 \in 0..MaxHeld /\ "value" \in Result
    BY HoldingsAreCounted DEF Result
  <2> QED
    BY <1>1, <2>1, <2>2 DEF Reading
<1>5. /\ read'.op = op /\ read'.pc = "asking" /\ Len(read'.ids) = 1
  OBVIOUS
<1>6. ReadsTyped' /\ \A s \in Slot : Good(request'[s])
  BY <1>2, <1>4 DEF ReadsTyped, ReadsInv, IInv
<1>7. \A s \in Slot : OfTheRead(s)'
  BY <1>0, <1>1, <1>2, <1>5 DEF OfTheRead
<1>8. BatchKept' /\ OneIsAsked' /\ StreamKept'
  BY <1>1, <1>5 DEF BatchKept, OneIsAsked, StreamKept
<1>9. EachIdItsOwnAnswer' /\ NoneIsAnAnswer'
  BY <1>5 DEF EachIdItsOwnAnswer, NoneIsAnAnswer
<1> QED
  BY <1>6, <1>7, <1>8, <1>9 DEF ReadsInv

(* A read of one thing starts, of the node's own methods too.               *)
LEMMA Starts ==
  ASSUME ReadsInv, NEW op \in DOMAIN Read1, NEW id \in Spelling
  PROVE  /\ ask(op, id) => ReadsInv'
         /\ op \in NodeReads1 => \A client \in Client : askNode(op, id, client) => ReadsInv'
<1>1. ASSUME ask(op, id) PROVE ReadsInv'
  <2>1. "grpc" \in Client
    BY DEF Client
  <2>2. read' = [op |-> op, pc |-> "asking", ids |-> <<id>>, asked |-> 0,
                 at |-> [s \in Slot |-> 0], answers |-> {}, results |-> <<>>,
                 result |-> "value", client |-> "grpc", cursor |-> 0, emitted |-> <<>>]
    BY <1>1 DEF ask, NoRead
  <2> QED
    BY <1>1, <2>1, <2>2, StartsOne DEF ask
<1>2. ASSUME NEW client \in Client, op \in NodeReads1, askNode(op, id, client) PROVE ReadsInv'
  <2>1. Read1[op] = op
    BY <1>2, Kinds
  <2>2. read' = [op |-> op, pc |-> "asking", ids |-> <<id>>, asked |-> 0,
                 at |-> [s \in Slot |-> 0], answers |-> {}, results |-> <<>>,
                 result |-> "value", client |-> client, cursor |-> 0, emitted |-> <<>>]
    BY <1>2 DEF askNode, NoRead
  <2>3. /\ read.pc = "idle" /\ Ask(1, Read1[op]) /\ UNCHANGED told
        /\ UNCHANGED holding
    BY <1>2, <2>1 DEF askNode
  <2> QED
    BY <1>2, <2>2, <2>3, StartsOne
<1> QED
  BY <1>1, <1>2

(* A batch starts with nothing asked for.                                   *)
LEMMA BatchStarts ==
  ASSUME ReadsInv, NEW op \in Batch, NEW ids \in Batches, getObjects(op, ids)
  PROVE  ReadsInv'
<1>0. \A s \in Slot : request[s].pc = "idle"
  BY Rest DEF getObjects
<1>1. op \in Op /\ op \notin DOMAIN Stream1 /\ op \notin DOMAIN Read1 /\ ids \in Seq(Spelling)
  BY Kinds, BatchesAreLists DEF Op, Batch
<1>2. read' = [op |-> op, pc |-> "asking", ids |-> ids, asked |-> 0,
               at |-> [s \in Slot |-> 0], answers |-> {}, results |-> <<>>,
               result |-> "value", client |-> "grpc", cursor |-> 0, emitted |-> <<>>]
  BY DEF NoRead, getObjects
<1>3. read' \in Reading
  <2>1. 0 \in 0..MaxHeld /\ "value" \in Result /\ "grpc" \in Client
    BY HoldingsAreCounted DEF Result, Client
  <2> QED
    BY <1>1, <1>2, <2>1 DEF Reading
<1>4. read'.op = op /\ read'.pc = "asking" /\ read'.ids = ids /\ read'.asked = 0
      /\ read'.answers = {}
  BY <1>2
<1>5. UNCHANGED <<told, holding, request>>
  BY DEF getObjects
<1>6. ReadsTyped' /\ \A s \in Slot : Good(request'[s])
  BY <1>3, <1>5 DEF ReadsTyped, ReadsInv, Typed
<1>7. \A s \in Slot : OfTheRead(s)'
  BY <1>0, <1>5 DEF OfTheRead
<1>8. BatchKept'
  BY <1>1, <1>4, Chunks DEF BatchKept
<1>9. OneIsAsked' /\ StreamKept' /\ EachIdItsOwnAnswer' /\ NoneIsAnAnswer'
  BY <1>1, <1>4 DEF OneIsAsked, StreamKept, EachIdItsOwnAnswer, NoneIsAnAnswer
<1> QED
  BY <1>6, <1>7, <1>8, <1>9 DEF ReadsInv

(* A stream opens on what is held.                                          *)
LEMMA StreamOpens ==
  ASSUME ReadsInv, NEW op \in DOMAIN Stream1, openStream(op)
  PROVE  ReadsInv'
<1>0. \A s \in Slot : request[s].pc = "idle"
  BY Rest DEF openStream
<1>1. op \in Op /\ op \notin Batch /\ op \notin DOMAIN Read1
  BY Kinds DEF Op
<1>2. read' = [op |-> op, pc |-> "asking", ids |-> <<>>, asked |-> 0,
               at |-> [s \in Slot |-> 0], answers |-> {}, results |-> <<>>,
               result |-> "value", client |-> "grpc", cursor |-> 0, emitted |-> <<>>]
  BY DEF NoRead, openStream
<1>3. read' \in Reading
  <2>1. 0 \in 0..MaxHeld /\ "value" \in Result /\ "grpc" \in Client
    BY HoldingsAreCounted DEF Result, Client
  <2> QED
    BY <1>1, <1>2, <2>1 DEF Reading
<1>4. /\ read'.op = op /\ read'.pc = "asking" /\ Len(read'.emitted) = 0 /\ read'.cursor = 0
      /\ read'.result = "value"
  BY <1>2
<1>5. UNCHANGED <<told, request>>
  BY DEF openStream
<1>6. PICK h \in SUBSET (1..MaxHeld) : holding' = [held |-> h, since |-> h, ever |-> h]
  BY DEF openStream
<1>7. ReadsTyped' /\ \A s \in Slot : Good(request'[s])
  <2>1. /\ holding' \in Held /\ holding'.since \subseteq holding'.held
        /\ holding'.held \subseteq holding'.ever
    BY <1>6 DEF Held
  <2> QED
    BY <1>3, <1>5, <2>1 DEF ReadsTyped, ReadsInv, Typed
<1>8. \A s \in Slot : OfTheRead(s)'
  BY <1>0, <1>5 DEF OfTheRead
<1>9. StreamKept'
  <2>1. \A n \in holding'.since : n \in 1..MaxHeld
    BY <1>6
  <2>2. \A n \in holding'.since : ~ (n <= 0)
    BY <2>1
  <2>3. \A n \in 1..0 : FALSE
    OBVIOUS
  <2> QED
    BY <1>4, <2>2, <2>3 DEF StreamKept
<1>10. BatchKept' /\ OneIsAsked' /\ EachIdItsOwnAnswer' /\ NoneIsAnAnswer'
  BY <1>1, <1>4 DEF BatchKept, OneIsAsked, EachIdItsOwnAnswer, NoneIsAnAnswer
<1> QED
  BY <1>7, <1>8, <1>9, <1>10 DEF ReadsInv

(* The object a read of one thing asks for.                                 *)
LEMMA AskedIsOne ==
  ASSUME ReadsInv, read.op \in DOMAIN Read1, read.pc # "idle"
  PROVE  Asked \in Object /\ Asked = keyOf[read.ids[1]] /\ read.ids \in Seq(Spelling)
<1>1. read.ids \in Seq(Spelling) /\ Len(read.ids) = 1
  BY DEF ReadsInv, ReadsTyped, Reading, OneIsAsked
<1>2. read.ids[1] \in Spelling
  BY <1>1
<1> QED
  BY <1>1, <1>2 DEF Asked, Object

(* More is told of one object.                                              *)
LEMMA TellsMore ==
  ASSUME told \in Saying, NEW o \in Object, NEW said \in SUBSET (Is \cup {"version", "noVersion"}),
         told' = [told EXCEPT ![o] = @ \cup said]
  PROVE  told' \in Saying /\ said \subseteq told'[o] /\ \A p \in Object : told[p] \subseteq told'[p]
BY DEF Saying

(* A node that reads history says it has the version, or has it not.        *)
LEMMA AtVersion ==
  ASSUME ReadsInv, readObjectAtVersion
  PROVE  ReadsInv'
<1>0. /\ read.pc = "asking" /\ read.op = "getObjectAtVersion" /\ holding' = holding
      /\ told \in Saying /\ <<>> \in Seq(Item)
  BY DEF readObjectAtVersion, asking1, ReadsInv, ReadsTyped, Saying
<1>1. read.op \in DOMAIN Read1 /\ read.op \notin Batch \cup ObjectReads1 \cup DOMAIN Stream1
  BY <1>0, Kinds DEF NodeReads1, ObjectReads1
<1>2. Asked \in Object /\ Asked = keyOf[read.ids[1]]
  BY <1>0, <1>1, AskedIsOne
<1>3. {"Absent", "value"} \subseteq Result
  BY DEF Result
<1>4. CASE read.client = "other"
  <2>1. Finish("Absent", <<>>) /\ told' = told
    BY <1>4 DEF readObjectAtVersion
  <2>2. MayEndWith(read.op, read.ids, read.client, "Absent", <<>>, told')
    BY <1>4 DEF MayEndWith
  <2> QED
    BY <1>0, <1>3, <2>1, <2>2, Ending
<1>5. CASE read.client # "other"
  <2>1. PICK is \in {"version", "noVersion"} :
          /\ told' = [told EXCEPT ![Asked] = @ \cup {is}]
          /\ Finish(IF is = "version" THEN "value" ELSE "Absent", <<>>)
    BY <1>5 DEF readObjectAtVersion
  <2>2. told' \in Saying /\ is \in told'[Asked]
    <3>1. {is} \in SUBSET (Is \cup {"version", "noVersion"})
      OBVIOUS
    <3> QED
      BY <1>0, <1>2, <2>1, <3>1, TellsMore
  <2>3. CASE is = "version"
    <3>1. MayEndWith(read.op, read.ids, read.client, "value", <<>>, told')
      BY <1>1, <1>2, <2>2, <2>3 DEF MayEndWith
    <3> QED
      BY <1>0, <1>1, <1>3, <2>1, <2>2, <2>3, <3>1, Ending
  <2>4. CASE is = "noVersion"
    <3>1. MayEndWith(read.op, read.ids, read.client, "Absent", <<>>, told')
      BY <1>1, <1>2, <2>2, <2>4 DEF MayEndWith
    <3> QED
      BY <1>0, <1>1, <1>3, <2>1, <2>2, <2>4, <3>1, Ending
  <2> QED
    BY <2>3, <2>4
<1> QED
  BY <1>4, <1>5

(* The one request of a read of one thing meets an error of the SDK.        *)
LEMMA OneThrows ==
  ASSUME ReadsInv, read.pc = "asking", read.op \in DOMAIN Read1, NEW thrown \in Thrown,
         Throws(1, thrown), UNCHANGED <<read, holding>>, told' \in Saying,
         \A o \in Object : told[o] \subseteq told'[o],
         thrown.class = "object" =>
           read.op \in ObjectReads1 /\ thrown.reason \in told'[Asked],
         absentVersion(MethodOf(read.op), thrown) =>
           read.op = "getObjectAtVersion" /\ "noVersion" \in told'[Asked]
  PROVE  ReadsInv'
<1>1. /\ IInv' /\ request[1].pc = "asked" /\ request'[1].method = request[1].method
      /\ request'[1].pc \in {"waiting", "done"} /\ request'[1].answer.tag # "ok"
      /\ request'[1].answer.tag = "Absent" => absentVersion(request[1].method, thrown)
      /\ request'[1].pc = "done" => request'[1].said = thrown
      /\ \A t \in Slot \ {1} : request'[t] = request[t]
  BY Requests, Throwing, OneSlot
<1>2. request[1].method = MethodOf(read.op) /\ read.asked \in Nat /\ read \in Reading
  BY <1>1, OneSlot DEF ReadsInv, OfTheRead, ReadsTyped, Reading
<1>3. read' = [read EXCEPT !.asked = read.asked]
  BY <1>2 DEF Reading
<1> QED
  BY <1>1, <1>2, <1>3, MovingOn, OneSlot

(* The transport says it of a version in its own way.                       *)
LEMMA VersionNotFound ==
  ASSUME ReadsInv, versionNotFound
  PROVE  ReadsInv'
<1>0. /\ read.pc = "asking" /\ read.op = "getObjectAtVersion" /\ UNCHANGED <<read, holding>>
      /\ told \in Saying
  BY DEF versionNotFound, asking1, ReadsInv, ReadsTyped, Saying
<1>1. read.op \in DOMAIN Read1
  BY <1>0, Kinds DEF NodeReads1
<1>2. Asked \in Object
  BY <1>0, <1>1, AskedIsOne
<1>3. told' \in Saying /\ "noVersion" \in told'[Asked] /\ \A p \in Object : told[p] \subseteq told'[p]
  <2>1. {"noVersion"} \in SUBSET (Is \cup {"version", "noVersion"})
    OBVIOUS
  <2>2. told' = [told EXCEPT ![Asked] = @ \cup {"noVersion"}]
    BY DEF versionNotFound
  <2> QED
    BY <1>0, <1>2, <2>1, <2>2, TellsMore
<1> DEFINE thrown == [class |-> "transport", cause |-> "NOT_FOUND"]
<1>4. thrown \in Thrown /\ thrown.class = "transport" /\ Throws(1, thrown)
  BY SdkThrows DEF versionNotFound
<1> HIDE DEF thrown
<1> QED
  BY <1>0, <1>1, <1>3, <1>4, OneThrows

(* The chain the node serves is the one that was asked for, or it is not.   *)
LEMMA ServiceInfo ==
  ASSUME ReadsInv, readServiceInfo
  PROVE  ReadsInv'
<1>0. /\ read.pc = "asking" /\ read.op = "getServiceInfo" /\ UNCHANGED <<told, holding>>
      /\ told \in Saying /\ request[1].pc = "asked" /\ read \in Reading
  BY DEF readServiceInfo, asking1, ReadsInv, ReadsTyped, Saying
<1>1. read.op \notin Batch \cup ObjectReads1 \cup DOMAIN Stream1
  BY <1>0, Kinds DEF NodeReads1, ObjectReads1
<1>2. CASE read.client = "grpc"
  <2>1. Finish("value", <<>>) /\ "value" \in Result /\ <<>> \in Seq(Item)
    BY <1>2 DEF readServiceInfo, Result
  <2>2. MayEndWith(read.op, read.ids, read.client, "value", <<>>, told')
    BY <1>0, <1>1 DEF MayEndWith
  <2> QED
    BY <1>0, <1>1, <2>1, <2>2, Ending
<1>3. CASE read.client # "grpc"
  <2> DEFINE error == Failure("TransportError", FALSE, "UNIMPLEMENTED")
  <2>1. /\ error \in Failures /\ error.tag \notin Absences /\ error.tag = "TransportError"
        /\ NoThrow.class # "object"
    BY DEF Failure, Failures, Statuses, Absences, NoThrow
  <2>2. Fails(1, error, NoThrow) /\ read' = read
    BY <1>3 DEF readServiceInfo
  <2> HIDE DEF error
  <2>3. Faithful(request[1].method, NoThrow, error)
    BY <2>1, NothingSaid
  <2>4. /\ IInv' /\ request'[1].method = request[1].method
        /\ request'[1].pc \in {"waiting", "done"} /\ request'[1].answer = error
        /\ request'[1].pc = "done" => request'[1].said = NoThrow
        /\ \A t \in Slot \ {1} : request'[t] = request[t]
    BY <1>0, <2>1, <2>2, <2>3, Requests, Failing, OneSlot
  <2>5. read.asked \in Nat /\ read' = [read EXCEPT !.asked = read.asked]
    BY <1>0, <2>2 DEF Reading
  <2> QED
    BY <1>0, <2>1, <2>4, <2>5, MovingOn, OneSlot
<1> QED
  BY <1>2, <1>3

(* What an object is, or the SDK's word that it is not there.               *)
LEMMA ObjectRead ==
  ASSUME ReadsInv, objectRead
  PROVE  ReadsInv'
<1>0. /\ read.pc = "asking" /\ read.op \in ObjectReads1 /\ holding' = holding
      /\ told \in Saying /\ request[1].pc = "asked"
  BY DEF objectRead, asking1, ReadsInv, ReadsTyped, Saying
<1>1. /\ read.op \in DOMAIN Read1 /\ read.op \notin Batch \cup DOMAIN Stream1
      /\ read.op # "getObjectAtVersion"
  BY <1>0, Kinds DEF ObjectReads1
<1>2. Asked \in Object
  BY <1>0, <1>1, AskedIsOne
<1>3. PICK is \in Is :
       /\ told' = [told EXCEPT ![Asked] = @ \cup {is}]
       /\ IF is \in Present
          THEN Finish(IF is = "live" THEN "value"
                      ELSE IF read.op = "chainTime" THEN "TransportError" ELSE "DecodeError",
                      <<>>)
          ELSE /\ Throws(1, [class |-> "object", ours |-> TRUE, reason |-> is])
               /\ UNCHANGED read
  BY DEF objectRead
<1>4. told' \in Saying /\ is \in told'[Asked] /\ \A p \in Object : told[p] \subseteq told'[p]
  <2>1. {is} \in SUBSET (Is \cup {"version", "noVersion"})
    OBVIOUS
  <2> QED
    BY <1>0, <1>2, <1>3, <2>1, TellsMore
<1>5. CASE is \in Present
  <2>1. PICK result \in {"value", "TransportError", "DecodeError"} : Finish(result, <<>>)
    BY <1>3, <1>5
  <2>2. result \in Result /\ <<>> \in Seq(Item)
    BY DEF Result
  <2>3. MayEndWith(read.op, read.ids, read.client, result, <<>>, told')
    BY <1>0, <1>1 DEF MayEndWith
  <2> QED
    BY <1>0, <1>1, <1>4, <2>1, <2>2, <2>3, Ending
<1>6. CASE is \notin Present
  <2> DEFINE thrown == [class |-> "object", ours |-> TRUE, reason |-> is]
  <2>1. is \in {"notFound", "deleted", "unknown"}
    BY <1>6 DEF Is, Present
  <2>2. thrown \in Thrown /\ thrown.class = "object" /\ thrown.reason = is
    BY <2>1, SdkThrows
  <2>3. Throws(1, thrown) /\ read' = read
    BY <1>3, <1>6
  <2> HIDE DEF thrown
  <2>4. ~absentVersion(MethodOf(read.op), thrown)
    BY <2>2 DEF absentVersion
  <2> QED
    BY <1>0, <1>1, <1>4, <2>2, <2>3, <2>4, OneThrows
<1> QED
  BY <1>5, <1>6

(* What else a node answers with.                                           *)
LEMMA AnswerRead ==
  ASSUME ReadsInv, answerRead
  PROVE  ReadsInv'
<1>0. /\ read.pc = "asking" /\ read.op \notin Batch /\ UNCHANGED <<told, holding>>
      /\ read.op \notin ObjectReads1 \cup NodeReads1 \cup DOMAIN Stream1 /\ told' \in Saying
  BY DEF answerRead, asking1, ReadsInv, ReadsTyped, Saying
<1>1. PICK answer \in Answer(read.op) : Finish(decoded(read.op, answer), <<>>)
  BY DEF answerRead
<1>2. decoded(read.op, answer) \in {"value", "NetworkMismatch", "none", "ExecutionFailed",
                                    "SimulationFailed", "DecodeError", "TransportError"}
  BY DEF decoded
<1>3. PICK result \in {"value", "NetworkMismatch", "none", "ExecutionFailed",
                       "SimulationFailed", "DecodeError", "TransportError"} :
        Finish(result, <<>>)
  BY <1>1, <1>2
<1>4. result \in Result /\ <<>> \in Seq(Item)
  BY DEF Result
<1>5. read.op # "getObjectAtVersion"
  BY <1>0 DEF NodeReads1
<1>6. MayEndWith(read.op, read.ids, read.client, result, <<>>, told')
  BY <1>0, <1>5 DEF MayEndWith
<1> QED
  BY <1>0, <1>3, <1>4, <1>6, Ending

(* A request that is done ended with a failure the node told of.            *)
LEMMA DoneTells ==
  ASSUME ReadsInv, NEW s \in Slot, request[s].pc = "done"
  PROVE  LET tag == request[s].answer.tag
         IN  /\ read.pc = "asking" /\ tag \in Result \ {"value", "none"}
             /\ tag \in {"ObjectNotFound", "ObjectDeleted"} /\ read.op \in ObjectReads1 =>
                  told[Asked] \cap {"notFound", "deleted"} # {}
             /\ tag = "Absent" => read.op = "getObjectAtVersion" /\ "noVersion" \in told[Asked]
<1> DEFINE tag == request[s].answer.tag
<1>1. /\ OfTheRead(s) /\ Good(request[s]) /\ request[s].answer \in Failures
  BY Requests DEF ReadsInv, Request
<1>2. tag \in Result \ {"value", "none"}
  <2>1. tag # "ok"
    BY <1>1 DEF OfTheRead
  <2>2. tag \in {"ok", "Absent", "defect", "TransportError", "ObjectNotFound", "ObjectDeleted",
                 "ObjectUnavailable", "TransactionNotFound", "SimulationFailed"}
    BY <1>1 DEF Failures
  <2> HIDE DEF tag
  <2> QED
    BY <2>1, <2>2 DEF Result
<1>3. ASSUME tag \in {"ObjectNotFound", "ObjectDeleted"}
      PROVE  told[Asked] \cap {"notFound", "deleted"} # {}
  <2>1. Faithful(request[s].method, request[s].said, request[s].answer)
    BY <1>1 DEF Good
  <2>2. Says(request[s].said, tag)
    BY <1>3, <2>1 DEF Faithful, Absences
  <2>3. request[s].said.class = "object" /\ request[s].said.reason \in {"notFound", "deleted"}
    BY <1>3, <2>2 DEF Says
  <2> QED
    BY <1>1, <2>3 DEF OfTheRead
<1> QED
  BY <1>1, <1>2, <1>3 DEF OfTheRead

(* A read of one thing ends with its failure, or with None for an absence.  *)
LEMMA ReadFails ==
  ASSUME ReadsInv, readFails
  PROVE  ReadsInv'
<1> DEFINE error == request[1].answer
<1>0. /\ read.pc = "asking" /\ read.op \notin Batch /\ UNCHANGED <<told, holding>>
      /\ told' \in Saying /\ request[1].pc = "done" /\ <<>> \in Seq(Item)
      /\ Finish(caught(read.op, error), <<>>)
  BY DEF readFails, asking1, ReadsInv, ReadsTyped, Saying
<1>1. /\ error.tag \in Result \ {"value", "none"}
      /\ error.tag \in {"ObjectNotFound", "ObjectDeleted"} /\ read.op \in ObjectReads1 =>
           told[Asked] \cap {"notFound", "deleted"} # {}
      /\ error.tag = "Absent" => read.op = "getObjectAtVersion" /\ "noVersion" \in told[Asked]
  BY <1>0, DoneTells, OneSlot
<1> HIDE DEF error
<1>2. caught(read.op, error) \in {"none", "TransportError", error.tag}
  BY DEF caught
<1>3. caught(read.op, error) = "none" /\ read.op \in ObjectReads1 =>
        error.tag \in {"ObjectNotFound", "ObjectDeleted"}
  <2>1. read.op \in ObjectReads1 =>
          read.op \notin {"resolveNameServiceAddressOption", "defaultNameServiceNameOption"}
    BY DEF ObjectReads1
  <2> QED
    BY <1>1, <2>1 DEF caught
<1>4. PICK result : /\ result = caught(read.op, error) /\ Finish(result, <<>>)
  BY <1>0
<1>5. result \in Result \ {"value"}
  BY <1>1, <1>2, <1>4 DEF Result
<1>6. MayEndWith(read.op, read.ids, read.client, result, <<>>, told')
  BY <1>0, <1>1, <1>2, <1>3, <1>4, <1>5 DEF MayEndWith, Asked
<1> QED
  BY <1>0, <1>4, <1>5, <1>6, Ending

(* The layer's one read is made again.                                      *)
LEMMA LayerAgain ==
  ASSUME ReadsInv, layerAgain
  PROVE  ReadsInv'
<1>0. /\ read.pc = "asking" /\ read.op = "layer" /\ UNCHANGED <<told, holding>>
      /\ told \in Saying /\ request[1].pc = "done" /\ read \in Reading
      /\ read.op \in DOMAIN Read1 /\ read.op \notin Batch /\ IInv
  BY Requests, Kinds DEF layerAgain, asking1, ReadsInv, ReadsTyped, Saying
<1>1. read.asked + 1 \in Nat /\ read' = [read EXCEPT !.asked = read.asked + 1]
  BY <1>0 DEF Reading, layerAgain
<1> DEFINE again == [Idle EXCEPT !.method = "getChainIdentifier", !.pc = "asked", !.attempt = 1]
<1>2. again \in Request /\ Good(again) /\ again.pc = "asked" /\ again.method = "getChainIdentifier"
  BY LimitPositive
     DEF Request, Idle, Answered, Failure, Failures, Pc, Method, PlainReads, ChainReads,
         Good, Sends, MayPass
<1>3. request' = [request EXCEPT ![1] = again]
  BY DEF layerAgain
<1> HIDE DEF again
<1>4. request[1].method = "getChainIdentifier"
  <2>1. request[1].method = MethodOf(read.op)
    BY <1>0, OneSlot DEF ReadsInv, OfTheRead
  <2> QED
    BY <1>0, <2>1, Kinds
<1>5. IInv' /\ request'[1] = again /\ \A t \in Slot \ {1} : request'[t] = request[t]
  BY <1>0, <1>2, <1>3, OneSlot DEF IInv, Typed
<1> QED
  BY <1>0, <1>1, <1>2, <1>4, <1>5, MovingOn, OneSlot

(* A chunk that fails fails the read.                                       *)
LEMMA ChunkFails ==
  ASSUME ReadsInv, NEW s \in Slot, chunkFailed(s)
  PROVE  ReadsInv'
<1> DEFINE tag == request[s].answer.tag
<1>0. /\ read.pc = "asking" /\ read.op \in Batch /\ UNCHANGED <<told, holding>>
      /\ told' \in Saying /\ request[s].pc = "done" /\ Finish(tag, <<>>) /\ <<>> \in Seq(Item)
  BY DEF chunkFailed, ReadsInv, ReadsTyped, Saying
<1>1. read.op # "getObjectAtVersion"
  BY <1>0 DEF Batch
<1>2. tag \in Result \ {"value", "none"} /\ tag # "Absent"
  BY <1>0, <1>1, DoneTells
<1> HIDE DEF tag
<1>3. MayEndWith(read.op, read.ids, read.client, tag, <<>>, told')
  BY <1>2, FailuresTell
<1> QED
  BY <1>0, <1>2, <1>3, Ending

(* The next chunk is asked for.                                             *)
LEMMA AsksChunk ==
  ASSUME ReadsInv, NEW s \in Slot, askChunk(s)
  PROVE  ReadsInv'
<1>0. /\ read.pc = "asking" /\ read.op \in Batch /\ UNCHANGED <<told, holding>>
      /\ read.asked < Len(chunksOf(read.ids)) /\ Ask(s, "getObjects")
      /\ read \in Reading /\ read.ids \in Seq(Spelling) /\ read.asked \in Nat
      /\ ReadsTyped /\ read.at \in [Slot -> Nat]
  BY DEF askChunk, ReadsInv, ReadsTyped, Reading
<1>1. /\ IInv' /\ request[s].pc = "idle"
      /\ request'[s] = [method |-> "getObjects", pc |-> "asked", attempt |-> 1,
                        said |-> NoThrow, answer |-> Answered]
      /\ \A t \in Slot \ {s} : request'[t] = request[t]
  BY <1>0, Requests, Asking, Kinds
<1>2. read' = [read EXCEPT !.asked = read.asked + 1, !.at[s] = read.asked + 1]
  BY DEF askChunk
<1>3. /\ read' \in Reading /\ read'.pc = "asking" /\ read'.op = read.op /\ read'.ids = read.ids
      /\ read'.asked = read.asked + 1 /\ read'.at = [read.at EXCEPT ![s] = read.asked + 1]
      /\ read'.answers = read.answers
  <2> DEFINE a == read.asked + 1
             b == [read.at EXCEPT ![s] = a]
  <2>1. a \in Nat /\ b \in [Slot -> Nat]
    BY <1>0
  <2>2. read' = [read EXCEPT !.asked = a, !.at = b]
    BY <1>0, <1>2 DEF Reading
  <2> HIDE DEF a, b
  <2>3. /\ read' \in Reading /\ read'.pc = "asking" /\ read'.op = read.op
        /\ read'.ids = read.ids /\ read'.asked = a /\ read'.at = b
        /\ read'.answers = read.answers
    BY <1>0, <2>1, <2>2 DEF Reading
  <2> QED
    BY <2>3 DEF a, b
<1>4. Len(chunksOf(read.ids)) \in Nat
  BY <1>0, Chunks
<1>5. ReadsTyped' /\ \A t \in Slot : Good(request'[t])
  BY <1>0, <1>1, <1>3 DEF ReadsTyped, IInv
<1>6. \A c \in 1..read'.asked : c \in 1..read.asked \/ c = read.asked + 1
  BY <1>0, <1>3
<1>7. /\ 1..read.asked \subseteq 1..read'.asked /\ read.asked + 1 \in 1..read'.asked
      /\ read'.asked <= Len(chunksOf(read.ids))
  BY <1>0, <1>3, <1>4
<1>8. read'.at[s] = read.asked + 1 /\ \A t \in Slot \ {s} : read'.at[t] = read.at[t]
  BY <1>0, <1>3
<1>9. ASSUME NEW t \in Slot PROVE OfTheRead(t)'
  <2>1. CASE t = s
    BY <1>0, <1>1, <1>3, <1>7, <1>8, <2>1, Kinds DEF OfTheRead
  <2>2. CASE t # s
    <3>1. OfTheRead(t) /\ request'[t] = request[t] /\ read'.at[t] = read.at[t]
      BY <1>1, <1>8, <2>2 DEF ReadsInv
    <3>2. Asked' = Asked
      BY <1>3 DEF Asked
    <3> QED
      BY <1>0, <1>3, <1>7, <3>1, <3>2 DEF OfTheRead
  <2> QED
    BY <2>1, <2>2
<1>10. BatchKept'
  <2>1. /\ \A item \in read.answers : item.is \in told[item.about]
        /\ \A c \in 1..read.asked :
             \/ AnsweredOf(chunksOf(read.ids)[c], read.answers)
             \/ \E t \in Slot : request[t].pc # "idle" /\ read.at[t] = c
    BY <1>0 DEF ReadsInv, BatchKept
  <2>2. ASSUME NEW c \in 1..read'.asked
        PROVE  \/ AnsweredOf(chunksOf(read.ids)[c], read.answers)
               \/ \E t \in Slot : request'[t].pc # "idle" /\ read'.at[t] = c
    <3>1. CASE c = read.asked + 1
      BY <1>1, <1>8, <3>1
    <3>2. CASE c \in 1..read.asked
      <4>1. CASE AnsweredOf(chunksOf(read.ids)[c], read.answers)
        BY <4>1
      <4>2. CASE \E t \in Slot : request[t].pc # "idle" /\ read.at[t] = c
        <5>1. PICK t \in Slot : request[t].pc # "idle" /\ read.at[t] = c
          BY <4>2
        <5>2. t # s
          BY <1>1, <5>1
        <5> QED
          BY <1>1, <1>8, <5>1, <5>2
      <4> QED
        BY <2>1, <3>2, <4>1, <4>2
    <3> QED
      BY <1>6, <3>1, <3>2
  <2> QED
    BY <1>0, <1>3, <1>7, <2>1, <2>2 DEF BatchKept
<1>11. OneIsAsked' /\ StreamKept' /\ EachIdItsOwnAnswer' /\ NoneIsAnAnswer'
  BY <1>0, <1>3, Kinds DEF OneIsAsked, StreamKept, EachIdItsOwnAnswer, NoneIsAnAnswer
<1> QED
  BY <1>5, <1>9, <1>10, <1>11 DEF ReadsInv

(* What a node answers for a page, of as many entries as were asked, is an  *)
(* entry for each place.                                                    *)
LEMMA PageOf ==
  ASSUME NEW page \in Seq(Spelling), Len(page) >= 1, NEW items \in Pages(page)
  PROVE  /\ \A i \in DOMAIN items : items[i].is \in Is
         /\ Len(items) = Len(page) => DOMAIN items = 1..Len(page)
<1> DEFINE Of(objects) == {[i \in DOMAIN page |-> [about |-> objects[i], is |-> is[i]]] :
                             is \in [DOMAIN page -> Is]}
           exact == [i \in DOMAIN page |-> keyOf[page[i]]]
<1>1. DOMAIN page = 1..Len(page) /\ Len(page) \in Nat
  OBVIOUS
<1>2. ASSUME NEW objects, NEW q \in Of(objects)
      PROVE  /\ DOMAIN q = 1..Len(page) /\ (\A i \in 1..Len(page) : q[i].is \in Is)
             /\ q \in Seq({q[i] : i \in 1..Len(page)}) /\ Len(q) = Len(page)
  <2>1. PICK is \in [DOMAIN page -> Is] :
          q = [i \in DOMAIN page |-> [about |-> objects[i], is |-> is[i]]]
    BY <1>2
  <2>2. DOMAIN q = 1..Len(page) /\ (\A i \in 1..Len(page) : q[i].is \in Is)
    BY <1>1, <2>1
  <2>3. q = [i \in 1..Len(page) |-> q[i]]
    BY <1>1, <2>1
  <2>4. q \in [1..Len(page) -> {q[i] : i \in 1..Len(page)}]
    BY <2>3
  <2> DEFINE Q == {q[i] : i \in 1..Len(page)}
  <2> HIDE DEF Q, Of
  <2>5. q \in [1..Len(page) -> Q]
    BY <2>4 DEF Q
  <2>6. q \in Seq(Q) /\ Len(q) = Len(page)
    BY <1>1, <2>5
  <2> QED
    BY <2>2, <2>6 DEF Q
<1>3. items \in Of(exact) \cup Of(Reverse(exact)) \cup Of([exact EXCEPT ![1] = Missing])
        \cup {Tail(q) : q \in Of(exact)}
  BY DEF Pages
<1> HIDE DEF Of, exact
<1>4. ASSUME NEW q \in Of(exact)
      PROVE  Len(Tail(q)) # Len(page) /\ \A i \in DOMAIN Tail(q) : Tail(q)[i].is \in Is
  <2> DEFINE Q == {q[i] : i \in 1..Len(page)}
  <2>1. q \in Seq(Q) /\ Len(q) = Len(page) /\ \A e \in Q : e.is \in Is
    BY <1>2
  <2> HIDE DEF Q
  <2>2. q # <<>>
    BY <2>1
  <2>3. Len(Tail(q)) = Len(q) - 1 /\ Tail(q) \in Seq(Q)
    BY <2>1, <2>2
  <2>4. \A i \in DOMAIN Tail(q) : Tail(q)[i] \in Q
    BY <2>3
  <2> DEFINE n == Len(Tail(q))
             m == Len(page)
  <2>5. m \in Nat /\ n = m - 1
    BY <1>1, <2>1, <2>3
  <2> HIDE DEF n, m
  <2>6. n # m
    BY <2>5
  <2> QED
    BY <2>1, <2>4, <2>6 DEF n, m
<1> QED
  BY <1>2, <1>3, <1>4

(* A chunk is answered: each of its places, with what was told of it; or an *)
(* entry does not line up, and the read is over.                            *)
LEMMA ChunkReads ==
  ASSUME ReadsInv, NEW s \in Slot, chunkRead(s)
  PROVE  ReadsInv'
<1> DEFINE chunks == chunksOf(read.ids)
           page == chunks[read.at[s]]
<1>0. /\ read.pc = "asking" /\ read.op \in Batch /\ holding' = holding
      /\ request[s].pc = "asked" /\ read \in Reading /\ read.ids \in Seq(Spelling)
      /\ read.asked \in Nat /\ read.at \in [Slot -> Nat] /\ read.answers \subseteq Item
      /\ told \in Saying /\ ReadsTyped /\ BatchKept /\ IInv /\ OfTheRead(s)
  BY Requests DEF chunkRead, ReadsInv, ReadsTyped, Reading, Saying
<1>1. PICK items \in Pages(page) :
       /\ told' = [o \in Object |-> told[o] \cup
                     {items[i].is : i \in {j \in DOMAIN items : SaidOf(page, items, j) = o}}]
       /\ IF answersPage(page, items)
          THEN /\ Release(s)
               /\ read' = [read EXCEPT !.at[s] = 0,
                                       !.answers = @ \cup entriesOf(page, items)]
          ELSE Finish("TransportError", <<>>)
  <2>1. PICK p \in {chunksOf(read.ids)[read.at[s]]} : \E items \in Pages(p) :
       /\ told' = [o \in Object |-> told[o] \cup
                     {items[i].is : i \in {j \in DOMAIN items : SaidOf(p, items, j) = o}}]
       /\ IF answersPage(p, items)
          THEN /\ Release(s)
               /\ read' = [read EXCEPT !.at[s] = 0,
                                       !.answers = @ \cup entriesOf(p, items)]
          ELSE Finish("TransportError", <<>>)
    BY DEF chunkRead
  <2>2. p = page
    OBVIOUS
  <2> QED
    BY <2>1, <2>2
<1>2. /\ read.asked <= Len(chunks) /\ Len(chunks) \in Nat
      /\ \A item \in read.answers : item.is \in told[item.about]
      /\ \A c \in 1..read.asked :
           \/ AnsweredOf(chunks[c], read.answers)
           \/ \E t \in Slot : request[t].pc # "idle" /\ read.at[t] = c
  BY <1>0, Chunks DEF BatchKept
<1>3. /\ read.at[s] \in 1..read.asked /\ read.at[s] \in 1..Len(chunks)
      /\ page \in Seq(Spelling) /\ Len(page) >= 1 /\ DOMAIN page = 1..Len(page)
  <2>1. read.at[s] \in 1..read.asked
    BY <1>0 DEF OfTheRead
  <2>2. read.at[s] \in 1..Len(chunks)
    BY <1>0, <1>2, <2>1
  <2>3. \A c \in 1..Len(chunks) : chunks[c] \in Seq(Spelling) /\ Len(chunks[c]) >= 1
    BY <1>0, Chunks
  <2>4. page \in Seq(Spelling) /\ Len(page) >= 1
    BY <2>2, <2>3
  <2> HIDE DEF page
  <2> QED
    BY <2>1, <2>2, <2>4
<1> HIDE DEF page, chunks
<1>4. \A i \in 1..Len(page) : page[i] \in Spelling /\ keyOf[page[i]] \in Object
  BY <1>3 DEF Object
<1>5. DOMAIN told' = Object /\ \A o \in Object : told[o] \subseteq told'[o]
  BY <1>1
<1>6. CASE ~answersPage(page, items)
  <2>1. Finish("TransportError", <<>>) /\ "TransportError" \in Result /\ <<>> \in Seq(Item)
    BY <1>1, <1>6 DEF Result
  <2>2. told' \in Saying
    <3>1. \A i \in DOMAIN items : items[i].is \in Is
      BY <1>3, PageOf
    <3> QED
      BY <1>0, <1>1, <3>1 DEF Saying
  <2>3. MayEndWith(read.op, read.ids, read.client, "TransportError", <<>>, told')
    BY FailuresTell
  <2> QED
    BY <1>0, <2>1, <2>2, <2>3, Ending
<1>7. CASE answersPage(page, items)
  <2>1. /\ DOMAIN items = 1..Len(page) /\ \A i \in 1..Len(page) : items[i].is \in Is
        /\ \A i \in 1..Len(page) : items[i].is \in Present => items[i].about = keyOf[page[i]]
    BY <1>3, <1>7, PageOf DEF answersPage
  <2>2. told' \in Saying
    BY <1>0, <1>1, <2>1 DEF Saying
  <2>3. \A i \in 1..Len(page) : items[i].is \in told'[keyOf[page[i]]]
    <3>1. \A i \in 1..Len(page) : SaidOf(page, items, i) = keyOf[page[i]]
      BY <2>1 DEF SaidOf
    <3> QED
      BY <1>1, <1>4, <2>1, <3>1
  <2> DEFINE more == entriesOf(page, items)
             a == [read.at EXCEPT ![s] = 0]
             b == read.answers \cup more
  <2>4. /\ more \subseteq Item /\ AnsweredOf(page, more)
        /\ \A item \in more : item.is \in told'[item.about]
    <3>1. more = {[about |-> keyOf[page[i]], is |-> items[i].is] : i \in 1..Len(page)}
      BY <1>3 DEF entriesOf
    <3> HIDE DEF more
    <3>2. more \subseteq Item
      BY <1>4, <2>1, <3>1 DEF Item
    <3>3. AnsweredOf(page, more)
      <4>1. ASSUME NEW k \in 1..Len(page)
            PROVE  \E item \in more : item.about = keyOf[page[k]]
        <5>1. [about |-> keyOf[page[k]], is |-> items[k].is] \in more
          BY <3>1
        <5> QED
          BY <5>1
      <4> QED
        BY <4>1 DEF AnsweredOf
    <3>4. \A item \in more : item.is \in told'[item.about]
      BY <2>3, <3>1
    <3> QED
      BY <3>2, <3>3, <3>4
  <2>5. a \in [Slot -> Nat] /\ b \subseteq Item
    BY <1>0, <2>4
  <2>6. read' = [read EXCEPT !.at = a, !.answers = b]
    BY <1>0, <1>1, <1>7 DEF Reading
  <2>7. \A t \in Slot \ {s} : a[t] = read.at[t]
    BY <1>0
  <2> HIDE DEF a
  <2>8. \A item \in b : item.is \in told'[item.about]
    <3>1. \A item \in read.answers : item.is \in told[item.about] /\ item.about \in Object
      BY <1>0, <1>2 DEF Item
    <3> QED
      BY <1>5, <2>4, <3>1
  <2>9. read.answers \subseteq b /\ more \subseteq b
    OBVIOUS
  <2> HIDE DEF b, more
  <2>10. /\ read' \in Reading /\ read'.pc = "asking" /\ read'.op = read.op
         /\ read'.ids = read.ids /\ read'.asked = read.asked /\ read'.at = a
         /\ read'.answers = b
    BY <1>0, <2>5, <2>6 DEF Reading
  <2>11. IInv' /\ request' = [request EXCEPT ![s] = Idle]
    BY <1>0, <1>1, <1>7, LettingGo
  <2>12. request'[s].pc = "idle" /\ \A t \in Slot \ {s} : request'[t] = request[t]
    BY <1>0, <2>11 DEF IInv, Typed, Idle
  <2>13. ReadsTyped' /\ \A t \in Slot : Good(request'[t])
    BY <1>0, <2>2, <2>10, <2>11 DEF ReadsTyped, IInv, Saying
  <2>14. ASSUME NEW t \in Slot PROVE OfTheRead(t)'
    <3>1. CASE t = s
      BY <2>12, <3>1 DEF OfTheRead
    <3>2. CASE t # s
      <4>1. OfTheRead(t) /\ request'[t] = request[t] /\ a[t] = read.at[t]
        BY <2>7, <2>12, <3>2 DEF ReadsInv
      <4>2. read.op \notin ObjectReads1 /\ read.op # "getObjectAtVersion"
        BY <1>0 DEF Batch, ObjectReads1
      <4> QED
        BY <1>0, <2>10, <4>1, <4>2 DEF OfTheRead
    <3> QED
      BY <3>1, <3>2
  <2>15. BatchKept'
    <3>1. ASSUME NEW c \in 1..read.asked
          PROVE  \/ AnsweredOf(chunks[c], b)
                 \/ \E t \in Slot : request'[t].pc # "idle" /\ a[t] = c
      <4>1. CASE AnsweredOf(chunks[c], read.answers)
        BY <2>9, <4>1 DEF AnsweredOf
      <4>2. ASSUME NEW t \in Slot, request[t].pc # "idle", read.at[t] = c
            PROVE  \/ AnsweredOf(chunks[c], b)
                   \/ \E u \in Slot : request'[u].pc # "idle" /\ a[u] = c
        <5>1. CASE t = s
          <6>1. chunks[c] = page
            BY <4>2, <5>1 DEF page
          <6> QED
            BY <2>4, <2>9, <6>1 DEF AnsweredOf
        <5>2. CASE t # s
          BY <2>7, <2>12, <4>2, <5>2
        <5> QED
          BY <5>1, <5>2
      <4> QED
        BY <1>2, <4>1, <4>2
    <3> QED
      BY <1>2, <2>8, <2>10, <3>1 DEF BatchKept, chunks
  <2>16. OneIsAsked' /\ StreamKept' /\ EachIdItsOwnAnswer' /\ NoneIsAnAnswer'
    BY <1>0, <2>10, Kinds DEF OneIsAsked, StreamKept, EachIdItsOwnAnswer, NoneIsAnAnswer
  <2> QED
    BY <2>13, <2>14, <2>15, <2>16 DEF ReadsInv
<1> QED
  BY <1>6, <1>7

(* All chunks are in: every object that was asked for has an answer.        *)
LEMMA AllAnswered ==
  ASSUME ReadsInv, read.pc = "asking", read.op \in Batch,
         read.asked = Len(chunksOf(read.ids)), \A s \in Slot : request[s].pc = "idle"
  PROVE  \A i \in 1..Len(read.ids) : \E item \in read.answers :
           item.about = keyOf[read.ids[i]]
<1> DEFINE chunks == chunksOf(read.ids)
<1>1. /\ read.ids \in Seq(Spelling)
      /\ \A c \in 1..Len(chunks) : AnsweredOf(chunks[c], read.answers)
  BY DEF ReadsInv, ReadsTyped, Reading, BatchKept
<1>2. ASSUME NEW i \in 1..Len(read.ids)
      PROVE  \E item \in read.answers : item.about = keyOf[read.ids[i]]
  <2>1. PICK c \in 1..Len(chunks) :
          \E k \in 1..Len(chunks[c]) : keyOf[chunks[c][k]] = keyOf[read.ids[i]]
    BY <1>1, Chunks
  <2> QED
    BY <1>1, <2>1 DEF AnsweredOf
<1> QED
  BY <1>2

(* A batch ends: by id, in the order asked; the strict one with a failure   *)
(* when there is one.                                                       *)
LEMMA BatchReads ==
  ASSUME ReadsInv, batchRead
  PROVE  ReadsInv'
<1> DEFINE Pick(o) == CHOOSE item \in read.answers : item.about = o
           results == [i \in DOMAIN read.ids |-> Pick(keyOf[read.ids[i]])]
           failed == {i \in DOMAIN results : results[i].is # "live"}
           n == Len(read.ids)
           first == CHOOSE i \in failed : \A j \in failed : i <= j
<1>0. /\ read.pc = "asking" /\ read.op \in Batch /\ UNCHANGED <<told, holding>>
      /\ read.asked = Len(chunksOf(read.ids)) /\ (\A s \in Slot : request[s].pc = "idle")
      /\ IF read.op = "getObjects" \/ failed = {} THEN Finish("value", results)
         ELSE Finish(failureOf(results[first].is), <<>>)
  BY DEF batchRead
<1>1. /\ told \in Saying /\ read.ids \in Seq(Spelling) /\ read.answers \subseteq Item
      /\ \A item \in read.answers : item.is \in told[item.about]
  BY <1>0 DEF ReadsInv, ReadsTyped, Saying, Reading, BatchKept
<1>2. n \in Nat /\ DOMAIN read.ids = 1..n
  BY <1>1
<1>3. \A i \in 1..n : \E item \in read.answers : item.about = keyOf[read.ids[i]]
  BY <1>0, AllAnswered
<1>4. \A i \in 1..n : Pick(keyOf[read.ids[i]]) \in read.answers
                      /\ Pick(keyOf[read.ids[i]]).about = keyOf[read.ids[i]]
  BY <1>3
<1> HIDE DEF Pick
<1>5. DOMAIN results = 1..n /\ \A i \in 1..n : results[i] = Pick(keyOf[read.ids[i]])
  BY <1>2
<1>6. results \in Seq(Item) /\ Len(results) = n
  <2>1. results \in [1..n -> Item]
    BY <1>1, <1>2, <1>4, <1>5
  <2> HIDE DEF results
  <2> QED
    BY <1>2, <2>1
<1> HIDE DEF results, first
<1>7. /\ "value" \in Result /\ <<>> \in Seq(Item) /\ told' \in Saying /\ holding' = holding
      /\ read.op \notin DOMAIN Stream1 /\ read.op \notin ObjectReads1
      /\ read.op # "getObjectAtVersion"
  BY <1>0, <1>1, Kinds DEF Result, Batch, ObjectReads1
<1>8. CASE read.op = "getObjects" \/ failed = {}
  <2>1. \A i \in 1..n :
          /\ results[i].about = keyOf[read.ids[i]]
          /\ results[i].is \in told'[keyOf[read.ids[i]]]
    BY <1>0, <1>1, <1>4, <1>5
  <2>2. \A i \in 1..n : read.op = "getObjectsStrict" => results[i].is = "live"
    BY <1>5, <1>8
  <2>3. ASSUME NEW o \in Object
        PROVE  Cardinality({r \in ToSet(results) : r.about = o}) <= 1
    <3> DEFINE S == {r \in ToSet(results) : r.about = o}
    <3>1. \A r \in S : r = Pick(o)
      <4>1. \A r \in ToSet(results) : \E i \in 1..n : r = results[i]
        BY <1>5 DEF ToSet
      <4> QED
        BY <1>5, <2>1, <4>1
    <3>2. S = {} \/ S = {Pick(o)}
      BY <3>1
    <3> HIDE DEF S
    <3>3. Cardinality({}) = 0 /\ Cardinality({Pick(o)}) = 1
      BY FS_EmptySet, FS_Singleton
    <3>4. Cardinality(S) <= 1
      BY <3>2, <3>3
    <3> QED
      BY <3>4 DEF S
  <2>4. Batched(read.op, read.ids, results, told')
    BY <1>2, <1>6, <2>1, <2>2, <2>3 DEF Batched
  <2>5. MayEndWith(read.op, read.ids, read.client, "value", results, told')
    BY <1>7, <2>4 DEF MayEndWith
  <2>6. Finish("value", results)
    BY <1>0, <1>8
  <2> QED
    BY <1>0, <1>6, <1>7, <2>5, <2>6, Ending
<1>9. CASE ~(read.op = "getObjects" \/ failed = {})
  <2>1. failed \subseteq Nat /\ failed # {}
    BY <1>2, <1>5, <1>9
  <2>2. first \in failed
    <3>1. \E i \in failed : \A j \in failed : i <= j
      BY <2>1, Least
    <3> QED
      BY <3>1 DEF first
  <2>3. results[first].is \in Is /\ results[first].is # "live"
    BY <1>1, <1>4, <1>5, <2>2 DEF Item
  <2> DEFINE result == failureOf(results[first].is)
  <2>4. result \in Result \ {"value", "none", "Absent"}
    <3>1. \A is \in Is : is # "live" => failureOf(is) \in Result \ {"value", "none", "Absent"}
      BY DEF failureOf, Is, Result
    <3> QED
      BY <2>3, <3>1
  <2>5. Finish(result, <<>>)
    BY <1>0, <1>9
  <2> HIDE DEF result
  <2>6. MayEndWith(read.op, read.ids, read.client, result, <<>>, told')
    BY <2>4, FailuresTell
  <2> QED
    BY <1>0, <1>7, <2>4, <2>5, <2>6, Ending
<1> QED
  BY <1>8, <1>9

(* Something comes or goes while a stream is read.                          *)
LEMMA Moves ==
  ASSUME ReadsInv, NEW i \in 1..MaxHeld, moves(i)
  PROVE  ReadsInv'
<1>0. /\ read.pc = "asking" /\ read.op \in DOMAIN Stream1 /\ UNCHANGED <<read, told, request>>
      /\ holding \in Held /\ holding.since \subseteq holding.held
      /\ holding.held \subseteq holding.ever
      /\ holding' = [held |-> IF i \in holding.held THEN holding.held \ {i}
                              ELSE holding.held \cup {i},
                     since |-> holding.since \ {i}, ever |-> holding.ever \cup {i}]
  BY DEF moves, Streaming, ReadsInv, ReadsTyped
<1>1. /\ holding'.since \subseteq holding.since /\ holding.ever \subseteq holding'.ever
      /\ holding'.since \subseteq holding'.held /\ holding'.held \subseteq holding'.ever
      /\ holding' \in Held
  <2>1. /\ holding.held \subseteq 1..MaxHeld /\ holding.since \subseteq 1..MaxHeld
        /\ holding.ever \subseteq 1..MaxHeld
    BY <1>0 DEF Held
  <2>2. PICK h : /\ h = (IF i \in holding.held THEN holding.held \ {i}
                         ELSE holding.held \cup {i})
    OBVIOUS
  <2>3. /\ h \subseteq 1..MaxHeld /\ holding.since \ {i} \subseteq h
        /\ h \subseteq holding.ever \cup {i}
    BY <1>0, <2>1, <2>2
  <2>4. holding' = [held |-> h, since |-> holding.since \ {i}, ever |-> holding.ever \cup {i}]
    BY <1>0, <2>2
  <2> QED
    BY <2>1, <2>3, <2>4 DEF Held
<1>2. ReadsTyped' /\ \A s \in Slot : Good(request'[s])
  BY <1>0, <1>1 DEF ReadsInv, ReadsTyped, Typed
<1>3. \A s \in Slot : OfTheRead(s)'
  BY <1>0 DEF ReadsInv, OfTheRead, Asked
<1>4. BatchKept' /\ OneIsAsked'
  BY <1>0, Kinds DEF ReadsInv, BatchKept, OneIsAsked
<1>5. StreamKept'
  <2>1. StreamKept
    BY DEF ReadsInv
  <2> QED
    BY <1>0, <1>1, <2>1 DEF StreamKept
<1>6. EachIdItsOwnAnswer' /\ NoneIsAnAnswer'
  BY <1>0 DEF EachIdItsOwnAnswer, NoneIsAnAnswer
<1> QED
  BY <1>2, <1>3, <1>4, <1>5, <1>6 DEF ReadsInv

(* The next page of a stream is asked for.                                  *)
LEMMA AsksPage ==
  ASSUME ReadsInv, askPage
  PROVE  ReadsInv'
<1>0. /\ read.pc = "asking" /\ read.op \in DOMAIN Stream1 /\ UNCHANGED <<read, told, holding>>
      /\ request[1].pc = "idle" /\ Ask(1, Stream1[read.op]) /\ read.op \notin Batch
      /\ Stream1[read.op] \in Method /\ MethodOf(read.op) = Stream1[read.op]
  BY Kinds DEF askPage, Streaming
<1>1. /\ IInv'
      /\ request'[1] = [method |-> Stream1[read.op], pc |-> "asked", attempt |-> 1,
                        said |-> NoThrow, answer |-> Answered]
      /\ \A t \in Slot \ {1} : request'[t] = request[t]
  BY <1>0, Requests, Asking, OneSlot
<1>2. ReadsTyped' /\ \A s \in Slot : Good(request'[s])
  BY <1>0, <1>1 DEF ReadsInv, ReadsTyped, IInv
<1>3. \A s \in Slot : OfTheRead(s)'
  <2>1. \A t \in Slot \ {1} : request'[t].pc = "idle"
    BY <1>0, <1>1 DEF ReadsInv, OfTheRead
  <2>2. /\ request'[1].pc = "asked" /\ request'[1].method = MethodOf(read.op)
    BY <1>0, <1>1
  <2> QED
    BY <1>0, <2>1, <2>2 DEF OfTheRead
<1>4. BatchKept' /\ OneIsAsked' /\ StreamKept' /\ EachIdItsOwnAnswer' /\ NoneIsAnAnswer'
  BY <1>0 DEF ReadsInv, BatchKept, OneIsAsked, StreamKept, EachIdItsOwnAnswer, NoneIsAnAnswer
<1> QED
  BY <1>2, <1>3, <1>4 DEF ReadsInv

(* Two lists in a row.                                                      *)
LEMMA Joined ==
  ASSUME NEW A, NEW q \in Seq(A), NEW r \in Seq(A)
  PROVE  /\ q \o r \in Seq(A) /\ Len(q \o r) = Len(q) + Len(r)
         /\ Len(q) \in Nat /\ Len(r) \in Nat
         /\ \A i \in 1..(Len(q) + Len(r)) :
              (q \o r)[i] = IF i <= Len(q) THEN q[i] ELSE r[i - Len(q)]
OBVIOUS

(* What lies up to one place, followed by what lies from there to the next, *)
(* in order.                                                                *)
LEMMA Follows ==
  ASSUME NEW N \in Nat, NEW q \in Seq(1..N), NEW r \in Seq(1..N),
         NEW a \in 0..N, NEW b \in (a + 1)..N,
         \A i, j \in 1..Len(q) : i < j => q[i] < q[j],
         \A i, j \in 1..Len(r) : i < j => r[i] < r[j],
         \A i \in 1..Len(q) : q[i] <= a,
         \A i \in 1..Len(r) : a + 1 <= r[i] /\ r[i] <= b
  PROVE  LET t == q \o r
         IN  /\ t \in Seq(1..N)
             /\ \A i, j \in 1..Len(t) : i < j => t[i] < t[j]
             /\ \A i \in 1..Len(t) : t[i] <= b
             /\ \A i \in 1..Len(t) :
                  (\E j \in 1..Len(q) : t[i] = q[j]) \/ \E j \in 1..Len(r) : t[i] = r[j]
             /\ \A j \in 1..Len(q) : \E i \in 1..Len(t) : t[i] = q[j]
             /\ \A j \in 1..Len(r) : \E i \in 1..Len(t) : t[i] = r[j]
<1> DEFINE t == q \o r
           m == Len(q)
           n == Len(r)
<1>1. /\ t \in Seq(1..N) /\ Len(t) = m + n /\ m \in Nat /\ n \in Nat
      /\ \A i \in 1..(m + n) : t[i] = IF i <= m THEN q[i] ELSE r[i - m]
  BY Joined
<1>2. /\ \A i \in 1..m : q[i] \in Nat /\ q[i] <= a
      /\ \A i \in 1..n : r[i] \in Nat /\ a + 1 <= r[i] /\ r[i] <= b
      /\ a \in Nat /\ b \in Nat /\ a < b
  <2>1. \A i \in 1..m : q[i] \in 1..N
    OBVIOUS
  <2>2. \A i \in 1..n : r[i] \in 1..N
    OBVIOUS
  <2> QED
    BY <2>1, <2>2
<1>3. /\ \A i, j \in 1..m : i < j => q[i] < q[j]
      /\ \A i, j \in 1..n : i < j => r[i] < r[j]
  OBVIOUS
<1> HIDE DEF t, m, n
<1>4. ASSUME NEW i \in 1..(m + n)
      PROVE  \/ i \in 1..m /\ t[i] = q[i]
             \/ i - m \in 1..n /\ ~ (i <= m) /\ t[i] = r[i - m]
  BY <1>1
<1>5. \A j \in 1..m : j \in 1..(m + n) /\ t[j] = q[j]
  BY <1>1
<1>6. \A j \in 1..n : m + j \in 1..(m + n) /\ t[m + j] = r[j]
  BY <1>1
<1>7. ASSUME NEW i \in 1..(m + n), NEW j \in 1..(m + n), i < j
      PROVE  t[i] < t[j]
  <2>1. CASE i \in 1..m /\ j \in 1..m
    BY <1>3, <1>5, <1>7, <2>1
  <2>2. CASE i \in 1..m /\ ~ (j <= m)
    <3>1. j - m \in 1..n /\ t[j] = r[j - m] /\ t[i] = q[i]
      BY <1>4, <1>5, <2>2
    <3> QED
      BY <1>2, <2>2, <3>1
  <2>3. CASE ~ (i <= m) /\ ~ (j <= m)
    <3>1. /\ j - m \in 1..n /\ t[j] = r[j - m] /\ i - m \in 1..n /\ t[i] = r[i - m]
      BY <1>4, <2>3
    <3>2. i - m < j - m
      BY <1>1, <1>7
    <3> QED
      BY <1>3, <3>1, <3>2
  <2> QED
    BY <1>1, <1>7, <2>1, <2>2, <2>3
<1>8. ASSUME NEW i \in 1..(m + n)
      PROVE  t[i] <= b
  <2>1. CASE i \in 1..m /\ t[i] = q[i]
    BY <1>2, <2>1
  <2>2. CASE i - m \in 1..n /\ t[i] = r[i - m]
    BY <1>2, <2>2
  <2> QED
    BY <1>4, <2>1, <2>2
<1> QED
  BY <1>1, <1>4, <1>5, <1>6, <1>7, <1>8 DEF t, m, n

(* A page is read and given out, or the stream fails.                       *)
LEMMA ReadsPage ==
  ASSUME ReadsInv, pageRead1
  PROVE  ReadsInv'
<1>0. /\ read.pc = "asking" /\ read.op \in DOMAIN Stream1 /\ UNCHANGED <<told, holding>>
      /\ request[1].pc = "asked" /\ read.op \notin Batch \cup ObjectReads1
      /\ read.op # "getObjectAtVersion" /\ read.op \notin DOMAIN Read1
      /\ told' \in Saying /\ read \in Reading /\ read.cursor \in 0..MaxHeld
      /\ read.emitted \in Seq(1..MaxHeld) /\ IInv /\ ReadsTyped /\ MaxHeld \in Nat
  BY Kinds, Requests, HoldingsAreCounted
     DEF pageRead1, Streaming, ReadsInv, ReadsTyped, Saying, Reading, ObjectReads1, NodeReads1
<1>1. PICK page \in PagesHeld(read.cursor), decodes \in BOOLEAN :
       IF ~decodes THEN page.items # <<>> /\ Finish("TransportError", <<>>)
       ELSE /\ read' = [read EXCEPT !.emitted = @ \o page.items, !.cursor = page.endCursor,
                                    !.pc = IF goesOn(page) THEN "asking" ELSE "done"]
            /\ Release(1)
  BY DEF pageRead1
<1>2. CASE ~decodes
  <2>1. Finish("TransportError", <<>>) /\ "TransportError" \in Result /\ <<>> \in Seq(Item)
    BY <1>1, <1>2 DEF Result
  <2>2. MayEndWith(read.op, read.ids, read.client, "TransportError", <<>>, told')
    BY FailuresTell
  <2> QED
    BY <1>0, <2>1, <2>2, Ending
<1>3. CASE decodes
  <2>1. PICK to \in (read.cursor + 1)..MaxHeld :
          page = [items |-> ascending(holding.held \cap (read.cursor + 1)..to),
                  endCursor |-> to, hasNextPage |-> to < MaxHeld]
    BY DEF PagesHeld
  <2> DEFINE S == holding.held \cap (read.cursor + 1)..to
             r == ascending(S)
             q == read.emitted
             a == read.cursor
             t == q \o r
             pc == IF to < MaxHeld THEN "asking" ELSE "done"
  <2>2. a \in 0..MaxHeld /\ to \in Nat /\ to \in (a + 1)..MaxHeld /\ to \in 0..MaxHeld
    BY <1>0
  <2>3. S \subseteq 1..MaxHeld
    BY <1>0
  <2>4. /\ r \in Seq(1..MaxHeld) /\ {r[i] : i \in 1..Len(r)} = S
        /\ \A i, j \in 1..Len(r) : i < j => r[i] < r[j]
    BY <1>0, <2>3, Ascending
  <2>5. StreamKept /\ q \in Seq(1..MaxHeld)
    BY <1>0 DEF ReadsInv
  <2>6. read' = [read EXCEPT !.emitted = t, !.cursor = to, !.pc = pc]
    BY <1>1, <1>3, <2>1 DEF goesOn
  <2>7. \A i \in 1..Len(r) : r[i] \in S
    BY <2>4
  <2>8. \A i \in 1..Len(r) : a + 1 <= r[i] /\ r[i] <= to /\ r[i] \in holding.held
    <3>1. \A h \in S : h \in holding.held /\ a + 1 <= h /\ h <= to
      BY <2>2
    <3> QED
      BY <2>7, <3>1
  <2>9. /\ \A i, j \in 1..Len(q) : i < j => q[i] < q[j]
        /\ \A i \in 1..Len(q) : q[i] \in holding.ever /\ q[i] <= a
        /\ \A h \in holding.since : h <= a => \E i \in 1..Len(q) : q[i] = h
    BY <1>0, <2>5 DEF StreamKept
  <2>10. \A h \in S : \E j \in 1..Len(r) : r[j] = h
    BY <2>4
  <2>11. \A h \in holding.since : h \in Nat /\ (~ (h <= a) /\ h <= to => h \in S)
    <3>1. \A h \in holding.since : h \in 1..MaxHeld /\ h \in holding.held
      BY <1>0 DEF ReadsTyped, Held
    <3> QED
      BY <2>2, <3>1
  <2> HIDE DEF S, r
  <2>12. /\ t \in Seq(1..MaxHeld)
         /\ \A i, j \in 1..Len(t) : i < j => t[i] < t[j]
         /\ \A i \in 1..Len(t) : t[i] <= to
         /\ \A i \in 1..Len(t) :
              (\E j \in 1..Len(q) : t[i] = q[j]) \/ \E j \in 1..Len(r) : t[i] = r[j]
         /\ \A j \in 1..Len(q) : \E i \in 1..Len(t) : t[i] = q[j]
         /\ \A j \in 1..Len(r) : \E i \in 1..Len(t) : t[i] = r[j]
    BY <1>0, <2>2, <2>4, <2>5, <2>8, <2>9, Follows
  <2> HIDE DEF t, pc
  <2>13. pc \in {"asking", "done"} /\ (pc = "done" => to = MaxHeld)
    BY <1>0, <2>2 DEF pc
  <2>14. /\ read' \in Reading /\ read'.op = read.op /\ read'.ids = read.ids /\ read'.pc = pc
         /\ read'.cursor = to /\ read'.emitted = t /\ read'.result = read.result
    BY <1>0, <2>2, <2>6, <2>12, <2>13 DEF Reading
  <2>15. IInv' /\ request' = [request EXCEPT ![1] = Idle]
    BY <1>0, <1>1, <1>3, LettingGo, OneSlot
  <2>16. \A s \in Slot : request'[s].pc = "idle"
    <3>1. \A s \in Slot \ {1} : request[s].pc = "idle"
      BY <1>0 DEF ReadsInv, OfTheRead
    <3> QED
      BY <1>0, <2>15, <3>1, OneSlot DEF IInv, Typed, Idle
  <2>17. ReadsTyped' /\ \A s \in Slot : Good(request'[s]) /\ OfTheRead(s)'
    BY <1>0, <2>14, <2>15, <2>16 DEF ReadsTyped, IInv, OfTheRead, Saying
  <2>18. StreamKept'
    <3>1. \A i \in 1..Len(t) : t[i] \in holding.ever
      <4>1. holding.held \subseteq holding.ever
        BY <1>0 DEF ReadsTyped
      <4> QED
        BY <2>8, <2>9, <2>12, <4>1
    <3>2. ASSUME NEW h \in holding.since, h <= to
          PROVE  \E i \in 1..Len(t) : t[i] = h
      <4>1. CASE h <= a
        BY <2>9, <2>12, <4>1
      <4>2. CASE ~ (h <= a)
        <5>1. PICK j \in 1..Len(r) : r[j] = h
          BY <2>10, <2>11, <3>2, <4>2
        <5> QED
          BY <2>12, <5>1
      <4> QED
        BY <4>1, <4>2
    <3>3. read.result = "value"
      BY <1>0, <2>5 DEF StreamKept
    <3> QED
      BY <1>0, <2>12, <2>13, <2>14, <3>1, <3>2, <3>3 DEF StreamKept
  <2>19. BatchKept' /\ OneIsAsked'
    BY <1>0, <2>14 DEF BatchKept, OneIsAsked
  <2>20. EachIdItsOwnAnswer' /\ NoneIsAnAnswer'
    <3>1. read.result \notin {"none", "Absent"}
      BY <1>0, <2>5 DEF StreamKept
    <3> QED
      BY <1>0, <2>14, <3>1 DEF EachIdItsOwnAnswer, NoneIsAnAnswer
  <2> QED
    BY <2>17, <2>18, <2>19, <2>20 DEF ReadsInv
<1> QED
  BY <1>2, <1>3

(* Nothing has been read, nothing answered.                                 *)
LEMMA ReadsInvInit == ReadsInit => ReadsInv
<1> SUFFICES ASSUME ReadsInit PROVE ReadsInv
  OBVIOUS
<1>1. /\ read = [op |-> "getObject", pc |-> "idle", ids |-> <<>>, asked |-> 0,
                 at |-> [s \in Slot |-> 0], answers |-> {}, results |-> <<>>,
                 result |-> "value", client |-> "grpc", cursor |-> 0, emitted |-> <<>>]
      /\ told = [o \in Object |-> {}] /\ holding = [held |-> {}, since |-> {}, ever |-> {}]
      /\ request = [s \in Slot |-> Idle]
  BY DEF ReadsInit, NoRead, ReadInit
<1>2. read \in Reading
  <2>1. /\ 0 \in 0..MaxHeld /\ "value" \in Result /\ "grpc" \in Client
        /\ "getObject" \in Op
    BY HoldingsAreCounted DEF Result, Client, Op, Read1
  <2> QED
    BY <1>1, <2>1 DEF Reading
<1>3. /\ Typed /\ \A s \in Slot : Good(request[s]) /\ OfTheRead(s)
  BY <1>1, Resting
<1>4. ReadsTyped
  <2>1. told \in [Object -> SUBSET (Is \cup {"version", "noVersion"})]
    BY <1>1
  <2>2. /\ holding \in Held /\ holding.since \subseteq holding.held
        /\ holding.held \subseteq holding.ever
    BY <1>1 DEF Held
  <2> QED
    BY <1>2, <1>3, <2>1, <2>2 DEF ReadsTyped
<1>5. read.pc = "idle" /\ read.op \notin DOMAIN Stream1
  <2>1. "getObject" \in DOMAIN Read1
    BY DEF Read1
  <2> QED
    BY <1>1, <2>1, Kinds
<1>6. BatchKept /\ OneIsAsked /\ StreamKept /\ EachIdItsOwnAnswer /\ NoneIsAnAnswer
  BY <1>5 DEF BatchKept, OneIsAsked, StreamKept, EachIdItsOwnAnswer, NoneIsAnAnswer
<1> QED
  BY <1>3, <1>4, <1>6 DEF ReadsInv

(* The invariant of the reads holds always.                                 *)
LEMMA ReadsInvAlways == ReadsSpec => []ReadsInv
<1>1. ReadsInv /\ [ReadsNext]_readVars => ReadsInv'
  <2> SUFFICES ASSUME ReadsInv, [ReadsNext]_readVars
               PROVE  ReadsInv'
    OBVIOUS
  <2>1. CASE UNCHANGED readVars
    <3>1. UNCHANGED <<read, told, holding, request>>
      BY <2>1 DEF readVars
    <3>2. ReadsTyped' /\ \A s \in Slot : Good(request'[s]) /\ OfTheRead(s)'
      BY <3>1 DEF ReadsInv, ReadsTyped, Typed, OfTheRead, Asked
    <3>3. BatchKept' /\ OneIsAsked' /\ StreamKept'
      BY <3>1 DEF ReadsInv, BatchKept, OneIsAsked, StreamKept
    <3>4. EachIdItsOwnAnswer' /\ NoneIsAnAnswer'
      BY <3>1 DEF ReadsInv, EachIdItsOwnAnswer, NoneIsAnAnswer, Asked
    <3> QED
      BY <3>2, <3>3, <3>4 DEF ReadsInv
  <2>2. CASE ReadsNext
    <3>1. CASE \E op \in Batch, ids \in Batches : getObjects(op, ids)
      BY <3>1, BatchStarts
    <3>2. CASE \E op \in DOMAIN Read1 \ NodeReads1, id \in Spelling : ask(op, id)
      BY <3>2, Starts
    <3>3. CASE \E op \in NodeReads1, id \in Spelling, client \in Client : askNode(op, id, client)
      BY <3>3, Starts, Kinds
    <3>4. CASE \E op \in DOMAIN Stream1 : openStream(op)
      BY <3>4, StreamOpens
    <3>5. CASE \E i \in 1..MaxHeld : moves(i)
      BY <3>5, Moves
    <3>6. CASE \E s \in Slot : askChunk(s) \/ chunkRead(s) \/ chunkFailed(s) \/ transportFails(s)
      BY <3>6, AsksChunk, ChunkReads, ChunkFails, TransportFails
    <3>7. CASE readObjectAtVersion \/ versionNotFound \/ readServiceInfo
      BY <3>7, AtVersion, VersionNotFound, ServiceInfo
    <3>8. CASE askPage \/ pageRead1 \/ batchRead
      BY <3>8, AsksPage, ReadsPage, BatchReads
    <3>9. CASE objectRead \/ answerRead \/ readFails \/ layerAgain
      BY <3>9, ObjectRead, AnswerRead, ReadFails, LayerAgain
    <3> QED
      BY <2>2, <3>1, <3>2, <3>3, <3>4, <3>5, <3>6, <3>7, <3>8, <3>9 DEF ReadsNext
  <2> QED
    BY <2>1, <2>2
<1>2. QED
  BY <1>1, ReadsInvInit, PTL DEF ReadsSpec

(* What a read answers is what the node told it: of a batch in any number of *)
(* chunks and slots, of a single read through whatever failures, of a stream *)
(* of any length whatever comes and goes.                                   *)
THEOREM ReadsAnswerTruly == ReadsSpec => []AnswersAreTheNodes
<1>1. ReadsInv => AnswersAreTheNodes
  <2> SUFFICES ASSUME ReadsInv PROVE AnswersAreTheNodes
    OBVIOUS
  <2>1. EachIdItsOwnAnswer /\ NoneIsAnAnswer
    BY DEF ReadsInv
  <2>2. HeldIsListed
    <3> SUFFICES ASSUME read.op \in DOMAIN Stream1 PROVE HeldIsListed
      BY DEF HeldIsListed
    <3>1. /\ read.emitted \in Seq(1..MaxHeld) /\ StreamKept /\ holding \in Held
          /\ read.cursor \in 0..MaxHeld /\ MaxHeld \in Nat
      BY HoldingsAreCounted DEF ReadsInv, ReadsTyped, Reading
    <3>2. DOMAIN read.emitted = 1..Len(read.emitted)
      BY <3>1
    <3>3. \A h \in holding.since : h \in 1..MaxHeld
      BY <3>1 DEF Held
    <3>4. read.pc = "done" /\ read.result = "value" => \A h \in holding.since : h <= read.cursor
      BY <3>1, <3>3 DEF StreamKept
    <3> QED
      BY <3>1, <3>2, <3>4 DEF StreamKept, HeldIsListed, ToSet
  <2> QED
    BY <2>1, <2>2 DEF AnswersAreTheNodes
<1>2. QED
  BY <1>1, ReadsInvAlways, PTL

(* The reads use the read tier as it is: a read's requests are answered,    *)
(* retried and told of absences as any call of the SDK.                     *)
THEOREM ReadsUseTheTier == ReadsSpec => [](AbsenceIsTheNodes /\ RetriedWhileItMayPass /\ SendsOnce)
<1>1. ReadsInv => AbsenceIsTheNodes /\ RetriedWhileItMayPass /\ SendsOnce
  <2>1. ReadsInv => \A s \in Slot : Good(request[s])
    BY DEF ReadsInv
  <2>2. (\A s \in Slot : Good(request[s])) => AbsenceIsTheNodes
    BY DEF Good, Faithful, Says, Absences, AbsenceIsTheNodes
  <2>3. (\A s \in Slot : Good(request[s])) => RetriedWhileItMayPass
    BY DEF Good, MayPass, Limit, RetriedWhileItMayPass
  <2>4. (\A s \in Slot : Good(request[s])) => SendsOnce
    BY DEF Good, SendsOnce
  <2> QED
    BY <2>1, <2>2, <2>3, <2>4
<1>2. QED
  BY <1>1, ReadsInvAlways, PTL
=============================================================================
