------------------------------ MODULE RunProofs ------------------------------
EXTENDS Run, WellFoundedInduction, TLAPS

(* Tx.build and Tx.run sign and send what they should, for every set of      *)
(* accounts and keys, every bound of a proof, budget, alias set and number   *)
(* of resolve attempts, while the world moves as often as MaxMoved allows.   *)
(*                                                                           *)
(* First the pure part: a multisig's members can be put in the key's order,  *)
(* the earliest of some bounds is one of them. Then the invariant, IInv, in  *)
(* five parts: what has its type, who is to sign and until when, which       *)
(* window the bytes have, what pays for them, and who has signed. Each       *)
(* holds up to what moved in the world since it was read.                    *)

-----------------------------------------------------------------------------
(* Numbers in order.                                                        *)

(* A set of numbers has a least one.                                        *)
LEMMA Least ==
  ASSUME NEW T, T \subseteq Nat, T # {}
  PROVE  \E x \in T : \A y \in T : x <= y
<1> DEFINE Less == {p \in Nat \X Nat : p[1] < p[2]}
<1>1. IsWellFoundedOn(Less, Nat)
  BY NatLessThanWellFounded DEF OpToRel
<1>2. \A x, y \in Nat : <<y, x>> \in Less <=> y < x
  OBVIOUS
<1> HIDE DEF Less
<1>3. PICK x \in T : \A y \in T : ~ (<<y, x>> \in Less)
  BY <1>1, WFMin
<1>4. \A y \in T : ~ (y < x)
  BY <1>2, <1>3
<1> QED
  BY <1>4

(* A function on 1..n that takes different values, of a set of numbers.     *)
Numbers(g, n) ==
  g \in [1..n -> Nat] /\ \A i, j \in 1..n : g[i] = g[j] => i = j

(* The values of g on 1..n, in order.                                       *)
Sorts(f, g, n) ==
  /\ f \in [1..n -> {g[i] : i \in 1..n}]
  /\ \A i, j \in 1..n : i < j => f[i] < f[j]

(* One number more is put in its place: the least comes first.              *)
LEMMA OneMore ==
  ASSUME NEW n \in Nat, n >= 1, NEW g, Numbers(g, n),
         \A h : Numbers(h, n - 1) => \E f : Sorts(f, h, n - 1)
  PROVE  \E f : Sorts(f, g, n)
<1>1. g \in [1..n -> Nat] /\ \A i, j \in 1..n : g[i] = g[j] => i = j
  BY DEF Numbers
<1>2. n \in 1..n /\ 1 \in 1..n
  OBVIOUS
<1>3. PICK x \in {g[i] : i \in 1..n} : \A y \in {g[i] : i \in 1..n} : x <= y
  <2>1. {g[i] : i \in 1..n} # {} /\ {g[i] : i \in 1..n} \subseteq Nat
    BY <1>1, <1>2
  <2> QED
    BY <2>1, Least
<1>4. PICK m \in 1..n : g[m] = x
  BY <1>3
<1>5. \A i \in 1..n : i # m => g[m] < g[i]
  <2>1. SUFFICES ASSUME NEW i \in 1..n, i # m PROVE g[m] < g[i]
    OBVIOUS
  <2>2. g[m] <= g[i] /\ g[m] # g[i] /\ g[m] \in Nat /\ g[i] \in Nat
    BY <1>1, <1>3, <1>4, <2>1
  <2> QED
    BY <2>2
<1> DEFINE h == [k \in 1..(n - 1) |-> IF k = m THEN g[n] ELSE g[k]]
<1>6. \A k \in 1..(n - 1) : k \in 1..n /\ k # n /\ k \in Nat
  OBVIOUS
<1>7. \A k \in 1..(n - 1) : h[k] = IF k = m THEN g[n] ELSE g[k]
  OBVIOUS
<1>8. h \in [1..(n - 1) -> Nat]
  BY <1>1, <1>2, <1>6
<1> HIDE DEF h
<1>9. \A i, j \in 1..(n - 1) : h[i] = h[j] => i = j
  BY <1>1, <1>2, <1>6, <1>7
<1>10. \A k \in 1..(n - 1) : \E i \in 1..n : i # m /\ h[k] = g[i]
  BY <1>2, <1>6, <1>7
<1>11. PICK f : Sorts(f, h, n - 1)
  BY <1>8, <1>9 DEF Numbers
<1>12. /\ f \in [1..(n - 1) -> {h[i] : i \in 1..(n - 1)}]
       /\ \A i, j \in 1..(n - 1) : i < j => f[i] < f[j]
  BY <1>11 DEF Sorts
<1>13. \A k \in 1..(n - 1) : \E i \in 1..n : i # m /\ f[k] = g[i]
  BY <1>10, <1>12
<1> DEFINE e == [k \in 1..n |-> IF k = 1 THEN g[m] ELSE f[k - 1]]
<1>14. \A k \in 1..n : e[k] = IF k = 1 THEN g[m] ELSE f[k - 1]
  OBVIOUS
<1>15. \A k \in 1..n : k # 1 => k - 1 \in 1..(n - 1)
  OBVIOUS
<1>16. e \in [1..n -> {g[i] : i \in 1..n}]
  BY <1>13, <1>15
<1> HIDE DEF e
<1>17. ASSUME NEW i \in 1..n, NEW j \in 1..n, i < j
       PROVE  e[i] < e[j]
  <2>1. j # 1 /\ j - 1 \in 1..(n - 1) /\ e[j] = f[j - 1]
    BY <1>14, <1>15, <1>17
  <2>2. CASE i = 1
    BY <1>5, <1>13, <1>14, <2>1, <2>2
  <2>3. CASE i # 1
    <3>1. i - 1 \in 1..(n - 1) /\ i - 1 < j - 1 /\ e[i] = f[i - 1]
      BY <1>14, <1>15, <1>17, <2>3
    <3> QED
      BY <1>12, <2>1, <3>1
  <2> QED
    BY <2>2, <2>3
<1> QED
  BY <1>16, <1>17 DEF Sorts

(* Different numbers, however many, can be put in order.                    *)
LEMMA Sorted ==
  ASSUME NEW N \in Nat, NEW g, Numbers(g, N)
  PROVE  \E f : Sorts(f, g, N)
<1> DEFINE Sortable(n) == \A h : Numbers(h, n) => \E f : Sorts(f, h, n)
           Rest == {n \in 0..N : ~Sortable(n)}
<1>1. Sortable(0)
  <2>1. SUFFICES ASSUME NEW h, Numbers(h, 0) PROVE Sorts(<<>>, h, 0)
    OBVIOUS
  <2> QED
    BY DEF Sorts
<1>2. ASSUME NEW n \in 1..N, Sortable(n - 1)
      PROVE  Sortable(n)
  <2>1. n \in Nat /\ n >= 1
    OBVIOUS
  <2> QED
    BY <1>2, <2>1, OneMore
<1> HIDE DEF Sortable
<1>3. Rest = {}
  <2>1. SUFFICES ASSUME Rest # {} PROVE FALSE
    OBVIOUS
  <2>2. PICK m \in Rest : \A n \in Rest : m <= n
    <3>1. Rest \subseteq Nat
      OBVIOUS
    <3> QED
      BY <2>1, <3>1, Least
  <2>3. m \in 0..N /\ m # 0 /\ ~Sortable(m)
    BY <1>1, <2>2
  <2>4. m \in 1..N /\ m - 1 \in 0..N /\ ~ (m <= m - 1)
    BY <2>3
  <2>5. Sortable(m - 1)
    BY <2>2, <2>4
  <2> QED
    BY <1>2, <2>3, <2>4, <2>5
<1>4. Sortable(N)
  BY <1>3
<1> QED
  BY <1>4 DEF Sortable

(* What a party is given to sign with.                                      *)
LEMMA Given ==
  ASSUME NEW p \in Parties \cup {NoParty}
  PROVE  /\ p.given \in Seq(Keys) /\ (p.multisig \/ Len(p.given) <= 1)
         /\ p.address \in Address \cup {NoOne} /\ p.alias \in Address \cup {NoOne}
         /\ p.multisig \in BOOLEAN /\ (p # NoParty => p.address \in Address)
<1>1. CASE p \in Parties
  <2>1. /\ p \in [address : Address, alias : Address \cup {NoOne}, multisig : BOOLEAN,
                 given : Seq(Keys)]
        /\ p.multisig \/ Len(p.given) <= 1
    BY <1>1 DEF Parties
  <2> QED
    BY <2>1
<1>2. CASE p = NoParty
  <2>1. /\ p.given = <<>> /\ p.address = NoOne /\ p.alias = NoOne /\ p.multisig = FALSE
    BY <1>2 DEF NoParty
  <2>2. p.given \in Seq(Keys) /\ Len(p.given) <= 1
    BY <2>1
  <2> QED
    BY <1>2, <2>1, <2>2
<1> QED
  BY <1>1, <1>2

(* The key's order: that of the members' numbers.                           *)
LEMMA MembersInOrder ==
  ASSUME NEW p \in Parties \cup {NoParty}, constructible(p)
  PROVE  /\ membersOf(p) \in Seq(Keys) /\ Len(membersOf(p)) = Len(p.given)
         /\ \A i, j \in DOMAIN membersOf(p) :
              i < j => membersOf(p)[i] < membersOf(p)[j]
<1> DEFINE g == p.given
           n == Len(p.given)
<1>1. g \in Seq(Keys) /\ (p.multisig => IsInjective(g)) /\ (~p.multisig => n <= 1)
  BY Given DEF constructible
<1>2. Keys \subseteq Nat
  BY KeysAreNumbered
<1>3. n \in Nat /\ DOMAIN g = 1..n /\ g \in [1..n -> Keys]
  BY <1>1
<1> HIDE DEF g, n
<1>4. Numbers(g, n)
  <2>1. g \in [1..n -> Nat]
    BY <1>2, <1>3
  <2>2. CASE p.multisig
    BY <1>1, <1>3, <2>1, <2>2 DEF IsInjective, Numbers
  <2>3. CASE ~p.multisig
    BY <1>1, <1>3, <2>1, <2>3 DEF Numbers
  <2> QED
    BY <2>2, <2>3
<1>5. PICK f : Sorts(f, g, n)
  BY <1>3, <1>4, Sorted
<1>6. ToSet(g) = {g[i] : i \in 1..n}
  BY <1>3 DEF ToSet
<1> DEFINE Ordered == [DOMAIN g -> ToSet(g)]
           keys == CHOOSE k \in Ordered : \A i, j \in DOMAIN k : i < j => k[i] < k[j]
<1>7. f \in Ordered /\ \A i, j \in DOMAIN f : i < j => f[i] < f[j]
  BY <1>3, <1>5, <1>6 DEF Sorts
<1>8. keys \in Ordered /\ \A i, j \in DOMAIN keys : i < j => keys[i] < keys[j]
  BY <1>7
<1>9. membersOf(p) = keys
  BY DEF membersOf, g
<1> HIDE DEF keys
<1>10. keys \in [1..n -> Keys]
  BY <1>3, <1>6, <1>8
<1>11. keys \in Seq(Keys) /\ Len(keys) = n
  BY <1>3, <1>10
<1> QED
  BY <1>8, <1>9, <1>11 DEF n

(* The earliest of some bounds is one of them, or none at all.              *)
LEMMA Earliest ==
  ASSUME NEW bounds, bounds \subseteq 0..Unbounded
  PROVE  earliest(bounds) \in 0..Unbounded /\ \A b \in bounds : earliest(bounds) <= b
<1>1. Unbounded \in Nat
  BY BoundsAreNatural DEF Unbounded
<1>2. bounds \cup {Unbounded} \subseteq Nat /\ bounds \cup {Unbounded} # {}
  BY <1>1
<1>3. \E b \in bounds \cup {Unbounded} : \A c \in bounds : b <= c
  BY <1>2, Least
<1> DEFINE first == CHOOSE b \in bounds \cup {Unbounded} : \A c \in bounds : b <= c
<1>4. first \in bounds \cup {Unbounded} /\ \A c \in bounds : first <= c
  BY <1>3
<1>5. earliest(bounds) = first
  BY DEF earliest
<1> HIDE DEF first
<1> QED
  BY <1>1, <1>4, <1>5

(* What the proofs of a party's keys are good for.                          *)
LEMMA PartyBounds ==
  ASSUME NEW p \in Parties \cup {NoParty}
  PROVE  /\ boundsOf(p) \subseteq 0..Unbounded /\ maxEpochOf(p) \in 0..Unbounded
         /\ \A b \in boundsOf(p) : maxEpochOf(p) <= b
<1>1. p.given \in Seq(Keys)
  BY Given
<1>2. \A i \in DOMAIN p.given : p.given[i] \in Keys
  BY <1>1
<1>3. boundsOf(p) \subseteq 0..Unbounded
  BY <1>2, KeysAreNumbered DEF boundsOf, ToSet
<1> QED
  BY <1>3, Earliest DEF maxEpochOf

-----------------------------------------------------------------------------
(* The invariant.                                                           *)

(* The call has gone past its checks, and is not over.                      *)
Working == {"building", "built", "approving", "signing", "cosigning", "signed", "wallet",
            "sending"}

(* The resolver has its turn, or has had it.                                *)
Resolved == {"resolving", "simulating", "checking", "balance", "built"}

Building ==
  [pc : {"idle", "expiring", "pinning", "failed"} \cup Resolved,
   bound : 0..Unbounded, attempt : 0..MaxResolves, defaulted : BOOLEAN, paymentSet : BOOLEAN,
   explicitlyEmpty : BOOLEAN, simulated : BOOLEAN, own : BOOLEAN, shown : BOOLEAN,
   failure : Tag]

RunRecord ==
  [pc : RunPc, failure : Tag, read : 0..2, round : 1..MaxRuns, prepared : BOOLEAN,
   approved : BOOLEAN]

Typed ==
  /\ NetworkTypeOK
  /\ tx \in Drafts /\ build \in Building /\ config \in Config
  /\ ask \in Asking /\ run \in RunRecord /\ signatures \in Seq(Signature)
  /\ moved \subseteq {"epoch", "balance", "aliases", "commands"}

(* The draft is the sender's, and its gas is paid by whom the call named.   *)
Named == tx.sender = sender /\ (ask.gasOwner # NoOne => tx.owner = ask.gasOwner)

(* Who is to sign, as the call was made.                                    *)
Who == {ask.signer} \cup (IF gasIntentOf = NoOne THEN {} ELSE {ask.sponsor})

(* A key that signs for an account was on its list when it was looked up.   *)
Allowed(party) ==
  party.alias # NoOne => allows(party.address, party.alias) \/ "aliases" \in moved

(* None of a party's proofs ends before the build's window may.             *)
Bounded(party) == \A b \in boundsOf(party) : build.bound <= b

(* Who is to sign can sign: it was checked before the build, whose window   *)
(* no proof of theirs ends before.                                          *)
Agreed ==
  /\ run.pc = "idle" => run.read = 0
  /\ run.pc \in {"aliases"} \cup Working =>
       \A p \in {ask.signer, ask.sponsor} : constructible(p)
  /\ run.pc = "aliases" => \A i \in DOMAIN aliased : i <= run.read => Allowed(aliased[i])
  /\ run.pc \in Working => Named /\ \A p \in Who : Allowed(p) /\ Bounded(p)

(* The window is open and closes with the first proof that ends; the epoch  *)
(* it was made of has not turned unless moved says so.                      *)
Timely ==
  /\ tx.expiration.kind = "ValidDuring" => tx.expiration.to <= tx.expiration.from + 1
  /\ run.pc \in Working /\ build.pc \in {"pinning"} \cup Resolved =>
       /\ epoch <= build.bound \/ "epoch" \in moved
       /\ build.defaulted => InWindow(tx) \/ "epoch" \in moved
       /\ build.defaulted /\ config.expiration # "none" =>
            tx.expiration.kind # "unset" /\ tx.expiration.to <= build.bound

(* The payer's balance is worth the budget and what is withdrawn besides.   *)
Pays ==
  /\ tx.budget \in Nat
  /\ tx.budget + WithdrawnFrom(tx, payerOf(tx)) <= balance[payerOf(tx)]

(* What was read of the balances was enough, and still is unless moved says *)
(* otherwise; the bytes were shown to execute, and checked.                 *)
Paid ==
  /\ tx.payment = "reservation" =>
       Named /\ (tx.reserved <= balance[payerOf(tx)] \/ "balance" \in moved)
  /\ run.pc \in Working =>
       /\ build.shown => Covered(tx) \/ "balance" \in moved
       /\ build.pc \in {"checking", "balance", "built"} => build.shown
       /\ build.pc \in Resolved /\ tx.payment = "empty" /\ ~build.explicitlyEmpty =>
            Pays \/ "balance" \in moved
       /\ build.pc \in {"balance", "built"} /\ tx.payment = "empty" =>
            tx.gas # "yes" /\ (tx.owned \/ tx.expiration.kind = "ValidDuring")
       /\ build.pc = "built" /\ tx.payment = "empty" /\ tx.budget > 0 =>
            Pays \/ "balance" \in moved

(* A signature that validators take while its proof lasts.                  *)
Good(s) ==
  /\ s.of = "these"
  /\ s.multisig => Len(s.members) >= Threshold
  /\ \A i, j \in DOMAIN s.members : i < j => s.members[i] < s.members[j]
  /\ \A b \in s.bounds : build.bound <= b

(* Somebody who may has signed for the account.                             *)
SignedOf(a) ==
  \/ \E i \in DOMAIN signatures : signatures[i].by \in aliases[a]
  \/ "aliases" \in moved \/ OwnKeyUnread(a)

(* Nobody has signed before everything was checked, shown and approved, and *)
(* then everybody who has to.                                               *)
Signing ==
  /\ run.pc \in {"idle", "aliases"} \cup (Working \ {"cosigning", "signed", "sending"}) =>
       signatures = <<>>
  /\ run.pc \in Working \ {"building"} => build.pc = "built"
  /\ run.pc = "wallet" => ask.steps
  /\ run.pc = "approving" => run.prepared
  /\ run.pc \in {"signing", "cosigning", "signed", "sending"} /\ ~ask.steps =>
       (config.approve => run.approved) /\ (config.preflight => run.prepared)
  /\ run.pc \in Working => \A i \in DOMAIN signatures : Good(signatures[i])
  /\ run.pc \in {"cosigning", "signed", "sending"} => SignedOf(sender)
  /\ run.pc \in {"signed", "sending"} => \A a \in signersOfBytes : SignedOf(a)

IInv == Typed /\ Agreed /\ Timely /\ Paid /\ Signing

-----------------------------------------------------------------------------
(* Steps that leave most of it alone.                                       *)

(* What is true of the world and the bytes stays so when neither changes.   *)
LEMMA WorldStays ==
  ASSUME UNCHANGED <<epoch, balance, tx>>
  PROVE  /\ InWindow(tx)' <=> InWindow(tx)
         /\ Covered(tx)' <=> Covered(tx)
         /\ Pays' <=> Pays
         /\ (tx.reserved <= balance[payerOf(tx)])' <=> (tx.reserved <= balance[payerOf(tx)])
<1>1. InWindow(tx)' <=> InWindow(tx)
  BY DEF InWindow
<1>2. Covered(tx)' <=> Covered(tx)
  BY DEF Covered, WithdrawnFrom, payerOf
<1>3. Pays' <=> Pays
  BY DEF Pays, WithdrawnFrom, payerOf
<1>4. (tx.reserved <= balance[payerOf(tx)])' <=> (tx.reserved <= balance[payerOf(tx)])
  BY DEF payerOf
<1> QED
  BY <1>1, <1>2, <1>3, <1>4

(* Who is to sign and whom the draft names depend on the call, the two      *)
(* names in the draft, the build's bound and the alias sets.                *)
LEMMA PartiesStay ==
  ASSUME UNCHANGED <<ask, aliases>>, tx'.sender = tx.sender, tx'.owner = tx.owner,
         build'.bound = build.bound, "aliases" \in moved => "aliases" \in moved'
  PROVE  /\ Named' <=> Named
         /\ gasIntentOf' = gasIntentOf /\ aliased' = aliased /\ Who' = Who
         /\ \A p : (Allowed(p) => Allowed(p)') /\ (Bounded(p)' <=> Bounded(p))
<1>1. gasIntentOf' = gasIntentOf
  BY DEF gasIntentOf, sender
<1>2. Named' <=> Named
  BY DEF Named, sender
<1>3. aliased' = aliased
  BY <1>1 DEF aliased
<1>4. Who' = Who
  BY <1>1 DEF Who
<1>5. ASSUME NEW p
      PROVE  (Allowed(p) => Allowed(p)') /\ (Bounded(p)' <=> Bounded(p))
  BY DEF Allowed, Bounded, allows
<1> QED
  BY <1>1, <1>2, <1>3, <1>4, <1>5

(* A call at work stays agreed when nothing of that changes.                *)
LEMMA AgreedStays ==
  ASSUME Agreed, UNCHANGED <<ask, aliases>>, tx'.sender = tx.sender, tx'.owner = tx.owner,
         build'.bound = build.bound, "aliases" \in moved => "aliases" \in moved',
         run.pc \in Working \/ run'.pc \notin Working, run'.pc \notin {"idle", "aliases"}
  PROVE  Agreed'
<1>1. /\ Named' <=> Named
      /\ Who' = Who
      /\ \A p : (Allowed(p) => Allowed(p)') /\ (Bounded(p)' <=> Bounded(p))
  BY PartiesStay
<1>2. CASE run'.pc \notin Working
  BY <1>2 DEF Agreed
<1>3. CASE run'.pc \in Working
  <2>1. run.pc \in Working
    BY <1>3
  <2>2. \A p \in {ask.signer, ask.sponsor} : constructible(p)
    BY <2>1 DEF Agreed
  <2>3. Named /\ \A p \in Who : Allowed(p) /\ Bounded(p)
    BY <2>1 DEF Agreed
  <2>4. Named' /\ \A p \in Who' : Allowed(p)' /\ Bounded(p)'
    BY <1>1, <2>3
  <2> QED
    BY <1>3, <2>2, <2>4 DEF Agreed
<1> QED
  BY <1>2, <1>3

(* The call goes on over the same bytes: only what it asks of signatures    *)
(* is left to see.                                                          *)
LEMMA Onward ==
  ASSUME IInv, UNCHANGED <<networkVars, buildVars, ask, moved>>,
         run' \in RunRecord, signatures' \in Seq(Signature),
         run.pc \in Working \/ run'.pc \notin Working, run'.pc \notin {"idle", "aliases"}, Signing'
  PROVE  IInv'
<1> USE DEF networkVars, buildVars
<1>1. Typed'
  BY DEF IInv, Typed, NetworkTypeOK
<1>2. Agreed'
  BY AgreedStays DEF IInv
<1>3. /\ InWindow(tx)' <=> InWindow(tx)
      /\ Covered(tx)' <=> Covered(tx)
      /\ Pays' <=> Pays
      /\ (tx.reserved <= balance[payerOf(tx)])' <=> (tx.reserved <= balance[payerOf(tx)])
  BY WorldStays
<1>4. Named' <=> Named
  BY PartiesStay
<1>5. Timely'
  BY <1>3 DEF IInv, Timely
<1>6. Paid'
  BY <1>3, <1>4 DEF IInv, Paid
<1> QED
  BY <1>1, <1>2, <1>5, <1>6 DEF IInv

(* A call that stops is a call.                                             *)
LEMMA StopTyped ==
  ASSUME run \in RunRecord, NEW tag \in Tag, Stop(tag)
  PROVE  run'.pc = "failed" /\ run' \in RunRecord
<1>1. run.round \in 1..MaxRuns
  BY DEF RunRecord
<1>2. run' = [pc |-> "failed", failure |-> tag, read |-> 0, round |-> run.round,
              prepared |-> FALSE, approved |-> FALSE]
  BY DEF Stop, Start
<1>3. "failed" \in RunPc /\ 0 \in 0..2
  BY DEF RunPc
<1> QED
  BY <1>1, <1>2, <1>3 DEF RunRecord

(* A call stops: of its bytes only the draft is left.                       *)
LEMMA Stopping ==
  ASSUME IInv, UNCHANGED <<networkVars, tx, config, ask, moved>>,
         NEW tag \in Tag, Stop(tag), build' \in Building, signatures' \in Seq(Signature)
  PROVE  IInv'
<1> USE DEF networkVars
<1>1. run'.pc = "failed" /\ run' \in RunRecord
  BY StopTyped DEF IInv, Typed
<1>2. "failed" \notin Working \cup {"idle", "aliases"}
  BY DEF Working
<1>3. Typed'
  BY <1>1 DEF IInv, Typed, NetworkTypeOK
<1>4. Agreed' /\ Signing'
  BY <1>1, <1>2 DEF Agreed, Signing, Working
<1>5. (tx.reserved <= balance[payerOf(tx)])' <=> (tx.reserved <= balance[payerOf(tx)])
  BY WorldStays
<1>6. Named' <=> Named
  BY DEF Named, sender
<1>7. Timely'
  BY <1>1, <1>2 DEF IInv, Timely
<1>8. Paid'
  BY <1>1, <1>2, <1>5, <1>6 DEF IInv, Paid
<1> QED
  BY <1>3, <1>4, <1>7, <1>8 DEF IInv

-----------------------------------------------------------------------------
(* Before the build.                                                        *)

(* The names of the failures the steps stop with.                           *)
LEMMA Tags ==
  {"none", "BuildError", "SigningError", "SimulationFailed", "PolicyDenied",
   "TransportError", "JournalError", "KeyError", "E"} \subseteq Tag
BY DEF Tag

(* A call that goes on is a call.                                           *)
LEMMA GoTyped ==
  ASSUME run \in RunRecord, NEW pc \in RunPc, Go(pc)
  PROVE  /\ run' \in RunRecord /\ run'.pc = pc
         /\ run'.approved = run.approved /\ run'.prepared = run.prepared
         /\ run'.read = run.read
BY DEF RunRecord, Go

(* At most two alias keys are looked up: the sender's and the sponsor's.    *)
LEMMA AliasedAreTwo ==
  ASSUME ask \in Asking
  PROVE  /\ \E n \in 0..2 : DOMAIN aliased = 1..n /\ Len(aliased) = n
         /\ ask.signer.alias # NoOne => \E i \in DOMAIN aliased : aliased[i] = ask.signer
         /\ gasIntentOf # NoOne /\ ~ask.steps /\ ask.sponsor.alias # NoOne =>
              \E i \in DOMAIN aliased : aliased[i] = ask.sponsor
<1> DEFINE one == IF ask.signer.alias = NoOne THEN <<>> ELSE <<ask.signer>>
           two == IF gasIntentOf = NoOne \/ ask.steps \/ ask.sponsor.alias = NoOne
                  THEN <<>> ELSE <<ask.sponsor>>
<1>1. aliased = one \o two
  BY DEF aliased
<1>2. one \in Seq({ask.signer, ask.sponsor}) /\ two \in Seq({ask.signer, ask.sponsor})
  <2>1. /\ <<>> \in Seq({ask.signer, ask.sponsor})
        /\ <<ask.signer>> \in Seq({ask.signer, ask.sponsor})
        /\ <<ask.sponsor>> \in Seq({ask.signer, ask.sponsor})
    OBVIOUS
  <2> QED
    BY <2>1, Zenon
<1>3. /\ Len(one) = (IF ask.signer.alias = NoOne THEN 0 ELSE 1)
      /\ ask.signer.alias # NoOne => one[1] = ask.signer
  OBVIOUS
<1>4. /\ Len(two) = (IF gasIntentOf = NoOne \/ ask.steps \/ ask.sponsor.alias = NoOne
                     THEN 0 ELSE 1)
      /\ ~(gasIntentOf = NoOne \/ ask.steps \/ ask.sponsor.alias = NoOne) =>
           two[1] = ask.sponsor
  OBVIOUS
<1> HIDE DEF one, two
<1>5. /\ Len(one \o two) = Len(one) + Len(two) /\ DOMAIN (one \o two) = 1..(Len(one) + Len(two))
      /\ \A i \in 1..Len(one) : (one \o two)[i] = one[i]
      /\ \A i \in 1..Len(two) : (one \o two)[Len(one) + i] = two[i]
  BY <1>2
<1>6. Len(one) + Len(two) \in 0..2
  BY <1>3, <1>4
<1>7. ASSUME ask.signer.alias # NoOne
      PROVE  \E i \in DOMAIN aliased : aliased[i] = ask.signer
  <2>1. Len(one) = 1 /\ 1 \in 1..Len(one) /\ 1 \in 1..(Len(one) + Len(two))
    BY <1>3, <1>6, <1>7
  <2> QED
    BY <1>1, <1>3, <1>5, <1>7, <2>1
<1>8. ASSUME gasIntentOf # NoOne, ~ask.steps, ask.sponsor.alias # NoOne
      PROVE  \E i \in DOMAIN aliased : aliased[i] = ask.sponsor
  <2>1. Len(two) = 1 /\ 1 \in 1..Len(two) /\ Len(one) + 1 \in 1..(Len(one) + Len(two))
    BY <1>3, <1>4, <1>8
  <2> QED
    BY <1>1, <1>4, <1>5, <1>8, <2>1
<1> QED
  BY <1>1, <1>5, <1>6, <1>7, <1>8

(* Nothing is built yet when a call begins, and nobody has signed.          *)
LEMMA Beginning ==
  ASSUME IInv, begin, UNCHANGED networkVars
  PROVE  IInv'
<1>1. UNCHANGED <<networkVars, buildVars, ask, signatures, moved>> /\ run.pc = "idle"
  BY DEF begin
<1>2. run \in RunRecord /\ build \in Building /\ signatures \in Seq(Signature)
  BY DEF IInv, Typed
<1>3. CASE \E tag \in {"BuildError", "KeyError", "SigningError"} : Stop(tag)
  BY <1>1, <1>2, <1>3, Stopping, Tags DEF buildVars
<1>4. CASE constructible(ask.signer) /\ constructible(ask.sponsor) /\ Go("aliases")
  <2>1. run' \in RunRecord /\ run'.pc = "aliases" /\ run'.read = run.read
    BY <1>2, <1>4, GoTyped DEF RunPc
  <2>2. signatures = <<>>
    BY <1>1 DEF IInv, Signing
  <2>3. run.read = 0
    BY <1>1 DEF IInv, Agreed
  <2>4. Agreed'
    <3>1. \A p \in {ask.signer, ask.sponsor} : constructible(p)
      BY <1>4
    <3>2. \A p \in {ask.signer, ask.sponsor}' : constructible(p)
      BY <1>1, <3>1
    <3>3. run'.pc \notin Working
      BY <2>1 DEF Working
    <3>4. aliased' = aliased
      BY <1>1 DEF aliased, gasIntentOf, sender, buildVars
    <3>5. \A i \in DOMAIN aliased : ~ (i <= 0)
      <4>1. PICK n \in 0..2 : DOMAIN aliased = 1..n
        BY AliasedAreTwo DEF IInv, Typed
      <4> QED
        BY <4>1
    <3>6. \A i \in DOMAIN aliased' : ~ (i <= run'.read)
      BY <2>1, <2>3, <3>4, <3>5
    <3> QED
      BY <2>1, <3>2, <3>3, <3>6 DEF Agreed
  <2>5. /\ InWindow(tx)' <=> InWindow(tx)
        /\ (tx.reserved <= balance[payerOf(tx)])' <=> (tx.reserved <= balance[payerOf(tx)])
    BY <1>1, WorldStays DEF networkVars, buildVars
  <2>6. Named' <=> Named
    BY <1>1 DEF Named, sender, buildVars
  <2>7. run'.pc = "aliases" /\ "aliases" \notin Working
    BY <2>1 DEF Working
  <2>8. Timely' /\ Paid'
    BY <1>1, <2>5, <2>6, <2>7 DEF IInv, Timely, Paid, buildVars
  <2>9. Signing'
    BY <1>1, <2>2, <2>7 DEF Signing
  <2>10. Typed'
    BY <1>1, <2>1 DEF IInv, Typed, NetworkTypeOK, networkVars, buildVars
  <2> QED
    BY <2>4, <2>8, <2>9, <2>10 DEF IInv
<1> QED
  BY <1>3, <1>4 DEF begin

(* An alias key found on its account's list is one more that is.            *)
LEMMA AliasRead ==
  ASSUME IInv, requireAliases, UNCHANGED networkVars
  PROVE  IInv'
<1>1. /\ UNCHANGED <<networkVars, buildVars, ask, signatures, moved>>
      /\ run.pc = "aliases" /\ run.read < Len(aliased)
  BY DEF requireAliases
<1>2. /\ run \in RunRecord /\ build \in Building /\ signatures \in Seq(Signature)
      /\ run.read \in 0..2
  BY DEF IInv, Typed, RunRecord
<1>3. CASE \E tag \in {"PolicyDenied", "TransportError"} : Stop(tag)
  BY <1>1, <1>2, <1>3, Stopping, Tags DEF buildVars
<1>4. CASE /\ allows(aliased[run.read + 1].address, aliased[run.read + 1].alias)
           /\ run' = [run EXCEPT !.read = @ + 1]
  <2>1. PICK n \in 0..2 : DOMAIN aliased = 1..n /\ Len(aliased) = n
    BY AliasedAreTwo DEF IInv, Typed
  <2>2. run' \in RunRecord /\ run'.pc = "aliases" /\ run'.read = run.read + 1
    BY <1>1, <1>2, <1>4, <2>1 DEF RunRecord
  <2>3. "aliases" \notin Working
    BY DEF Working
  <2>4. /\ aliased' = aliased
        /\ Named' <=> Named
        /\ \A p : Allowed(p) => Allowed(p)'
    BY <1>1, PartiesStay DEF networkVars, buildVars
  <2>5. \A i \in DOMAIN aliased : i <= run.read + 1 => Allowed(aliased[i])
    <3>1. Allowed(aliased[run.read + 1])
      BY <1>4 DEF Allowed
    <3>2. \A i \in DOMAIN aliased : i <= run.read => Allowed(aliased[i])
      BY <1>1 DEF IInv, Agreed
    <3>3. \A i \in DOMAIN aliased : i <= run.read + 1 => i <= run.read \/ i = run.read + 1
      BY <1>2, <2>1
    <3> QED
      BY <3>1, <3>2, <3>3
  <2>6. (\A i \in DOMAIN aliased : i <= run.read => Allowed(aliased[i]))'
    BY <2>2, <2>4, <2>5 DEF Allowed
  <2>7. Agreed'
    <3>1. \A p \in {ask.signer, ask.sponsor} : constructible(p)
      BY <1>1 DEF IInv, Agreed
    <3> QED
      BY <1>1, <2>2, <2>3, <2>6, <3>1 DEF Agreed
  <2>8. /\ InWindow(tx)' <=> InWindow(tx)
        /\ (tx.reserved <= balance[payerOf(tx)])' <=> (tx.reserved <= balance[payerOf(tx)])
    BY <1>1, WorldStays DEF networkVars, buildVars
  <2>9. Timely' /\ Paid'
    BY <1>1, <2>2, <2>3, <2>4, <2>8 DEF IInv, Timely, Paid, buildVars
  <2>10. Signing'
    BY <1>1, <2>2, <2>3 DEF IInv, Signing
  <2>11. Typed'
    BY <1>1, <2>2 DEF IInv, Typed, NetworkTypeOK, networkVars, buildVars
  <2> QED
    BY <2>7, <2>9, <2>10, <2>11 DEF IInv
<1> QED
  BY <1>3, <1>4 DEF requireAliases

(* The bounds of those who are to sign, and the first of them to end.       *)
LEMMA SessionBound ==
  ASSUME ask \in Asking
  PROVE  /\ sessionBound \in 0..Unbounded
         /\ \A p \in Who : \A b \in boundsOf(p) : sessionBound <= b
<1>1. ask.signer \in Parties /\ ask.sponsor \in Parties \cup {NoParty}
  BY DEF Asking
<1>2. \A p \in {ask.signer, ask.sponsor} :
        /\ boundsOf(p) \subseteq 0..Unbounded /\ maxEpochOf(p) \in 0..Unbounded
        /\ \A b \in boundsOf(p) : maxEpochOf(p) <= b
  BY <1>1, PartyBounds
<1> DEFINE ends == {maxEpochOf(ask.signer)}
                     \cup (IF gasIntentOf = NoOne THEN {} ELSE {maxEpochOf(ask.sponsor)})
<1>3. ends \subseteq 0..Unbounded
  BY <1>2
<1>4. \A p \in Who : maxEpochOf(p) \in ends /\ p \in {ask.signer, ask.sponsor}
  BY DEF Who
<1>5. sessionBound = earliest(ends)
  BY DEF sessionBound
<1> HIDE DEF ends
<1>6. sessionBound \in 0..Unbounded /\ \A b \in ends : sessionBound <= b
  BY <1>3, <1>5, Earliest
<1>7. ASSUME NEW p \in Who, NEW b \in boundsOf(p)
      PROVE  sessionBound <= b
  <2>1. sessionBound <= maxEpochOf(p) /\ maxEpochOf(p) <= b
    BY <1>2, <1>4, <1>6, <1>7
  <2>2. b \in 0..Unbounded /\ maxEpochOf(p) \in 0..Unbounded /\ sessionBound \in 0..Unbounded
    BY <1>2, <1>4, <1>6, <1>7
  <2>3. Unbounded \in Nat
    BY BoundsAreNatural DEF Unbounded
  <2> QED
    BY <2>1, <2>2, <2>3
<1> QED
  BY <1>6, <1>7

(* A draft whose fields are what they may be is one.                        *)
LEMMA DraftTyped ==
  ASSUME NEW t \in Drafts, NEW s \in Account, NEW o \in Account \cup {NoOne}
  PROVE  [t EXCEPT !.sender = s, !.owner = o] \in Drafts
BY DEF Drafts

(* The build begins over the sender's draft, its bound that of the proofs.  *)
LEMMA BuildBegins ==
  ASSUME IInv, builds, UNCHANGED networkVars
  PROVE  IInv'
<1>1. /\ UNCHANGED <<networkVars, config, ask, signatures, moved>>
      /\ run.pc = "aliases" /\ run.read = Len(aliased)
      /\ tx' = [tx EXCEPT !.sender = sender,
                          !.owner = IF ask.gasOwner = NoOne THEN @ ELSE ask.gasOwner]
      /\ build' = [NoBuild EXCEPT !.pc = "expiring", !.bound = sessionBound,
                                  !.defaulted = tx.expiration = Unsaid]
      /\ Go("building")
  BY DEF builds, buildIt
<1>2. /\ tx \in Drafts /\ ask \in Asking /\ run \in RunRecord /\ signatures = <<>>
      /\ \A p \in {ask.signer, ask.sponsor} : constructible(p)
  BY <1>1 DEF IInv, Typed, Signing, Agreed
<1>3. /\ run' \in RunRecord /\ run'.pc = "building"
  BY <1>1, <1>2, GoTyped DEF RunPc
<1>4. /\ ask.signer \in Parties /\ sender \in Account /\ ask.gasOwner \in Account \cup {NoOne}
      /\ ask.sponsor \in Parties \cup {NoParty}
      /\ ask.steps => ask.sponsor.alias = NoOne
  BY <1>2 DEF Asking, sender
<1>5. /\ tx'.sender = sender
      /\ tx'.owner = IF ask.gasOwner = NoOne THEN tx.owner ELSE ask.gasOwner
      /\ tx'.payment = tx.payment /\ tx'.reserved = tx.reserved
      /\ tx'.expiration = tx.expiration
  BY <1>1, <1>2 DEF Drafts
<1>6. tx' \in Drafts
  <2>1. tx.owner \in Account \cup {NoOne}
    BY <1>2 DEF Drafts
  <2>2. (IF ask.gasOwner = NoOne THEN tx.owner ELSE ask.gasOwner) \in Account \cup {NoOne}
    BY <1>4, <2>1
  <2> QED
    BY <1>1, <1>2, <1>4, <2>2, DraftTyped
<1>7. sender' = sender /\ gasIntentOf' = gasIntentOf /\ Who' = Who
  <2>1. sender' = sender
    BY <1>1 DEF sender
  <2>2. gasIntentOf' = gasIntentOf
    BY <1>1, <1>5, <2>1 DEF gasIntentOf
  <2> QED
    BY <1>1, <2>1, <2>2 DEF Who
<1>8. /\ build'.pc = "expiring" /\ build'.bound = sessionBound /\ build'.shown = FALSE
      /\ build' \in Building
  <2>1. sessionBound \in 0..Unbounded /\ 0 \in 0..MaxResolves
    BY <1>2, SessionBound, ResolvesAtLeastOnce
  <2>2. NoBuild \in [pc : {"idle", "expiring"}, bound : {0}, attempt : {0},
           defaulted : BOOLEAN, paymentSet : BOOLEAN, explicitlyEmpty : BOOLEAN,
           simulated : BOOLEAN, own : BOOLEAN, shown : {FALSE}, failure : {"none"}]
    BY DEF NoBuild
  <2>3. (tx.expiration = Unsaid) \in BOOLEAN
    OBVIOUS
  <2>4. build'.pc = "expiring" /\ build'.bound = sessionBound /\ build'.shown = FALSE
    BY <1>1, <2>2
  <2>5. build' \in Building
    BY <1>1, <2>1, <2>2, <2>3, Tags DEF Building
  <2> QED
    BY <2>4, <2>5
<1>9. Typed'
  BY <1>1, <1>2, <1>3, <1>6, <1>8 DEF IInv, Typed, NetworkTypeOK, networkVars
<1>10. Named'
  BY <1>1, <1>5, <1>7 DEF Named
<1>11. \A p \in Who : Allowed(p)
  <2>1. \A i \in DOMAIN aliased : Allowed(aliased[i])
    <3>1. PICK n \in 0..2 : DOMAIN aliased = 1..n /\ Len(aliased) = n
      BY <1>2, AliasedAreTwo
    <3>2. \A i \in DOMAIN aliased : i <= run.read
      BY <1>1, <3>1
    <3> QED
      BY <1>1, <3>2 DEF IInv, Agreed
  <2>2. Allowed(ask.signer)
    BY <1>2, <2>1, AliasedAreTwo DEF Allowed
  <2>3. gasIntentOf # NoOne => Allowed(ask.sponsor)
    BY <1>2, <1>4, <2>1, AliasedAreTwo DEF Allowed
  <2> QED
    BY <2>2, <2>3 DEF Who
<1>12. Agreed'
  <2>1. \A p \in Who : Allowed(p)'
    BY <1>1, <1>11 DEF Allowed, allows, networkVars
  <2>2. \A p \in Who : Bounded(p)'
    BY <1>2, <1>8, SessionBound DEF Bounded
  <2>3. (\A p \in {ask.signer, ask.sponsor} : constructible(p))'
    BY <1>1, <1>2
  <2>4. (\A p \in Who : Allowed(p) /\ Bounded(p))'
    BY <1>7, <2>1, <2>2
  <2> QED
    BY <1>3, <1>10, <2>3, <2>4 DEF Agreed
<1>13. Timely'
  BY <1>5, <1>8 DEF IInv, Timely, Resolved
<1>14. Paid'
  <2>1. tx.payment = "reservation" =>
          payerOf(tx') = payerOf(tx) /\ (tx.reserved <= balance[payerOf(tx)] \/ "balance" \in moved)
    <3>1. tx.payment = "reservation" => tx'.sender = tx.sender /\ tx'.owner = tx.owner
      BY <1>5 DEF IInv, Paid, Named
    <3> QED
      BY <3>1 DEF IInv, Paid, payerOf
  <2>2. tx'.payment = "reservation" =>
          tx'.reserved <= balance'[payerOf(tx)'] \/ "balance" \in moved'
    BY <1>1, <1>5, <2>1 DEF networkVars, payerOf
  <2>3. build'.pc \notin Resolved
    BY <1>8 DEF Resolved
  <2> QED
    BY <1>8, <1>10, <2>2, <2>3 DEF Paid, Resolved
<1>15. Signing'
  BY <1>1, <1>2, <1>3 DEF Signing, Working
<1> QED
  BY <1>9, <1>12, <1>13, <1>14, <1>15 DEF IInv

-----------------------------------------------------------------------------
(* The build.                                                               *)

(* What is drawn depends on two names, a withdrawal and the balances.       *)
LEMMA DrawsStay ==
  ASSUME UNCHANGED balance, tx'.sender = tx.sender, tx'.owner = tx.owner,
         tx'.withdraws = tx.withdraws
  PROVE  /\ Covered(tx)' <=> Covered(tx)
         /\ payerOf(tx)' = payerOf(tx)
         /\ WithdrawnFrom(tx, payerOf(tx))' = WithdrawnFrom(tx, payerOf(tx))
<1>1. payerOf(tx)' = payerOf(tx)
  BY DEF payerOf
<1>2. ASSUME NEW a PROVE WithdrawnFrom(tx, a)' = WithdrawnFrom(tx, a)
  BY DEF WithdrawnFrom, payerOf
<1>3. Covered(tx)' <=> Covered(tx)
  BY <1>2 DEF Covered
<1>4. WithdrawnFrom(tx, payerOf(tx))' = WithdrawnFrom(tx, payerOf(tx))
  BY DEF WithdrawnFrom, payerOf
<1> QED
  BY <1>1, <1>3, <1>4

(* Within a build only the window and the payment are left to see.          *)
LEMMA BuildStays ==
  ASSUME IInv, run.pc = "building",
         UNCHANGED <<networkVars, config, ask, run, signatures>>,
         tx' \in Drafts, tx'.sender = tx.sender, tx'.owner = tx.owner,
         build' \in Building, build'.bound = build.bound,
         moved' = moved \/ moved' = moved \ {"epoch"}, Timely', Paid'
  PROVE  IInv'
<1>1. run.pc \in Working /\ run'.pc = "building"
  BY DEF Working
<1>2. Typed'
  BY DEF IInv, Typed, NetworkTypeOK, networkVars
<1>3. Agreed'
  BY <1>1, AgreedStays DEF IInv, networkVars
<1>4. signatures = <<>>
  BY <1>1 DEF IInv, Signing, Working
<1>5. Signing'
  BY <1>1, <1>4 DEF Signing, Working
<1> QED
  BY <1>2, <1>3, <1>5 DEF IInv

(* A build that fails leaves a draft.                                       *)
LEMMA BuildFails ==
  ASSUME IInv, run.pc = "building",
         UNCHANGED <<networkVars, config, ask, run, signatures>>,
         NEW tag \in Tag, Fails(tag),
         tx' \in Drafts, tx'.sender = tx.sender, tx'.owner = tx.owner,
         tx'.withdraws = tx.withdraws, tx'.expiration = tx.expiration,
         tx'.payment = "reservation" =>
           tx'.reserved <= balance[payerOf(tx)] \/ "balance" \in moved,
         moved' = moved \/ moved' = moved \ {"epoch"}
  PROVE  IInv'
<1>1. /\ build \in Building /\ run.pc \in Working
  BY DEF IInv, Typed, Working
<1>2. /\ build' \in Building /\ build'.bound = build.bound /\ build'.shown = build.shown
      /\ build'.pc = "failed"
  BY <1>1 DEF Fails, Building
<1>3. build'.pc \notin {"pinning"} \cup Resolved
  BY <1>2 DEF Resolved
<1>4. Timely'
  BY <1>3 DEF IInv, Timely
<1>5. /\ Covered(tx)' <=> Covered(tx)
      /\ payerOf(tx)' = payerOf(tx)
  BY DrawsStay DEF networkVars
<1>6. Named
  BY <1>1 DEF IInv, Agreed
<1>7. Named'
  BY <1>6 DEF Named, sender
<1>8. build.shown => Covered(tx) \/ "balance" \in moved
  BY <1>1 DEF IInv, Paid
<1>9. Paid'
  BY <1>2, <1>3, <1>5, <1>7, <1>8 DEF Paid, networkVars, Resolved
<1> QED
  BY <1>2, <1>4, <1>9, BuildStays

(* The epoch is read for a window, or for a bound; either is open.          *)
LEMMA Expiring ==
  ASSUME IInv, run.pc = "building", expire,
         UNCHANGED <<networkVars, ask, run, signatures>>,
         moved' = IF build.pc = "expiring" /\ build.defaulted THEN moved \ {"epoch"} ELSE moved
  PROVE  IInv'
<1>1. /\ build.pc = "expiring" /\ UNCHANGED <<config, run, networkVars>>
      /\ tx \in Drafts /\ build \in Building /\ config \in Config
      /\ epoch \in 0..MaxEpoch /\ build.bound \in 0..Unbounded
      /\ MaxEpoch \in Nat /\ Unbounded = MaxEpoch + 1
  BY BoundsAreNatural DEF expire, IInv, Typed, NetworkTypeOK, Building, Unbounded
<1>2. moved' = moved \/ moved' = moved \ {"epoch"}
  OBVIOUS
<1>3. CASE readsEpoch /\ ~sessionOpen(build.bound)
  <2>1. Fails("SigningError") /\ UNCHANGED tx
    BY <1>3 DEF expire
  <2>2. tx.payment = "reservation" => tx.reserved <= balance[payerOf(tx)] \/ "balance" \in moved
    BY DEF IInv, Paid
  <2> QED
    BY <1>1, <1>2, <2>1, <2>2, BuildFails, Tags
<1>4. CASE ~(readsEpoch /\ ~sessionOpen(build.bound))
  <2>1. /\ build' = [build EXCEPT !.pc = "pinning"]
        /\ tx' = IF build.defaulted
                 THEN [tx EXCEPT !.expiration = defaultExpiration(build.bound)] ELSE tx
    BY <1>4 DEF expire
  <2>2. /\ build' \in Building /\ build'.bound = build.bound /\ build'.shown = build.shown
        /\ build'.defaulted = build.defaulted /\ build'.pc = "pinning"
        /\ build.defaulted \in BOOLEAN
    BY <1>1, <2>1 DEF Building
  <2>3. epoch <= build.bound
    BY <1>1, <1>4 DEF readsEpoch, sessionOpen
  <2> DEFINE e == defaultExpiration(build.bound)
  <2>4. /\ e \in [kind : {"unset", "Epoch", "ValidDuring"},
                  from : 0..MaxEpoch, to : 0..(MaxEpoch + 1)]
        /\ e.kind = "ValidDuring" => e.to <= e.from + 1 /\ e.from <= epoch /\ epoch <= e.to
        /\ e.kind = "Epoch" => epoch <= e.to
        /\ config.expiration # "none" => e.kind # "unset" /\ e.to <= build.bound
    <3>1. CASE config.expiration = "none"
      <4>1. e = [kind |-> "unset", from |-> 0, to |-> 0]
        BY <3>1 DEF defaultExpiration, Unsaid
      <4> HIDE DEF e
      <4> QED
        BY <1>1, <3>1, <4>1
    <3>2. CASE config.expiration = "epoch"
      <4>1. e = [kind |-> "Epoch", from |-> 0, to |-> epoch]
        BY <3>2 DEF defaultExpiration, UntilEpoch
      <4> HIDE DEF e
      <4> QED
        BY <1>1, <2>3, <3>2, <4>1
    <3>3. CASE config.expiration = "validDuring"
      <4> DEFINE last == IF build.bound < epoch + 1 THEN build.bound ELSE epoch + 1
      <4>1. e = [kind |-> "ValidDuring", from |-> epoch, to |-> last]
        BY <3>3 DEF defaultExpiration, windowOf, ValidDuring
      <4>2. last \in 0..(MaxEpoch + 1) /\ last <= epoch + 1 /\ epoch <= last /\ last <= build.bound
        BY <1>1, <2>3
      <4> HIDE DEF e, last
      <4> QED
        BY <1>1, <3>3, <4>1, <4>2
    <3> QED
      BY <1>1, <3>1, <3>2, <3>3 DEF Config
  <2> HIDE DEF e
  <2>5. /\ tx' \in Drafts /\ tx'.sender = tx.sender /\ tx'.owner = tx.owner
        /\ tx'.withdraws = tx.withdraws /\ tx'.payment = tx.payment
        /\ tx'.reserved = tx.reserved /\ tx'.budget = tx.budget
        /\ tx'.expiration = IF build.defaulted THEN e ELSE tx.expiration
    BY <1>1, <2>1, <2>2, <2>4 DEF Drafts, e
  <2>6. Timely'
    <3>1. tx.expiration.kind = "ValidDuring" => tx.expiration.to <= tx.expiration.from + 1
      BY DEF IInv, Timely
    <3>2. tx'.expiration.kind = "ValidDuring" => tx'.expiration.to <= tx'.expiration.from + 1
      BY <1>1, <2>4, <2>5, <3>1
    <3>3. epoch' <= build'.bound
      BY <1>1, <2>2, <2>3 DEF networkVars
    <3>4. build'.defaulted => InWindow(tx)'
      BY <1>1, <2>2, <2>4, <2>5 DEF InWindow, networkVars
    <3>5. build'.defaulted /\ config'.expiration # "none" =>
            tx'.expiration.kind # "unset" /\ tx'.expiration.to <= build'.bound
      BY <1>1, <2>2, <2>4, <2>5
    <3> QED
      BY <3>2, <3>3, <3>4, <3>5 DEF Timely
  <2>7. Paid'
    <3>1. /\ Covered(tx)' <=> Covered(tx)
          /\ payerOf(tx)' = payerOf(tx)
      BY <1>1, <2>5, DrawsStay DEF networkVars
    <3>2. Named' <=> Named
      BY <2>5 DEF Named, sender
    <3>3. run.pc \in Working /\ build'.pc \notin Resolved
      BY <2>2 DEF Working, Resolved
    <3> QED
      BY <1>1, <2>2, <2>5, <3>1, <3>2, <3>3 DEF IInv, Paid, networkVars, Resolved
  <2> QED
    BY <1>1, <1>2, <2>2, <2>5, <2>6, <2>7, BuildStays
<1> QED
  BY <1>3, <1>4

(* The epoch cannot be read, or the nonce is no number.                     *)
LEMMA ExpireFailing ==
  ASSUME IInv, run.pc = "building", expireFails,
         UNCHANGED <<networkVars, ask, run, signatures>>,
         moved' = IF build.pc = "expiring" /\ build.defaulted THEN moved \ {"epoch"} ELSE moved
  PROVE  IInv'
<1>1. /\ UNCHANGED <<tx, config>> /\ tx \in Drafts
      /\ \E tag \in {"TransportError", "BuildError"} : Fails(tag)
  BY DEF expireFails, IInv, Typed
<1>2. tx.payment = "reservation" => tx.reserved <= balance[payerOf(tx)] \/ "balance" \in moved
  BY DEF IInv, Paid
<1> QED
  BY <1>1, <1>2, BuildFails, Tags

(* The gas policy pins the payment, or leaves it.                           *)
LEMMA Pinning ==
  ASSUME IInv, run.pc = "building", pin,
         UNCHANGED <<networkVars, ask, run, signatures, moved>>
  PROVE  IInv'
<1>1. /\ build.pc = "pinning" /\ UNCHANGED <<config, run, networkVars, moved>>
      /\ tx \in Drafts /\ build \in Building /\ run.pc \in Working
      /\ build' = [build EXCEPT !.pc = "resolving", !.attempt = 1,
                            !.paymentSet = tx.payment # "unset",
                            !.explicitlyEmpty = pinnedByPolicy \/ tx.payment = "empty"]
      /\ tx' = IF pinnedByPolicy THEN [tx EXCEPT !.payment = "empty"] ELSE tx
  BY DEF pin, IInv, Typed, Working
<1>2. /\ (tx.payment # "unset") \in BOOLEAN /\ (pinnedByPolicy \/ tx.payment = "empty") \in BOOLEAN
      /\ 1 \in 0..MaxResolves
  BY ResolvesAtLeastOnce
<1>3. /\ build' \in Building /\ build'.bound = build.bound /\ build'.shown = build.shown
      /\ build'.defaulted = build.defaulted /\ build'.pc = "resolving"
  BY <1>1, <1>2 DEF Building, Resolved
<1>4. build'.explicitlyEmpty <=> pinnedByPolicy \/ tx.payment = "empty"
  BY <1>1 DEF Building
<1>5. /\ tx' \in Drafts /\ tx'.sender = tx.sender /\ tx'.owner = tx.owner
      /\ tx'.withdraws = tx.withdraws /\ tx'.expiration = tx.expiration
      /\ tx'.reserved = tx.reserved
      /\ pinnedByPolicy \/ tx'.payment = tx.payment
      /\ pinnedByPolicy => tx'.payment = "empty"
  BY <1>1 DEF Drafts
<1>6. Timely'
  <2>1. InWindow(tx)' <=> InWindow(tx)
    BY <1>1, <1>5 DEF InWindow, networkVars
  <2> QED
    BY <1>1, <1>3, <1>5, <2>1 DEF IInv, Timely, networkVars
<1>7. Paid'
  <2>1. /\ Covered(tx)' <=> Covered(tx)
        /\ payerOf(tx)' = payerOf(tx)
    BY <1>1, <1>5, DrawsStay DEF networkVars
  <2>2. Named' <=> Named
    BY <1>5 DEF Named, sender
  <2>3. tx'.payment = "reservation" => tx.payment = "reservation"
    BY <1>5
  <2>4. tx'.payment = "empty" => build'.explicitlyEmpty
    BY <1>4, <1>5
  <2> QED
    BY <1>1, <1>3, <1>5, <2>1, <2>2, <2>3, <2>4 DEF IInv, Paid, networkVars
<1> QED
  BY <1>1, <1>3, <1>5, <1>6, <1>7, BuildStays

-----------------------------------------------------------------------------
(* The resolver.                                                            *)

(* The payer of a draft's gas is an account, and has a balance.             *)
LEMMA PayerTyped ==
  ASSUME NEW t \in Drafts, NetworkTypeOK
  PROVE  /\ payerOf(t) \in Account /\ balance[payerOf(t)] \in 0..MaxBalance
         /\ balance[payerOf(t)] \in Nat /\ WithdrawnFrom(t, payerOf(t)) \in {0, 1}
<1>1. payerOf(t) \in Account
  BY DEF payerOf, Drafts
<1>2. balance[payerOf(t)] \in 0..MaxBalance
  BY <1>1 DEF NetworkTypeOK
<1>3. WithdrawnFrom(t, payerOf(t)) \in {0, 1}
  BY DEF WithdrawnFrom
<1> QED
  BY <1>1, <1>2, <1>3, BoundsAreNatural

(* The inputs are resolved and nothing else.                                *)
LEMMA Inputs ==
  ASSUME NEW t \in Drafts
  PROVE  /\ withInputs(t) \in Drafts
         /\ withInputs(t).sender = t.sender /\ withInputs(t).owner = t.owner
         /\ withInputs(t).withdraws = t.withdraws /\ withInputs(t).expiration = t.expiration
         /\ withInputs(t).payment = t.payment /\ withInputs(t).reserved = t.reserved
         /\ withInputs(t).budget = t.budget
BY DEF withInputs, Drafts

(* A budget is set where there was none.                                    *)
LEMMA Budgeted ==
  ASSUME NEW t \in Drafts, NEW b \in Budgets(t)
  PROVE  /\ withBudget(t, b) \in Drafts
         /\ withBudget(t, b).sender = t.sender /\ withBudget(t, b).owner = t.owner
         /\ withBudget(t, b).withdraws = t.withdraws
         /\ withBudget(t, b).expiration = t.expiration
         /\ withBudget(t, b).payment = t.payment /\ withBudget(t, b).reserved = t.reserved
         /\ withBudget(t, b).budget \in Nat
         /\ t.budget # Unset => withBudget(t, b).budget = t.budget
<1>1. b \in 0..(MAX_GAS_BUDGET + NodeBudget) /\ MAX_GAS_BUDGET + NodeBudget \in Nat
  BY BudgetsAreMist DEF Budgets
<1>2. {Unset, 0} \cup 1..(MAX_GAS_BUDGET + NodeBudget) =
        {Unset} \cup 0..(MAX_GAS_BUDGET + NodeBudget)
  BY <1>1
<1>3. t.budget \in {Unset} \cup 0..(MAX_GAS_BUDGET + NodeBudget)
  BY <1>2 DEF Drafts
<1> DEFINE budget == IF t.budget = Unset THEN b ELSE t.budget
<1>4. budget \in 0..(MAX_GAS_BUDGET + NodeBudget)
  BY <1>1, <1>3
<1>5. budget \in Nat /\ budget \in {Unset, 0} \cup 1..(MAX_GAS_BUDGET + NodeBudget)
  BY <1>1, <1>2, <1>4
<1>6. withBudget(t, b) = [t EXCEPT !.price = TRUE, !.budget = budget]
  BY DEF withBudget
<1>7. t.budget # Unset => budget = t.budget
  OBVIOUS
<1> HIDE DEF budget
<1> QED
  BY <1>5, <1>6, <1>7 DEF Drafts

(* A payment is chosen where there was none: a reservation is of the whole  *)
(* balance, an address balance is worth the budget.                         *)
LEMMA PaidFor ==
  ASSUME NEW t \in Drafts, t.budget \in Nat, NetworkTypeOK
  PROVE  /\ withPayment(t) \in Drafts
         /\ withPayment(t).sender = t.sender /\ withPayment(t).owner = t.owner
         /\ withPayment(t).withdraws = t.withdraws
         /\ withPayment(t).expiration = t.expiration /\ withPayment(t).budget = t.budget
         /\ t.payment # "unset" => withPayment(t) = t
         /\ t.payment = "unset" =>
              /\ withPayment(t).payment = "reservation" =>
                   withPayment(t).reserved <= balance[payerOf(t)]
              /\ withPayment(t).payment = "empty" =>
                   t.budget + WithdrawnFrom(t, payerOf(t)) <= balance[payerOf(t)]
<1>1. /\ payerOf(t) \in Account /\ balance[payerOf(t)] \in 0..MaxBalance
      /\ balance[payerOf(t)] \in Nat /\ WithdrawnFrom(t, payerOf(t)) \in {0, 1}
  BY PayerTyped
<1>2. CASE t.payment # "unset"
  BY <1>2 DEF withPayment
<1>3. CASE t.payment = "unset" /\ t.gas = "yes" /\ balance[payerOf(t)] > 0
  <2>1. PICK r \in 0..MaxBalance : r = balance[payerOf(t)] /\ r <= balance[payerOf(t)]
    BY <1>1
  <2>2. withPayment(t) = [t EXCEPT !.payment = "reservation", !.reserved = r]
    BY <1>3, <2>1 DEF withPayment
  <2>3. /\ withPayment(t) \in Drafts /\ withPayment(t).reserved = r
        /\ withPayment(t).sender = t.sender /\ withPayment(t).owner = t.owner
        /\ withPayment(t).withdraws = t.withdraws
        /\ withPayment(t).expiration = t.expiration /\ withPayment(t).budget = t.budget
        /\ withPayment(t).payment = "reservation"
    BY <2>2 DEF Drafts
  <2> QED
    BY <1>3, <2>1, <2>3
<1>4. CASE t.payment = "unset" /\ ~ (t.gas = "yes" /\ balance[payerOf(t)] > 0)
  <2> DEFINE covered == balance[payerOf(t)] >= t.budget + WithdrawnFrom(t, payerOf(t))
             payment == IF t.gas = "no" /\ covered THEN "empty" ELSE "coins"
  <2>1. withPayment(t) = [t EXCEPT !.payment = payment]
    BY <1>4 DEF withPayment
  <2>2. /\ payment \in {"empty", "coins"}
        /\ payment = "empty" =>
             t.budget + WithdrawnFrom(t, payerOf(t)) <= balance[payerOf(t)]
    BY <1>1
  <2> HIDE DEF payment
  <2> QED
    BY <1>4, <2>1, <2>2 DEF Drafts
<1> QED
  BY <1>2, <1>3, <1>4

(* A window of two epochs is set where a payment asks for one.              *)
LEMMA Windowed ==
  ASSUME NEW t \in Drafts, NetworkTypeOK
  PROVE  /\ withWindow(t) \in Drafts
         /\ withWindow(t).sender = t.sender /\ withWindow(t).owner = t.owner
         /\ withWindow(t).withdraws = t.withdraws /\ withWindow(t).budget = t.budget
         /\ withWindow(t).payment = t.payment /\ withWindow(t).reserved = t.reserved
         /\ \/ withWindow(t).expiration = t.expiration
            \/ /\ t.expiration = Unsaid
               /\ withWindow(t).expiration = ValidDuring(epoch, epoch + 1)
<1>1. ValidDuring(epoch, epoch + 1) \in [kind : {"unset", "none", "Epoch", "ValidDuring"},
                                         from : 0..MaxEpoch, to : 0..(MaxEpoch + 1)]
  BY BoundsAreNatural DEF NetworkTypeOK, ValidDuring
<1>2. CASE t.payment = "empty" /\ t.expiration = Unsaid
  <2>1. withWindow(t) = [t EXCEPT !.expiration = ValidDuring(epoch, epoch + 1)]
    BY <1>2 DEF withWindow
  <2> QED
    BY <1>1, <1>2, <2>1 DEF Drafts
<1>3. CASE ~ (t.payment = "empty" /\ t.expiration = Unsaid)
  BY <1>3 DEF withWindow
<1> QED
  BY <1>2, <1>3

(* A draft as the resolver leaves it, half way or done: the same parties    *)
(* and withdrawals, the payment as it was, or one that the payer's balance  *)
(* was good for.                                                            *)
Follows(t) ==
  /\ t \in Drafts /\ t.sender = tx.sender /\ t.owner = tx.owner /\ t.withdraws = tx.withdraws
  /\ \/ /\ t.payment = tx.payment /\ t.reserved = tx.reserved
        /\ tx.budget # Unset => t.budget = tx.budget
     \/ /\ tx.payment = "unset"
        /\ t.payment = "reservation" => t.reserved <= balance[payerOf(tx)]
        /\ t.payment = "empty" =>
             /\ t.budget \in Nat
             /\ t.budget + WithdrawnFrom(tx, payerOf(tx)) <= balance[payerOf(tx)]

(* A draft's parties and withdrawals say who pays, and what is drawn.       *)
LEMMA SamePayer ==
  ASSUME NEW t, t.sender = tx.sender, t.owner = tx.owner, t.withdraws = tx.withdraws
  PROVE  /\ payerOf(t) = payerOf(tx)
         /\ WithdrawnFrom(t, payerOf(t)) = WithdrawnFrom(tx, payerOf(tx))
<1>1. payerOf(t) = payerOf(tx)
  BY DEF payerOf
<1> QED
  BY <1>1 DEF WithdrawnFrom

(* Every stage of the resolver follows the draft it began with.             *)
LEMMA Stages ==
  ASSUME NetworkTypeOK, tx \in Drafts
  PROVE  /\ Follows(tx)
         /\ Follows(withInputs(tx)) /\ withInputs(tx).expiration = tx.expiration
         /\ \A b \in Budgets(tx) :
              LET p == withBudget(withInputs(tx), b)
              IN /\ Follows(p) /\ p.expiration = tx.expiration
                 /\ Follows(withPayment(p)) /\ withPayment(p).expiration = tx.expiration
                 /\ Follows(Resolution(tx, b))
                 /\ \/ Resolution(tx, b).expiration = tx.expiration
                    \/ /\ tx.expiration = Unsaid
                       /\ Resolution(tx, b).expiration = ValidDuring(epoch, epoch + 1)
<1>1. Follows(tx)
  BY DEF Follows
<1> DEFINE i == withInputs(tx)
<1>2. /\ i \in Drafts /\ i.sender = tx.sender /\ i.owner = tx.owner
      /\ i.withdraws = tx.withdraws /\ i.expiration = tx.expiration
      /\ i.payment = tx.payment /\ i.reserved = tx.reserved /\ i.budget = tx.budget
  BY Inputs
<1>3. \A b : b \in Budgets(tx) => b \in Budgets(i)
  BY DEF Budgets, withInputs, Drafts
<1> HIDE DEF i
<1>4. Follows(i)
  BY <1>2 DEF Follows
<1>5. ASSUME NEW b \in Budgets(tx)
      PROVE  LET p == withBudget(i, b)
             IN /\ Follows(p) /\ p.expiration = tx.expiration
                /\ Follows(withPayment(p)) /\ withPayment(p).expiration = tx.expiration
                /\ Follows(withWindow(withPayment(p)))
                /\ \/ withWindow(withPayment(p)).expiration = tx.expiration
                   \/ /\ tx.expiration = Unsaid
                      /\ withWindow(withPayment(p)).expiration = ValidDuring(epoch, epoch + 1)
  <2> DEFINE p == withBudget(i, b)
             q == withPayment(p)
             r == withWindow(q)
  <2>1. /\ p \in Drafts /\ p.sender = tx.sender /\ p.owner = tx.owner
        /\ p.withdraws = tx.withdraws /\ p.expiration = tx.expiration
        /\ p.payment = tx.payment /\ p.reserved = tx.reserved
        /\ p.budget \in Nat /\ (tx.budget # Unset => p.budget = tx.budget)
    BY <1>2, <1>3, Budgeted
  <2> HIDE DEF p
  <2>2. /\ payerOf(p) = payerOf(tx)
        /\ WithdrawnFrom(p, payerOf(p)) = WithdrawnFrom(tx, payerOf(tx))
    BY <2>1, SamePayer
  <2>3. /\ q \in Drafts /\ q.sender = tx.sender /\ q.owner = tx.owner
        /\ q.withdraws = tx.withdraws /\ q.expiration = tx.expiration /\ q.budget = p.budget
        /\ p.payment # "unset" => q = p
        /\ p.payment = "unset" =>
             /\ q.payment = "reservation" => q.reserved <= balance[payerOf(p)]
             /\ q.payment = "empty" =>
                  p.budget + WithdrawnFrom(p, payerOf(p)) <= balance[payerOf(p)]
    BY <2>1, PaidFor
  <2> HIDE DEF q
  <2>4. /\ r \in Drafts /\ r.sender = tx.sender /\ r.owner = tx.owner
        /\ r.withdraws = tx.withdraws /\ r.budget = q.budget
        /\ r.payment = q.payment /\ r.reserved = q.reserved
        /\ \/ r.expiration = q.expiration
           \/ q.expiration = Unsaid /\ r.expiration = ValidDuring(epoch, epoch + 1)
    BY <2>3, Windowed
  <2> HIDE DEF r
  <2>5. Follows(p)
    BY <2>1 DEF Follows
  <2>6. Follows(q)
    <3>1. CASE tx.payment # "unset"
      BY <2>1, <2>3, <2>5, <3>1
    <3>2. CASE tx.payment = "unset"
      BY <2>1, <2>2, <2>3, <3>2 DEF Follows
    <3> QED
      BY <3>1, <3>2
  <2>7. Follows(r)
    BY <2>4, <2>6 DEF Follows
  <2>8. \/ r.expiration = tx.expiration
        \/ tx.expiration = Unsaid /\ r.expiration = ValidDuring(epoch, epoch + 1)
    BY <2>3, <2>4
  <2> QED
    BY <2>1, <2>3, <2>5, <2>6, <2>7, <2>8 DEF p, q, r
<1> QED
  BY <1>1, <1>2, <1>4, <1>5 DEF i, Resolution

(* What an attempt that failed left follows the draft, its window the same. *)
LEMMA LeftHalfway ==
  ASSUME NetworkTypeOK, tx \in Drafts, NEW t \in Halfway(tx)
  PROVE  Follows(t) /\ t.expiration = tx.expiration
<1>1. \/ t = tx \/ t = withInputs(tx)
      \/ \E b \in Budgets(tx) : \/ t = withBudget(withInputs(tx), b)
                                \/ t = withPayment(withBudget(withInputs(tx), b))
  BY DEF Halfway
<1> QED
  BY <1>1, Stages

(* The resolver goes on over a draft that follows.                          *)
LEMMA PaidFollows ==
  ASSUME IInv, run.pc = "building", build.pc = "resolving",
         UNCHANGED <<networkVars, config, ask, run, moved>>, Follows(tx'),
         build'.bound = build.bound, build'.explicitlyEmpty = build.explicitlyEmpty,
         build'.shown => build.shown \/ Covered(tx), build'.pc \in {"resolving", "simulating", "checking"},
         build'.pc = "checking" => build'.shown
  PROVE  Paid'
<1>1. run.pc \in Working /\ tx \in Drafts /\ build.pc \in Resolved
  BY DEF IInv, Typed, Working, Resolved
<1>2. /\ tx'.sender = tx.sender /\ tx'.owner = tx.owner /\ tx'.withdraws = tx.withdraws
  BY DEF Follows
<1>3. /\ Covered(tx)' <=> Covered(tx)
      /\ payerOf(tx)' = payerOf(tx)
      /\ WithdrawnFrom(tx, payerOf(tx))' = WithdrawnFrom(tx, payerOf(tx))
  BY <1>2, DrawsStay DEF networkVars
<1>4. Named
  BY <1>1 DEF IInv, Agreed
<1>5. Named'
  BY <1>2, <1>4 DEF Named, sender
<1>6. tx'.payment = "reservation" => tx'.reserved <= balance[payerOf(tx)] \/ "balance" \in moved
  BY DEF IInv, Paid, Follows
<1>7. tx'.payment = "empty" /\ ~build'.explicitlyEmpty => Pays' \/ "balance" \in moved
  <2>1. SUFFICES ASSUME tx'.payment = "empty", ~build.explicitlyEmpty, "balance" \notin moved
                 PROVE  Pays'
    OBVIOUS
  <2>2. CASE tx.payment = "unset"
    BY <1>3, <2>1, <2>2 DEF Follows, Pays, networkVars
  <2>3. CASE tx.payment # "unset"
    <3>1. tx.payment = "empty" /\ (tx.budget # Unset => tx'.budget = tx.budget)
      BY <2>1, <2>3 DEF Follows
    <3>2. Pays
      BY <1>1, <2>1, <3>1 DEF IInv, Paid
    <3>3. tx.budget # Unset
      BY <3>2 DEF Pays, Unset
    <3> QED
      BY <1>3, <3>1, <3>2, <3>3 DEF Pays, networkVars
  <2> QED
    BY <2>2, <2>3
<1>8. build.shown => Covered(tx) \/ "balance" \in moved
  BY <1>1 DEF IInv, Paid
<1> QED
  BY <1>1, <1>3, <1>5, <1>6, <1>7, <1>8 DEF Paid, networkVars

(* The resolver keeps the window, or sets one where there was none.         *)
LEMMA TimelyFollows ==
  ASSUME IInv, run.pc = "building", build.pc \in Resolved,
         UNCHANGED <<networkVars, config, run, moved>>,
         build'.bound = build.bound, build'.defaulted = build.defaulted,
         \/ tx'.expiration = tx.expiration
         \/ tx.expiration = Unsaid /\ tx'.expiration = ValidDuring(epoch, epoch + 1)
  PROVE  Timely'
<1>1. /\ run.pc \in Working /\ epoch \in 0..MaxEpoch /\ MaxEpoch \in Nat
  BY BoundsAreNatural DEF IInv, Typed, NetworkTypeOK, Working
<1>2. /\ tx.expiration.kind = "ValidDuring" => tx.expiration.to <= tx.expiration.from + 1
      /\ epoch <= build.bound \/ "epoch" \in moved
      /\ build.defaulted => InWindow(tx) \/ "epoch" \in moved
      /\ build.defaulted /\ config.expiration # "none" =>
           tx.expiration.kind # "unset" /\ tx.expiration.to <= build.bound
  BY <1>1 DEF IInv, Timely
<1>3. CASE tx'.expiration = tx.expiration
  <2>1. InWindow(tx)' <=> InWindow(tx)
    BY <1>3 DEF InWindow, networkVars
  <2> QED
    BY <1>2, <1>3, <2>1 DEF Timely, networkVars
<1>4. CASE tx.expiration = Unsaid /\ tx'.expiration = ValidDuring(epoch, epoch + 1)
  <2>1. /\ tx.expiration.kind = "unset" /\ tx'.expiration.kind = "ValidDuring"
        /\ tx'.expiration.from = epoch /\ tx'.expiration.to = epoch + 1
    BY <1>4 DEF Unsaid, ValidDuring
  <2>2. InWindow(tx)'
    BY <1>1, <2>1 DEF InWindow, networkVars
  <2>3. ~ (build.defaulted /\ config.expiration # "none")
    BY <1>2, <2>1
  <2>4. tx'.expiration.to <= tx'.expiration.from + 1
    BY <1>1, <2>1
  <2> QED
    BY <1>2, <2>2, <2>3, <2>4 DEF Timely, networkVars
<1> QED
  BY <1>3, <1>4

(* The resolve succeeds.                                                    *)
LEMMA Resolving ==
  ASSUME IInv, run.pc = "building", resolved,
         UNCHANGED <<networkVars, ask, run, signatures, moved>>
  PROVE  IInv'
<1>1. /\ build.pc = "resolving" /\ UNCHANGED config /\ (Simulates(tx) => Executes(tx))
      /\ NetworkTypeOK /\ tx \in Drafts /\ build \in Building /\ build.pc \in Resolved
  BY DEF resolved, IInv, Typed, Resolved
<1>2. PICK b \in Budgets(tx) :
        LET done == IF willResolve(tx) THEN Resolution(tx, b) ELSE tx
        IN /\ tx' = done
           /\ IF tx.gasless = "required" /\ done.budget # 0 THEN Fails("BuildError")
              ELSE build' = [build EXCEPT
                     !.pc = IF simulatedNow THEN "checking" ELSE "simulating",
                     !.simulated = simulatedNow, !.shown = Simulates(tx)]
  BY DEF resolved
<1>3. /\ Follows(tx')
      /\ \/ tx'.expiration = tx.expiration
         \/ tx.expiration = Unsaid /\ tx'.expiration = ValidDuring(epoch, epoch + 1)
  BY <1>1, <1>2, Stages
<1>4. tx' \in Drafts /\ tx'.sender = tx.sender /\ tx'.owner = tx.owner
  BY <1>3 DEF Follows
<1>5. CASE Fails("BuildError")
  <2>1. build' \in Building /\ build'.pc = "failed" /\ build'.bound = build.bound
        /\ build'.defaulted = build.defaulted /\ build'.shown = build.shown
    BY <1>1, <1>5, Tags DEF Fails, Building
  <2>2. Timely'
    BY <1>1, <1>3, <2>1, TimelyFollows
  <2>3. Paid'
    <3>1. build' = [build EXCEPT !.pc = "failed", !.failure = "BuildError"]
      BY <1>5 DEF Fails
    <3>2. /\ Covered(tx)' <=> Covered(tx)
          /\ payerOf(tx)' = payerOf(tx)
      BY <1>3, DrawsStay DEF Follows, networkVars
    <3>3. run.pc \in Working /\ build'.pc \notin Resolved
      BY <2>1 DEF Working, Resolved
    <3>4. Named
      BY <3>3 DEF IInv, Agreed
    <3>5. Named'
      BY <1>4, <3>4 DEF Named, sender
    <3>6. tx'.payment = "reservation" =>
            tx'.reserved <= balance[payerOf(tx)] \/ "balance" \in moved
      BY <1>3 DEF IInv, Paid, Follows
    <3>7. build.shown => Covered(tx) \/ "balance" \in moved
      BY <3>3 DEF IInv, Paid
    <3> QED
      BY <2>1, <3>2, <3>3, <3>5, <3>6, <3>7 DEF Paid, networkVars, Resolved
  <2> QED
    BY <1>1, <1>4, <2>1, <2>2, <2>3, BuildStays
<1>6. CASE build' = [build EXCEPT !.pc = IF simulatedNow THEN "checking" ELSE "simulating",
                     !.simulated = simulatedNow, !.shown = Simulates(tx)]
  <2>1. simulatedNow <=> Simulates(tx)
    BY DEF simulatedNow, sdkSimulates, Simulates
  <2>2. simulatedNow \in BOOLEAN /\ Simulates(tx) \in BOOLEAN
    BY DEF simulatedNow, sdkSimulates, Simulates
  <2>3. PICK s \in BOOLEAN, x \in BOOLEAN : s = simulatedNow /\ x = Simulates(tx)
    BY <2>2
  <2>4. /\ build' \in Building /\ build'.bound = build.bound
        /\ build'.defaulted = build.defaulted
        /\ build'.explicitlyEmpty = build.explicitlyEmpty
        /\ build'.shown = Simulates(tx)
        /\ build'.pc = IF simulatedNow THEN "checking" ELSE "simulating"
    BY <1>1, <1>6, <2>3 DEF Building, Resolved
  <2>5. Timely'
    BY <1>1, <1>3, <2>4, TimelyFollows
  <2>6. build'.shown => Covered(tx)
    BY <1>1, <2>4 DEF Executes
  <2>7. Paid'
    BY <1>1, <1>3, <2>1, <2>4, <2>6, PaidFollows
  <2> QED
    BY <1>1, <1>4, <2>4, <2>5, <2>7, BuildStays
<1> QED
  BY <1>2, <1>5, <1>6

(* Or it fails for good.                                                    *)
LEMMA ResolveFailing ==
  ASSUME IInv, run.pc = "building", resolveFails,
         UNCHANGED <<networkVars, ask, run, signatures, moved>>
  PROVE  IInv'
<1>1. /\ UNCHANGED <<tx, config>> /\ tx \in Drafts
      /\ \E tag \in {"SimulationFailed", "BuildError", "TransportError"} : Fails(tag)
  BY DEF resolveFails, resolverError, IInv, Typed
<1>2. tx.payment = "reservation" => tx.reserved <= balance[payerOf(tx)] \/ "balance" \in moved
  BY DEF IInv, Paid
<1> QED
  BY <1>1, <1>2, BuildFails, Tags

(* Or it is tried again over what it left.                                  *)
LEMMA ResolvingAgain ==
  ASSUME IInv, run.pc = "building", resolveAgain,
         UNCHANGED <<networkVars, ask, run, signatures, moved>>
  PROVE  IInv'
<1>1. /\ build.pc = "resolving" /\ UNCHANGED config /\ tx' \in Halfway(tx)
      /\ NetworkTypeOK /\ tx \in Drafts /\ build \in Building /\ build.pc \in Resolved
      /\ IF attemptsLeft
         THEN build' = [build EXCEPT !.attempt = @ + 1, !.simulated = simulatedNow]
         ELSE Fails("TransportError")
  BY DEF resolveAgain, IInv, Typed, Resolved
<1>2. Follows(tx') /\ tx'.expiration = tx.expiration
  BY <1>1, LeftHalfway
<1>3. /\ tx' \in Drafts /\ tx'.sender = tx.sender /\ tx'.owner = tx.owner
      /\ tx'.withdraws = tx.withdraws
  BY <1>2 DEF Follows
<1>4. CASE attemptsLeft
  <2>1. PICK s \in BOOLEAN : s = simulatedNow
    BY DEF simulatedNow, sdkSimulates
  <2>2. build' = [build EXCEPT !.attempt = @ + 1, !.simulated = s]
    BY <1>1, <1>4, <2>1
  <2>3. build.attempt + 1 \in 0..MaxResolves
    BY <1>1, <1>4, ResolvesAtLeastOnce DEF attemptsLeft, Building
  <2>4. /\ build' \in Building /\ build'.bound = build.bound
        /\ build'.defaulted = build.defaulted
        /\ build'.explicitlyEmpty = build.explicitlyEmpty
        /\ build'.shown = build.shown /\ build'.pc = "resolving"
    BY <1>1, <2>2, <2>3 DEF Building
  <2>5. Timely'
    BY <1>1, <1>2, <2>4, TimelyFollows
  <2>6. Paid'
    BY <1>1, <1>2, <2>4, PaidFollows
  <2> QED
    BY <1>1, <1>3, <2>4, <2>5, <2>6, BuildStays
<1>5. CASE ~attemptsLeft
  <2>1. Fails("TransportError")
    BY <1>1, <1>5
  <2>2. tx'.payment = "reservation" =>
          tx'.reserved <= balance[payerOf(tx)] \/ "balance" \in moved
    BY <1>2 DEF IInv, Paid, Follows
  <2> QED
    BY <1>1, <1>2, <1>3, <2>1, <2>2, BuildFails, Tags
<1> QED
  BY <1>4, <1>5

-----------------------------------------------------------------------------
(* The bytes are shown to execute, and checked.                             *)

(* A check that passes leaves the draft and how the build began.            *)
LEMMA ChecksGoOn ==
  ASSUME IInv, run.pc = "building", build.pc \in {"simulating", "checking", "balance"},
         UNCHANGED <<networkVars, tx, config, ask, run, signatures, moved>>,
         build' \in Building, build'.bound = build.bound,
         build'.defaulted = build.defaulted,
         build'.explicitlyEmpty = build.explicitlyEmpty,
         build'.pc \in {"checking", "balance", "built"}, build'.shown,
         build.shown \/ Covered(tx),
         build'.pc \in {"balance", "built"} /\ tx.payment = "empty" =>
            tx.gas # "yes" /\ (tx.owned \/ tx.expiration.kind = "ValidDuring"),
         build'.pc = "built" /\ tx.payment = "empty" /\ tx.budget > 0 =>
            Pays \/ "balance" \in moved
  PROVE  IInv'
<1>1. run.pc \in Working /\ build.pc \in Resolved /\ tx \in Drafts
  BY DEF Working, Resolved, IInv, Typed
<1>2. Timely'
  BY <1>1, TimelyFollows
<1>3. /\ Covered(tx)' <=> Covered(tx)
      /\ Pays' <=> Pays
      /\ (tx.reserved <= balance[payerOf(tx)])' <=> (tx.reserved <= balance[payerOf(tx)])
  BY WorldStays DEF networkVars
<1>4. Named' <=> Named
  BY DEF Named, sender
<1>5. Covered(tx) \/ "balance" \in moved
  BY <1>1 DEF IInv, Paid
<1>6. tx.payment = "empty" /\ ~build.explicitlyEmpty => Pays \/ "balance" \in moved
  BY <1>1 DEF IInv, Paid
<1>7. Paid'
  BY <1>3, <1>4, <1>5, <1>6 DEF IInv, Paid
<1> QED
  BY <1>1, <1>2, <1>7, BuildStays

(* A check that does not pass fails the build.                              *)
LEMMA ChecksFail ==
  ASSUME IInv, run.pc = "building", NEW tag \in Tag, Fails(tag),
         UNCHANGED <<networkVars, tx, config, ask, run, signatures, moved>>
  PROVE  IInv'
<1>1. tx.payment = "reservation" => tx.reserved <= balance[payerOf(tx)] \/ "balance" \in moved
  BY DEF IInv, Paid
<1>2. tx \in Drafts
  BY DEF IInv, Typed
<1> QED
  BY <1>1, <1>2, BuildFails

(* The build's own simulation of what the resolver did not show.            *)
LEMMA Simulating ==
  ASSUME IInv, run.pc = "building", simulated,
         UNCHANGED <<networkVars, ask, run, signatures, moved>>
  PROVE  IInv'
<1>1. build.pc = "simulating" /\ UNCHANGED <<tx, config>> /\ build \in Building
  BY DEF simulated, IInv, Typed
<1>2. CASE \E tag \in {"SimulationFailed", "BuildError", "TransportError"} : Fails(tag)
  BY <1>1, <1>2, ChecksFail, Tags
<1>3. CASE Executes(tx) /\ build' = [build EXCEPT !.pc = "checking", !.own = TRUE, !.shown = TRUE]
  <2>1. /\ build' \in Building /\ build'.bound = build.bound
        /\ build'.defaulted = build.defaulted /\ build'.shown
        /\ build'.explicitlyEmpty = build.explicitlyEmpty /\ build'.pc = "checking"
    BY <1>1, <1>3 DEF Building, Resolved
  <2>2. Covered(tx)
    BY <1>3 DEF Executes
  <2> QED
    BY <1>1, <2>1, <2>2, ChecksGoOn
<1> QED
  BY <1>2, <1>3 DEF simulated

(* The budget, the payment and the window are what they may be.             *)
LEMMA Checking ==
  ASSUME IInv, run.pc = "building", checked,
         UNCHANGED <<networkVars, ask, run, signatures, moved>>
  PROVE  IInv'
<1>1. /\ build.pc = "checking" /\ UNCHANGED <<tx, config>> /\ build \in Building
      /\ run.pc \in Working
  BY DEF checked, IInv, Typed, Working
<1>2. CASE \E tag \in {"PolicyDenied", "BuildError"} : Fails(tag)
  BY <1>1, <1>2, ChecksFail, Tags
<1>3. CASE /\ acceptable
           /\ build' = [build EXCEPT
                !.pc = IF build.explicitlyEmpty /\ tx.budget > 0 THEN "balance" ELSE "built"]
  <2>1. /\ build' \in Building /\ build'.bound = build.bound
        /\ build'.defaulted = build.defaulted /\ build'.shown = build.shown
        /\ build'.explicitlyEmpty = build.explicitlyEmpty
        /\ build'.pc = IF build.explicitlyEmpty /\ tx.budget > 0 THEN "balance" ELSE "built"
    BY <1>1, <1>3 DEF Building, Resolved
  <2>2. build.shown
    BY <1>1 DEF IInv, Paid
  <2>3. tx.payment = "empty" =>
          tx.gas # "yes" /\ (tx.owned \/ tx.expiration.kind = "ValidDuring")
    BY <1>3 DEF acceptable, gasCoinRefused, windowRefused, usesGasCoin
  <2>4. build'.pc = "built" /\ tx.payment = "empty" /\ tx.budget > 0 =>
          Pays \/ "balance" \in moved
    BY <1>1, <2>1 DEF IInv, Paid, Resolved
  <2> QED
    BY <1>1, <2>1, <2>2, <2>3, <2>4, ChecksGoOn
<1> QED
  BY <1>2, <1>3 DEF checked

(* The payer's balance is read for a payment that was asked for.            *)
LEMMA BalanceReading ==
  ASSUME IInv, run.pc = "building", balanceRead,
         UNCHANGED <<networkVars, ask, run, signatures, moved>>
  PROVE  IInv'
<1>1. /\ build.pc = "balance" /\ UNCHANGED <<tx, config>> /\ build \in Building
      /\ run.pc \in Working /\ tx \in Drafts /\ NetworkTypeOK
  BY DEF balanceRead, IInv, Typed, Working
<1>2. CASE \E tag \in {"BuildError", "TransportError"} : Fails(tag)
  BY <1>1, <1>2, ChecksFail, Tags
<1>3. CASE balance[payerOf(tx)] >= required /\ build' = [build EXCEPT !.pc = "built"]
  <2>1. /\ build' \in Building /\ build'.bound = build.bound
        /\ build'.defaulted = build.defaulted /\ build'.shown = build.shown
        /\ build'.explicitlyEmpty = build.explicitlyEmpty /\ build'.pc = "built"
    BY <1>1, <1>3 DEF Building, Resolved
  <2>2. /\ build.shown
        /\ tx.payment = "empty" =>
             tx.gas # "yes" /\ (tx.owned \/ tx.expiration.kind = "ValidDuring")
    BY <1>1 DEF IInv, Paid
  <2>3. tx.budget > 0 => Pays
    <3>1. /\ balance[payerOf(tx)] \in Nat /\ WithdrawnFrom(tx, payerOf(tx)) \in {0, 1}
      BY <1>1, PayerTyped
    <3>2. tx.budget \in {-1, 0} \cup 1..(MAX_GAS_BUDGET + NodeBudget)
      BY <1>1 DEF Drafts, Unset
    <3>3. tx.budget > 0 => tx.budget \in Nat
      BY <3>2, BudgetsAreMist
    <3>4. required = tx.budget + WithdrawnFrom(tx, payerOf(tx))
      BY DEF required, suiWithdrawalsFrom
    <3>5. tx.budget > 0 => tx.budget + WithdrawnFrom(tx, payerOf(tx)) <= balance[payerOf(tx)]
      BY <1>3, <3>1, <3>3, <3>4
    <3> QED
      BY <3>3, <3>5 DEF Pays
  <2> QED
    BY <1>1, <2>1, <2>2, <2>3, ChecksGoOn
<1> QED
  BY <1>2, <1>3 DEF balanceRead

(* Every step of the build.                                                 *)
LEMMA BuildSteps ==
  ASSUME IInv, building, UNCHANGED networkVars
  PROVE  IInv'
<1>1. /\ run.pc = "building" /\ BuildNext /\ UNCHANGED <<networkVars, ask, run, signatures>>
      /\ moved' = IF build.pc = "expiring" /\ build.defaulted THEN moved \ {"epoch"} ELSE moved
  BY DEF building
<1>2. CASE expire
  BY <1>1, <1>2, Expiring
<1>3. CASE expireFails
  BY <1>1, <1>3, ExpireFailing
<1>4. build.pc # "expiring" => moved' = moved
  BY <1>1
<1>5. CASE pin
  BY <1>1, <1>4, <1>5, Pinning DEF pin
<1>6. CASE resolved
  BY <1>1, <1>4, <1>6, Resolving DEF resolved
<1>7. CASE resolveFails
  BY <1>1, <1>4, <1>7, ResolveFailing DEF resolveFails
<1>8. CASE resolveAgain
  BY <1>1, <1>4, <1>8, ResolvingAgain DEF resolveAgain
<1>9. CASE simulated
  BY <1>1, <1>4, <1>9, Simulating DEF simulated
<1>10. CASE checked
  BY <1>1, <1>4, <1>10, Checking DEF checked
<1>11. CASE balanceRead
  BY <1>1, <1>4, <1>11, BalanceReading DEF balanceRead
<1> QED
  BY <1>1, <1>2, <1>3, <1>5, <1>6, <1>7, <1>8, <1>9, <1>10, <1>11 DEF BuildNext

(* The bytes go to the call, or its failure does.                           *)
LEMMA BuildEnding ==
  ASSUME IInv, buildEnds, UNCHANGED networkVars
  PROVE  IInv'
<1>1. /\ run.pc = "building" /\ UNCHANGED <<networkVars, tx, config, ask, signatures, moved>>
      /\ run \in RunRecord /\ build \in Building /\ signatures \in Seq(Signature)
      /\ run.pc \in Working
  BY DEF buildEnds, IInv, Typed, Working
<1>2. CASE build.pc = "failed" /\ Stop(build.failure) /\ build' = NoBuild
  <2>1. PICK tag \in Tag : tag = build.failure
    BY <1>1 DEF Building
  <2>2. build' \in Building
    <3>1. 0 \in 0..Unbounded /\ 0 \in 0..MaxResolves
      BY BoundsAreNatural, ResolvesAtLeastOnce DEF Unbounded
    <3> QED
      BY <1>2, <3>1, Tags DEF NoBuild, Building
  <2>3. Stop(tag)
    BY <1>2, <2>1
  <2> QED
    BY <1>1, <2>2, <2>3, Stopping
<1>3. CASE build.pc = "built" /\ Go(IF ask.steps THEN "wallet" ELSE "built") /\ UNCHANGED build
  <2>1. PICK pc \in {"wallet", "built"} : pc = IF ask.steps THEN "wallet" ELSE "built"
    OBVIOUS
  <2>2. run' \in RunRecord /\ run'.pc = pc
    BY <1>1, <1>3, <2>1, GoTyped DEF RunPc
  <2>3. signatures = <<>>
    BY <1>1 DEF IInv, Signing, Working
  <2>4. Signing'
    BY <1>1, <1>3, <2>1, <2>2, <2>3 DEF Signing, Working
  <2> QED
    BY <1>1, <1>3, <2>1, <2>2, <2>4, Onward DEF buildVars, Working
<1> QED
  BY <1>2, <1>3 DEF buildEnds

-----------------------------------------------------------------------------
(* What is shown and approved, and who signs.                               *)

(* A call that stops with its bytes built leaves the draft.                 *)
LEMMA StopsThere ==
  ASSUME IInv, NEW tag \in Tag, Stop(tag),
         UNCHANGED <<networkVars, buildVars, ask, signatures, moved>>
  PROVE  IInv'
<1>1. build \in Building /\ signatures \in Seq(Signature)
  BY DEF IInv, Typed
<1> QED
  BY <1>1, Stopping DEF buildVars

(* The bytes are shown to preflight.                                        *)
LEMMA Showing ==
  ASSUME IInv, frontHalf, UNCHANGED networkVars
  PROVE  IInv'
<1>1. /\ run.pc = "built" /\ UNCHANGED <<networkVars, buildVars, ask, signatures, moved>>
      /\ run \in RunRecord /\ signatures \in Seq(Signature) /\ run.pc \in Working
  BY DEF frontHalf, IInv, Typed, Working
<1>2. signatures = <<>> /\ build.pc = "built"
  BY <1>1 DEF IInv, Signing, Working
<1>3. CASE \E tag \in {"SimulationFailed", "BuildError", "TransportError", "PolicyDenied"} : Stop(tag)
  BY <1>1, <1>3, StopsThere, Tags
<1>4. CASE ~config.approve /\ ~config.preflight /\ Go("signing")
  <2>1. run' \in RunRecord /\ run'.pc = "signing"
    BY <1>1, <1>4, GoTyped DEF RunPc
  <2>2. Signing'
    BY <1>1, <1>2, <1>4, <2>1 DEF Signing, Working, buildVars
  <2> QED
    BY <1>1, <2>1, <2>2, Onward DEF Working
<1>5. CASE run' = [run EXCEPT !.prepared = TRUE,
                              !.pc = IF config.approve THEN "approving" ELSE "signing"]
  <2>1. /\ run' \in RunRecord /\ run'.prepared
        /\ run'.pc = IF config.approve THEN "approving" ELSE "signing"
    BY <1>1, <1>5 DEF RunRecord, RunPc
  <2>2. Signing'
    BY <1>1, <1>2, <2>1 DEF Signing, Working, buildVars
  <2> QED
    BY <1>1, <2>1, <2>2, Onward DEF Working
<1> QED
  BY <1>3, <1>4, <1>5 DEF frontHalf, simulateBuilt

(* And to whoever approves.                                                 *)
LEMMA Approving ==
  ASSUME IInv, approve, UNCHANGED networkVars
  PROVE  IInv'
<1>1. /\ run.pc = "approving" /\ UNCHANGED <<networkVars, buildVars, ask, signatures, moved>>
      /\ run \in RunRecord /\ signatures \in Seq(Signature) /\ run.pc \in Working
  BY DEF approve, IInv, Typed, Working
<1>2. signatures = <<>> /\ build.pc = "built" /\ run.prepared
  BY <1>1 DEF IInv, Signing, Working
<1>3. CASE Stop("E")
  BY <1>1, <1>3, StopsThere, Tags
<1>4. CASE run' = [run EXCEPT !.approved = TRUE, !.pc = "signing"]
  <2>1. /\ run' \in RunRecord /\ run'.prepared /\ run'.approved /\ run'.pc = "signing"
    BY <1>1, <1>2, <1>4 DEF RunRecord, RunPc
  <2>2. Signing'
    BY <1>1, <1>2, <2>1 DEF Signing, Working, buildVars
  <2> QED
    BY <1>1, <2>1, <2>2, Onward DEF Working
<1> QED
  BY <1>3, <1>4 DEF approve

(* A party's signature, by a key that is allowed to make it.                *)
LEMMA PartySigns ==
  ASSUME NEW p \in Parties, constructible(p), Bounded(p), Allowed(p)
  PROVE  /\ signed(p) \in Signature /\ Good(signed(p))
         /\ \/ signed(p).by = p.address
            \/ signed(p).by \in aliases[p.address] \/ "aliases" \in moved
<1>1. /\ p.given \in Seq(Keys) /\ p.address \in Address /\ p.alias \in Address \cup {NoOne}
      /\ p.multisig \in BOOLEAN
  BY Given DEF Parties
<1>2. /\ membersOf(p) \in Seq(Keys) /\ Len(membersOf(p)) = Len(p.given)
      /\ \A i, j \in DOMAIN membersOf(p) : i < j => membersOf(p)[i] < membersOf(p)[j]
  BY MembersInOrder
<1>3. boundsOf(p) \subseteq 0..Unbounded
  BY PartyBounds
<1>4. keyOf(p) \in Address
  BY <1>1 DEF keyOf
<1>5. signed(p) \in Signature
  BY <1>1, <1>2, <1>3, <1>4 DEF signed, Signature
<1>6. /\ signed(p).by = keyOf(p) /\ signed(p).of = "these" /\ signed(p).bounds = boundsOf(p)
      /\ signed(p).multisig = p.multisig /\ signed(p).members = membersOf(p)
  BY DEF signed
<1>7. p.multisig => Len(p.given) >= Threshold
  BY DEF constructible
<1>8. Good(signed(p))
  BY <1>2, <1>6, <1>7 DEF Good, Bounded
<1>9. \/ signed(p).by = p.address
      \/ signed(p).by \in aliases[p.address] \/ "aliases" \in moved
  BY <1>6 DEF keyOf, Allowed, allows
<1> QED
  BY <1>5, <1>8, <1>9

(* A good signature is added to good ones.                                  *)
LEMMA OneSignatureMore ==
  ASSUME signatures \in Seq(Signature), \A i \in DOMAIN signatures : Good(signatures[i]),
         NEW s \in Signature, Good(s), signatures' = Append(signatures, s),
         build'.bound = build.bound, UNCHANGED <<aliases, moved>>
  PROVE  /\ signatures' \in Seq(Signature)
         /\ (\A i \in DOMAIN signatures : Good(signatures[i]))'
         /\ \A a : SignedOf(a) => SignedOf(a)'
         /\ \A a : s.by = a \/ s.by \in aliases[a] \/ "aliases" \in moved => SignedOf(a)'
<1>1. PICK n \in Nat : n = Len(signatures) /\ DOMAIN signatures = 1..n
  OBVIOUS
<1>2. /\ signatures' \in Seq(Signature) /\ DOMAIN signatures' = 1..(n + 1)
      /\ signatures'[n + 1] = s /\ \A i \in 1..n : signatures'[i] = signatures[i]
  BY <1>1
<1>3. n + 1 \in 1..(n + 1) /\ \A i \in 1..(n + 1) : i = n + 1 \/ i \in 1..n
  BY <1>1
<1>4. \A x : Good(x) => Good(x)'
  BY DEF Good
<1>5. (\A i \in DOMAIN signatures : Good(signatures[i]))'
  <2>1. \A i \in 1..(n + 1) : \E x : x = signatures'[i] /\ Good(x)
    BY <1>1, <1>2, <1>3
  <2>2. \A i \in 1..(n + 1) : \E x : x = signatures'[i] /\ Good(x)'
    BY <1>4, <2>1
  <2> QED
    BY <1>2, <2>2 DEF Good
<1>6. \A a : SignedOf(a) => SignedOf(a)'
  BY <1>1, <1>2, <1>3 DEF SignedOf, OwnKeyUnread
<1>7. \A a : s.by = a \/ s.by \in aliases[a] \/ "aliases" \in moved => SignedOf(a)'
  BY <1>2, <1>3 DEF SignedOf, OwnKeyUnread
<1> QED
  BY <1>2, <1>5, <1>6, <1>7

(* The sender signs what was built, shown and approved.                     *)
LEMMA SenderSigns ==
  ASSUME IInv, sign, UNCHANGED networkVars
  PROVE  IInv'
<1>1. /\ run.pc = "signing" /\ UNCHANGED <<networkVars, buildVars, ask, moved>>
      /\ run \in RunRecord /\ signatures \in Seq(Signature) /\ run.pc \in Working
      /\ ask \in Asking
  BY DEF sign, IInv, Typed, Working
<1>2. /\ signatures = <<>> /\ build.pc = "built"
      /\ ~ask.steps => (config.approve => run.approved) /\ (config.preflight => run.prepared)
  BY <1>1 DEF IInv, Signing, Working
<1>3. CASE Stop("SigningError") /\ UNCHANGED signatures
  BY <1>1, <1>3, StopsThere, Tags
<1>4. CASE signatures' = Append(signatures, signed(ask.signer)) /\ Go("cosigning")
  <2>1. /\ run' \in RunRecord /\ run'.pc = "cosigning"
        /\ run'.approved = run.approved /\ run'.prepared = run.prepared
    BY <1>1, <1>4, GoTyped DEF RunPc
  <2>2. PICK p \in Parties : p = ask.signer
    BY <1>1 DEF Asking
  <2>3. constructible(p) /\ Allowed(p) /\ Bounded(p)
    BY <1>1, <2>2 DEF IInv, Agreed, Who
  <2>4. /\ signed(p) \in Signature /\ Good(signed(p))
        /\ \/ signed(p).by = p.address
           \/ signed(p).by \in aliases[p.address] \/ "aliases" \in moved
    BY <2>3, PartySigns
  <2>5. signatures' = Append(signatures, signed(p))
    BY <1>4, <2>2
  <2>6. \A i \in DOMAIN signatures : Good(signatures[i])
    BY <1>2
  <2>7. /\ signatures' \in Seq(Signature)
        /\ (\A i \in DOMAIN signatures : Good(signatures[i]))'
        /\ \A a : signed(p).by = a \/ signed(p).by \in aliases[a] \/ "aliases" \in moved =>
             SignedOf(a)'
    BY <1>1, <2>4, <2>5, <2>6, OneSignatureMore DEF buildVars, networkVars
  <2>8. SignedOf(p.address)'
    BY <2>4, <2>7
  <2>9. sender' = p.address
    BY <1>1, <2>2 DEF sender
  <2>10. SignedOf(sender)'
    BY <2>8, <2>9 DEF SignedOf, OwnKeyUnread
  <2>11. Signing'
    BY <1>1, <1>2, <2>1, <2>7, <2>10 DEF Signing, Working, buildVars
  <2> QED
    BY <1>1, <2>1, <2>7, <2>11, Onward DEF Working
<1> QED
  BY <1>3, <1>4 DEF sign, Signs

(* Whoever else the bytes name is the sponsor, who signs them too.          *)
LEMMA SponsorSigns ==
  ASSUME IInv, cosign, UNCHANGED networkVars
  PROVE  IInv'
<1>1. /\ run.pc = "cosigning" /\ UNCHANGED <<networkVars, buildVars, ask, moved>>
      /\ run \in RunRecord /\ signatures \in Seq(Signature) /\ run.pc \in Working
      /\ ask \in Asking
  BY DEF cosign, IInv, Typed, Working
<1>2. /\ build.pc = "built" /\ SignedOf(sender)
      /\ ~ask.steps => (config.approve => run.approved) /\ (config.preflight => run.prepared)
      /\ \A i \in DOMAIN signatures : Good(signatures[i])
  BY <1>1 DEF IInv, Signing, Working
<1>3. Named
  BY <1>1 DEF IInv, Agreed
<1>4. /\ sender' = sender /\ signersOfBytes' = signersOfBytes
      /\ signersOfBytes = {sender, payerOf(tx)}
  BY <1>1, <1>3 DEF sender, signersOfBytes, payerOf, Named, buildVars
<1> DEFINE others == signersOfBytes \ {sender}
<1>5. CASE Stop("SigningError") /\ UNCHANGED signatures
  BY <1>1, <1>5, StopsThere, Tags
<1>6. CASE others = {} /\ Go("signed") /\ UNCHANGED signatures
  <2>1. /\ run' \in RunRecord /\ run'.pc = "signed"
        /\ run'.approved = run.approved /\ run'.prepared = run.prepared
    BY <1>1, <1>6, GoTyped DEF RunPc
  <2>2. /\ (\A i \in DOMAIN signatures : Good(signatures[i]))'
    BY <1>1, <1>2, <1>6 DEF Good, buildVars
  <2>3. \A a : SignedOf(a) => SignedOf(a)'
    BY <1>1, <1>6 DEF SignedOf, OwnKeyUnread, networkVars
  <2>4. \A a \in signersOfBytes : SignedOf(a)'
    BY <1>2, <1>4, <1>6, <2>3
  <2>5. SignedOf(sender)' /\ (\A a \in signersOfBytes : SignedOf(a))'
    <3>1. PICK s : s = sender
      OBVIOUS
    <3>2. SignedOf(s)'
      BY <1>4, <2>4, <3>1
    <3> QED
      BY <1>4, <2>4, <3>1, <3>2 DEF SignedOf, OwnKeyUnread
  <2>6. Signing'
    BY <1>1, <1>2, <2>1, <2>2, <2>5 DEF Signing, Working, buildVars
  <2> QED
    BY <1>1, <1>6, <2>1, <2>6, Onward DEF Working
<1>7. CASE /\ others # {} /\ \A other \in others : assertSponsor(other)
           /\ signatures' = Append(signatures, signed(ask.sponsor)) /\ Go("signed")
  <2>1. /\ run' \in RunRecord /\ run'.pc = "signed"
        /\ run'.approved = run.approved /\ run'.prepared = run.prepared
    BY <1>1, <1>7, GoTyped DEF RunPc
  <2>2. payerOf(tx) # sender /\ assertSponsor(payerOf(tx))
    BY <1>4, <1>7
  <2>3. tx.owner # NoOne /\ tx.owner # sender /\ payerOf(tx) = tx.owner
    BY <1>3, <2>2 DEF payerOf, Named
  <2>4. gasIntentOf = tx.owner
    BY <1>3, <2>3 DEF gasIntentOf, Named
  <2>5. ask.sponsor # NoParty /\ ask.sponsor.address = payerOf(tx)
    BY <2>2 DEF assertSponsor
  <2>6. PICK p \in Parties : p = ask.sponsor
    BY <1>1, <2>5 DEF Asking
  <2>7. constructible(p) /\ Allowed(p) /\ Bounded(p)
    BY <1>1, <2>3, <2>4, <2>6 DEF IInv, Agreed, Who
  <2>8. /\ signed(p) \in Signature /\ Good(signed(p))
        /\ \/ signed(p).by = p.address
           \/ signed(p).by \in aliases[p.address] \/ "aliases" \in moved
    BY <2>7, PartySigns
  <2>9. signatures' = Append(signatures, signed(p))
    BY <1>7, <2>6
  <2>10. /\ signatures' \in Seq(Signature)
         /\ (\A i \in DOMAIN signatures : Good(signatures[i]))'
         /\ \A a : SignedOf(a) => SignedOf(a)'
         /\ \A a : signed(p).by = a \/ signed(p).by \in aliases[a] \/ "aliases" \in moved =>
              SignedOf(a)'
    BY <1>1, <1>2, <2>8, <2>9, OneSignatureMore DEF buildVars, networkVars
  <2>11. \A a \in signersOfBytes : SignedOf(a)'
    <3>1. SignedOf(p.address)'
      BY <2>8, <2>10
    <3>2. PICK s, o : s = sender /\ o = payerOf(tx)
      OBVIOUS
    <3>3. SignedOf(s)
      BY <1>2, <3>2
    <3>4. SignedOf(s)' /\ SignedOf(o)'
      BY <2>5, <2>6, <2>10, <3>1, <3>2, <3>3
    <3> QED
      BY <1>4, <3>2, <3>4
  <2>12. SignedOf(sender)' /\ (\A a \in signersOfBytes : SignedOf(a))'
    <3>1. PICK s : s = sender
      OBVIOUS
    <3>2. SignedOf(s)'
      BY <1>4, <2>11, <3>1
    <3> QED
      BY <1>4, <2>11, <3>1, <3>2 DEF SignedOf, OwnKeyUnread
  <2>13. Signing'
    BY <1>1, <1>2, <2>1, <2>10, <2>12 DEF Signing, Working, buildVars
  <2> QED
    BY <1>1, <2>1, <2>10, <2>13, Onward DEF Working
<1> QED
  BY <1>5, <1>6, <1>7 DEF cosign, Signs

(* What was signed is handed on, and sent.                                  *)
LEMMA Sending ==
  ASSUME IInv, onSigned \/ submit, UNCHANGED networkVars
  PROVE  IInv'
<1>1. /\ run.pc \in {"signed", "sending"}
      /\ UNCHANGED <<networkVars, buildVars, ask, signatures, moved>>
      /\ run \in RunRecord /\ signatures \in Seq(Signature) /\ run.pc \in Working
  BY DEF onSigned, submit, IInv, Typed, Working
<1>2. CASE Stop("JournalError")
  BY <1>1, <1>2, StopsThere, Tags
<1>3. CASE \E pc \in {"sending", "accepted", "refused"} : Go(pc)
  <2>1. PICK pc \in {"sending", "accepted", "refused"} : Go(pc)
    BY <1>3
  <2>2. /\ run' \in RunRecord /\ run'.pc = pc
        /\ run'.approved = run.approved /\ run'.prepared = run.prepared
    BY <1>1, <2>1, GoTyped DEF RunPc
  <2>3. /\ build.pc = "built" /\ SignedOf(sender)
        /\ ~ask.steps => (config.approve => run.approved) /\ (config.preflight => run.prepared)
        /\ \A i \in DOMAIN signatures : Good(signatures[i])
        /\ \A a \in signersOfBytes : SignedOf(a)
    BY <1>1 DEF IInv, Signing, Working
  <2>4. (\A i \in DOMAIN signatures : Good(signatures[i]))'
    BY <1>1, <2>3 DEF Good, buildVars
  <2>5. SignedOf(sender)' /\ (\A a \in signersOfBytes : SignedOf(a))'
    BY <1>1, <2>3
       DEF SignedOf, OwnKeyUnread, sender, signersOfBytes, payerOf, networkVars, buildVars
  <2>6. Signing'
    BY <1>1, <2>2, <2>3, <2>4, <2>5 DEF Signing, Working, buildVars
  <2> QED
    BY <1>1, <2>2, <2>6, Onward DEF Working
<1> QED
  BY <1>2, <1>3 DEF onSigned, submit

(* A wallet's signature is attached when it is the sender's, by the         *)
(* sender's own key or one that is on its list by then.                     *)
LEMMA Attaching ==
  ASSUME IInv, attach, UNCHANGED networkVars
  PROVE  IInv'
<1>1. /\ run.pc = "wallet" /\ UNCHANGED <<networkVars, buildVars, ask, moved>>
      /\ run \in RunRecord /\ signatures \in Seq(Signature) /\ run.pc \in Working
  BY DEF attach, IInv, Typed, Working
<1>2. /\ build.pc = "built" /\ ask.steps
  BY <1>1 DEF IInv, Signing, Working
<1>3. CASE \E tag \in {"PolicyDenied", "TransportError", "SigningError"} :
             Stop(tag) /\ UNCHANGED signatures
  BY <1>1, <1>3, StopsThere, Tags
<1>4. CASE \E handed \in Handed :
             /\ handed.by \notin {payerOf(tx)} \cup aliases[payerOf(tx)]
             /\ attachable(handed.by) /\ handed.of = "these"
             /\ signatures' = <<[by |-> handed.by, of |-> handed.of, bounds |-> {},
                               multisig |-> FALSE, members |-> <<>>]>>
             /\ Go("cosigning")
  <2>1. PICK handed \in Handed :
             /\ handed.by \notin {payerOf(tx)} \cup aliases[payerOf(tx)]
             /\ attachable(handed.by) /\ handed.of = "these"
             /\ signatures' = <<[by |-> handed.by, of |-> handed.of, bounds |-> {},
                               multisig |-> FALSE, members |-> <<>>]>>
             /\ Go("cosigning")
    BY <1>4
  <2>2. /\ run' \in RunRecord /\ run'.pc = "cosigning"
    BY <1>1, <2>1, GoTyped DEF RunPc
  <2>3. PICK s : s = [by |-> handed.by, of |-> "these", bounds |-> {},
                      multisig |-> FALSE, members |-> <<>>]
    OBVIOUS
  <2>4. /\ s.by = handed.by /\ s.of = "these" /\ s.bounds = {} /\ s.multisig = FALSE
        /\ s.members = <<>>
    BY <2>3
  <2>5. s \in Signature
    BY <2>3 DEF Handed, Signature
  <2>6. signatures' = <<s>>
    BY <2>1, <2>3
  <2>7. Good(s)'
    BY <2>4 DEF Good
  <2>8. signatures' \in Seq(Signature) /\ DOMAIN signatures' = {1} /\ signatures'[1] = s
    BY <2>5, <2>6
  <2>9. (\A i \in DOMAIN signatures : Good(signatures[i]))'
    BY <2>7, <2>8 DEF Good
  <2>10. tx.sender = sender
    BY <1>1 DEF IInv, Agreed, Named
  <2>11. handed.by = sender \/ handed.by \in aliases[sender]
    BY <2>1, <2>10 DEF attachable, signersOfBytes, allows
  <2>12. SignedOf(sender)'
    BY <1>1, <2>4, <2>8, <2>11 DEF SignedOf, OwnKeyUnread, sender, networkVars
  <2>13. Signing'
    BY <1>1, <1>2, <2>2, <2>9, <2>12 DEF Signing, Working, buildVars
  <2> QED
    BY <1>1, <2>2, <2>8, <2>13, Onward DEF Working
<1> QED
  BY <1>3, <1>4 DEF attach, verifyTransactionSignature

(* The same draft is run again: nothing is left of the build.               *)
LEMMA RunningAgain ==
  ASSUME IInv, runAgain, UNCHANGED networkVars
  PROVE  IInv'
<1>1. /\ UNCHANGED <<networkVars, tx, config, ask, moved>> /\ run.round < MaxRuns
      /\ run' = [Start EXCEPT !.round = run.round + 1]
      /\ signatures' = <<>> /\ build' = NoBuild /\ run \in RunRecord
  BY DEF runAgain, IInv, Typed
<1>2. run.round + 1 \in 1..MaxRuns
  BY <1>1, RunsPositive DEF RunRecord
<1>3. run' = [pc |-> "idle", failure |-> "none", read |-> 0, round |-> run.round + 1,
              prepared |-> FALSE, approved |-> FALSE]
  BY <1>1 DEF Start
<1>4. run' \in RunRecord /\ run'.pc = "idle" /\ run'.read = 0
  BY <1>2, <1>3, Tags DEF RunRecord, RunPc
<1>5. build' \in Building
  <2>1. 0 \in 0..Unbounded /\ 0 \in 0..MaxResolves
    BY BoundsAreNatural, ResolvesAtLeastOnce DEF Unbounded
  <2> QED
    BY <1>1, <2>1, Tags DEF NoBuild, Building
<1>6. Typed'
  BY <1>1, <1>4, <1>5 DEF IInv, Typed, NetworkTypeOK, networkVars
<1>7. "idle" \notin Working \cup {"aliases"}
  BY DEF Working
<1>8. Agreed'
  BY <1>4, <1>7 DEF Agreed
<1>9. /\ (tx.reserved <= balance[payerOf(tx)])' <=> (tx.reserved <= balance[payerOf(tx)])
  BY <1>1, WorldStays DEF networkVars
<1>10. Named' <=> Named
  BY <1>1 DEF Named, sender
<1>11. Timely' /\ Paid'
  BY <1>1, <1>4, <1>7, <1>9, <1>10 DEF IInv, Timely, Paid
<1>12. Signing'
  BY <1>1, <1>4, <1>7 DEF Signing, Working
<1> QED
  BY <1>6, <1>8, <1>11, <1>12 DEF IInv

-----------------------------------------------------------------------------
(* The world moves, and every step.                                         *)

(* What moved is said to have.                                              *)
LEMMA Moving ==
  ASSUME IInv, UNCHANGED <<buildVars, ask, run, signatures>>, NetworkTypeOK',
         moved \subseteq moved', moved' \subseteq {"epoch", "balance", "aliases", "commands"},
         epoch' = epoch \/ "epoch" \in moved', balance' = balance \/ "balance" \in moved',
         aliases' = aliases \/ "aliases" \in moved'
  PROVE  IInv'
<1> USE DEF buildVars
<1>1. Typed'
  BY DEF IInv, Typed
<1>2. /\ Named' <=> Named
      /\ Who' = Who /\ aliased' = aliased
  BY DEF Named, Who, aliased, gasIntentOf, sender
<1>3. \A p : (Allowed(p) => Allowed(p)') /\ (Bounded(p) => Bounded(p)')
  BY DEF Allowed, Bounded, allows
<1>4. Agreed'
  <2>1. (\A i \in DOMAIN aliased : i <= run.read => Allowed(aliased[i])) =>
        (\A i \in DOMAIN aliased : i <= run.read => Allowed(aliased[i]))'
    BY <1>2, <1>3 DEF Allowed
  <2>2. (\A p \in Who : Allowed(p) /\ Bounded(p)) =>
        (\A p \in Who : Allowed(p) /\ Bounded(p))'
    BY <1>2, <1>3
  <2>3. (\A p \in {ask.signer, ask.sponsor} : constructible(p)) =>
        (\A p \in {ask.signer, ask.sponsor} : constructible(p))'
    OBVIOUS
  <2> QED
    BY <1>2, <2>1, <2>2, <2>3 DEF IInv, Agreed
<1>5. Timely'
  <2>1. InWindow(tx) => InWindow(tx)' \/ "epoch" \in moved'
    BY DEF InWindow
  <2>2. epoch <= build.bound => epoch' <= build'.bound \/ "epoch" \in moved'
    OBVIOUS
  <2> QED
    BY <2>1, <2>2 DEF IInv, Timely
<1>6. Paid'
  <2>1. Covered(tx) => Covered(tx)' \/ "balance" \in moved'
    BY DEF Covered, WithdrawnFrom, payerOf
  <2>2. Pays => Pays' \/ "balance" \in moved'
    BY DEF Pays, WithdrawnFrom, payerOf
  <2>3. tx.reserved <= balance[payerOf(tx)] =>
          (tx.reserved <= balance[payerOf(tx)])' \/ "balance" \in moved'
    BY DEF payerOf
  <2> QED
    BY <1>2, <2>1, <2>2, <2>3 DEF IInv, Paid
<1>7. Signing'
  <2>1. (\A i \in DOMAIN signatures : Good(signatures[i])) =>
        (\A i \in DOMAIN signatures : Good(signatures[i]))'
    BY DEF Good
  <2>2. SignedOf(sender) => SignedOf(sender)'
    BY DEF SignedOf, OwnKeyUnread, sender
  <2>3. (\A a \in signersOfBytes : SignedOf(a)) => (\A a \in signersOfBytes : SignedOf(a))'
    BY DEF SignedOf, OwnKeyUnread, signersOfBytes, payerOf
  <2> QED
    BY <2>1, <2>2, <2>3 DEF IInv, Signing
<1> QED
  BY <1>1, <1>4, <1>5, <1>6, <1>7 DEF IInv

(* An epoch turns, a balance is spent, aliases are edited, commands abort.  *)
LEMMA WorldMoves ==
  ASSUME IInv, Moves
  PROVE  IInv'
<1>1. /\ UNCHANGED <<buildVars, ask, run, signatures>> /\ NetworkTypeOK
      /\ moved \subseteq {"epoch", "balance", "aliases", "commands"}
  BY DEF Moves, IInv, Typed
<1>2. CASE EpochTurns /\ moved' = moved \cup {"epoch"}
  <2>1. epoch + 1 \in 0..MaxEpoch
    BY <1>1, <1>2, BoundsAreNatural DEF EpochTurns, NetworkTypeOK
  <2>2. NetworkTypeOK'
    BY <1>1, <1>2, <2>1 DEF EpochTurns, NetworkTypeOK
  <2> QED
    BY <1>1, <1>2, <2>2, Moving DEF EpochTurns
<1>3. CASE (\E a \in Account : Spent(a)) /\ moved' = moved \cup {"balance"}
  <2>1. PICK a \in Account :
          \E b \in 0..(balance[a] - 1) : balance' = [balance EXCEPT ![a] = b]
    BY <1>3 DEF Spent
  <2> PICK b \in 0..(balance[a] - 1) : balance' = [balance EXCEPT ![a] = b]
    BY <2>1
  <2>2. balance[a] \in 0..MaxBalance /\ b \in 0..MaxBalance
    BY <1>1, <2>1, BoundsAreNatural DEF NetworkTypeOK
  <2>3. UNCHANGED <<epoch, aliases, aborting>>
    BY <1>3 DEF Spent
  <2>4. NetworkTypeOK'
    BY <1>1, <2>1, <2>2, <2>3 DEF NetworkTypeOK
  <2> QED
    BY <1>1, <1>3, <2>3, <2>4, Moving
<1>4. CASE (\E a \in Account : AliasesEdited(a)) /\ moved' = moved \cup {"aliases"}
  <2>1. PICK a \in Account, set \in AliasSets : aliases' = [aliases EXCEPT ![a] = set]
    BY <1>4 DEF AliasesEdited
  <2>2. UNCHANGED <<epoch, balance, aborting>>
    BY <1>4 DEF AliasesEdited
  <2>3. NetworkTypeOK'
    BY <1>1, <2>1, <2>2 DEF NetworkTypeOK
  <2> QED
    BY <1>1, <1>4, <2>2, <2>3, Moving
<1>5. CASE Aborts /\ moved' = moved \cup {"commands"}
  <2>1. UNCHANGED <<epoch, balance, aliases>> /\ NetworkTypeOK'
    BY <1>1, <1>5 DEF Aborts, NetworkTypeOK
  <2> QED
    BY <1>1, <1>5, <2>1, Moving
<1> QED
  BY <1>2, <1>3, <1>4, <1>5 DEF Moves

(* The call has not begun, and nothing is read yet.                         *)
LEMMA IInvInit ==
  ASSUME RunInit
  PROVE  IInv
<1> USE DEF RunInit
<1>1. run = [pc |-> "idle", failure |-> "none", read |-> 0, round |-> 1,
             prepared |-> FALSE, approved |-> FALSE]
  BY DEF Start
<1>2. run \in RunRecord /\ run.pc = "idle" /\ run.read = 0
  <2>1. 1 \in 1..MaxRuns
    BY RunsPositive
  <2> QED
    BY <1>1, <2>1, Tags DEF RunRecord, RunPc
<1>3. build \in Building
  <2>1. 0 \in 0..Unbounded /\ 0 \in 0..MaxResolves
    BY BoundsAreNatural, ResolvesAtLeastOnce DEF Unbounded
  <2> QED
    BY <2>1, Tags DEF NoBuild, Building
<1>4. Typed
  BY <1>2, <1>3 DEF Typed
<1>5. "idle" \notin Working \cup {"aliases"}
  BY DEF Working
<1>6. Agreed /\ Timely /\ Paid /\ Signing
  BY <1>2, <1>5 DEF Agreed, Timely, Paid, Signing, Working
<1> QED
  BY <1>4, <1>6 DEF IInv

(* Every step keeps the invariant.                                          *)
LEMMA IInvNext ==
  ASSUME IInv, RunNext
  PROVE  IInv'
<1>1. CASE Moves
  BY <1>1, WorldMoves
<1>2. CASE UNCHANGED networkVars /\ begin
  BY <1>2, Beginning
<1>3. CASE UNCHANGED networkVars /\ requireAliases
  BY <1>3, AliasRead
<1>4. CASE UNCHANGED networkVars /\ builds
  BY <1>4, BuildBegins
<1>5. CASE UNCHANGED networkVars /\ building
  BY <1>5, BuildSteps
<1>6. CASE UNCHANGED networkVars /\ buildEnds
  BY <1>6, BuildEnding
<1>7. CASE UNCHANGED networkVars /\ frontHalf
  BY <1>7, Showing
<1>8. CASE UNCHANGED networkVars /\ approve
  BY <1>8, Approving
<1>9. CASE UNCHANGED networkVars /\ sign
  BY <1>9, SenderSigns
<1>10. CASE UNCHANGED networkVars /\ cosign
  BY <1>10, SponsorSigns
<1>11. CASE UNCHANGED networkVars /\ (onSigned \/ submit)
  BY <1>11, Sending
<1>12. CASE UNCHANGED networkVars /\ attach
  BY <1>12, Attaching
<1>13. CASE UNCHANGED networkVars /\ runAgain
  BY <1>13, RunningAgain
<1> QED
  BY <1>1, <1>2, <1>3, <1>4, <1>5, <1>6, <1>7, <1>8, <1>9, <1>10, <1>11, <1>12, <1>13
     DEF RunNext

(* Nor does a step of somebody else's disturb it.                           *)
LEMMA IInvStays ==
  ASSUME IInv, UNCHANGED <<networkVars, buildVars, runVars>>
  PROVE  IInv'
<1>1. /\ UNCHANGED <<buildVars, ask, run, signatures>>
      /\ moved' = moved /\ UNCHANGED <<epoch, balance, aliases, aborting>>
  BY DEF runVars, networkVars
<1>2. NetworkTypeOK' /\ moved \subseteq {"epoch", "balance", "aliases", "commands"}
  BY <1>1 DEF IInv, Typed, NetworkTypeOK
<1> QED
  BY <1>1, <1>2, Moving

(* The invariant, of every run.                                             *)
LEMMA IInvAlways == RunSpec => []IInv
<1>1. RunInit => IInv
  BY IInvInit
<1>2. IInv /\ [RunNext]_<<networkVars, buildVars, runVars>> => IInv'
  BY IInvNext, IInvStays
<1> QED
  BY <1>1, <1>2, PTL DEF RunSpec

-----------------------------------------------------------------------------
(* The theorems.                                                            *)

(* A run has the types its variables are declared with, on any network.     *)
THEOREM RunIsTyped == RunSpec => []RunTypeOK
<1>1. IInv => RunTypeOK
  <2>1. SUFFICES ASSUME Typed PROVE RunTypeOK
    BY DEF IInv
  <2>2. NetworkTypeOK /\ tx \in Drafts /\ build \in Building /\ run \in RunRecord
        /\ moved \subseteq {"epoch", "balance", "aliases", "commands"}
    BY <2>1 DEF Typed
  <2>3. \A i \in DOMAIN signatures : signatures[i] \in Signature
    BY <2>1 DEF Typed
  <2>4. BuildTypeOK
    BY <2>2 DEF BuildTypeOK, Building, Resolved
  <2> QED
    BY <2>2, <2>3, <2>4 DEF RunTypeOK, RunRecord
<1> QED
  BY <1>1, IInvAlways, PTL

(* Nobody signs what was not shown to execute after the last back-off of    *)
(* the resolve, nor before preflight and the approver have seen it.         *)
THEOREM NothingIsSignedUnseen == RunSpec => []SignedAsShown
<1>1. IInv => SignedAsShown
  <2>1. SUFFICES ASSUME IInv, ~Over, signatures # <<>> PROVE SignedAsShown
    BY DEF SignedAsShown
  <2>2. run.pc \in {"cosigning", "signed", "sending"}
    BY <2>1 DEF IInv, Typed, RunRecord, RunPc, Signing, Working, Over
  <2>3. run.pc \in Working /\ build.pc = "built"
    BY <2>1, <2>2 DEF IInv, Signing, Working
  <2>4. build.shown
    BY <2>1, <2>3 DEF IInv, Paid
  <2> QED
    BY <2>1, <2>2, <2>4 DEF IInv, Signing, SignedAsShown
<1> QED
  BY <1>1, IInvAlways, PTL

(* A window that was chosen by default closes before any of the signatures  *)
(* under the bytes does.                                                    *)
THEOREM WindowsEndFirst == RunSpec => []WindowWithinProofs
<1>1. IInv => WindowWithinProofs
  <2>1. SUFFICES ASSUME IInv, run.pc = "sending", build.defaulted,
                        config.expiration # "none",
                        NEW i \in DOMAIN signatures, NEW b \in signatures[i].bounds
                 PROVE  tx.expiration.to <= b
    BY DEF WindowWithinProofs
  <2>2. run.pc \in Working /\ build.pc = "built"
    BY <2>1 DEF IInv, Signing, Working
  <2>3. Good(signatures[i])
    BY <2>1, <2>2 DEF IInv, Signing
  <2>4. build.bound <= b
    BY <2>1, <2>3 DEF Good
  <2>5. tx.expiration.to <= build.bound
    BY <2>1, <2>2 DEF IInv, Timely, Resolved
  <2>6. tx.expiration.to \in Nat /\ build.bound \in Nat /\ b \in Nat
    <3>1. Unbounded \in Nat /\ MaxEpoch + 1 \in Nat
      BY BoundsAreNatural DEF Unbounded
    <3>2. signatures[i] \in Signature
      BY <2>1 DEF IInv, Typed
    <3>3. b \in 0..Unbounded
      BY <2>1, <3>2 DEF Signature
    <3>4. tx.expiration.to \in 0..(MaxEpoch + 1) /\ build.bound \in 0..Unbounded
      BY <2>1 DEF IInv, Typed, Drafts, Building
    <3> QED
      BY <3>1, <3>3, <3>4
  <2> QED
    BY <2>4, <2>5, <2>6
<1> QED
  BY <1>1, IInvAlways, PTL

(* What is sent is what the validators accept, but for what moved in the    *)
(* world since it was read, a window of the recipe's own, and an account    *)
(* that no longer lists its own key.                                        *)
THEOREM SentIsAccepted == RunSpec => []SentToBeAccepted
<1>1. IInv => SentToBeAccepted
  <2>1. SUFFICES ASSUME IInv, run.pc = "sending" PROVE SentToBeAccepted
    BY DEF SentToBeAccepted
  <2>2. run.pc \in Working /\ build.pc = "built"
    BY <2>1 DEF IInv, Signing, Working
  <2>3. /\ NetworkTypeOK /\ tx \in Drafts /\ build \in Building
        /\ signatures \in Seq(Signature)
    BY <2>1 DEF IInv, Typed
  <2>4. WellFormed(tx)
    BY <2>1, <2>2 DEF IInv, Timely, Paid, WellFormed
  <2>5. InWindow(tx) \/ "epoch" \in moved \/ ~build.defaulted
    BY <2>1, <2>2 DEF IInv, Timely, Resolved
  <2>6. Funded(tx) \/ "balance" \in moved
    <3>1. SUFFICES ASSUME "balance" \notin moved PROVE Funded(tx)
      OBVIOUS
    <3>2. tx.payment = "reservation" => tx.reserved <= balance[payerOf(tx)]
      BY <2>1, <3>1 DEF IInv, Paid
    <3>3. Covered(tx)
      BY <2>1, <2>2, <3>1 DEF IInv, Paid
    <3>4. GasIs(tx) # 0 => Pays /\ GasIs(tx) = tx.budget
      BY <2>1, <2>2, <3>1 DEF IInv, Paid, GasIs
    <3>5. ASSUME NEW a \in Account
          PROVE  WithdrawnFrom(tx, a) + (IF a = payerOf(tx) THEN GasIs(tx) ELSE 0) <= balance[a]
      <4>1. WithdrawnFrom(tx, a) \in {0, 1} /\ WithdrawnFrom(tx, a) <= balance[a]
            /\ balance[a] \in 0..MaxBalance
        BY <2>3, <3>3 DEF Covered, WithdrawnFrom, NetworkTypeOK
      <4>2. CASE a = payerOf(tx) /\ GasIs(tx) # 0
        <5>1. tx.budget \in Nat /\ tx.budget + WithdrawnFrom(tx, a) <= balance[a]
          BY <3>4, <4>2 DEF Pays
        <5> QED
          BY <3>4, <4>1, <4>2, <5>1
      <4>3. CASE ~ (a = payerOf(tx) /\ GasIs(tx) # 0)
        BY <4>1, <4>3
      <4> QED
        BY <4>2, <4>3
    <3> QED
      BY <3>2, <3>5 DEF Funded
  <2>7. ASSUME NEW i \in DOMAIN signatures
        PROVE  signatures[i].of = "these" /\ (Proven(signatures[i]) \/ "epoch" \in moved)
    <3>1. Good(signatures[i]) /\ signatures[i] \in Signature
      BY <2>1, <2>2, <2>3 DEF IInv, Signing
    <3>2. epoch <= build.bound \/ "epoch" \in moved
      BY <2>1, <2>2 DEF IInv, Timely, Resolved
    <3>3. epoch \in Nat /\ build.bound \in Nat /\ \A b \in signatures[i].bounds : b \in Nat
      BY <2>3, <3>1, BoundsAreNatural DEF NetworkTypeOK, Building, Signature, Unbounded
    <3>4. epoch <= build.bound => \A b \in signatures[i].bounds : epoch <= b
      BY <3>1, <3>3 DEF Good
    <3> QED
      BY <3>1, <3>2, <3>4 DEF Good, Proven
  <2>8. \A a \in signersOfBytes : SignedOf(a)
    BY <2>1 DEF IInv, Signing
  <2> QED
    BY <2>4, <2>5, <2>6, <2>7, <2>8 DEF SentToBeAccepted, SignedOf
<1> QED
  BY <1>1, IInvAlways, PTL

=============================================================================
