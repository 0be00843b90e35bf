-------------------------- MODULE SenderLockProofs --------------------------
(***************************************************************************)
(* The sender locks for any fibers, accounts, spellings and recipes:       *)
(* mutual exclusion, quiet reservations and no circle of waiting runs.     *)
(*                                                                         *)
(* Two runs exclude each other only if they wait on one semaphore, which   *)
(* is what the reference counts are for: the argument is that every        *)
(* reference is to the entry its address has in the registry (Linked), so  *)
(* two holders of one account hold the same entry's only permit.           *)
(*                                                                         *)
(* The other two are about the places of the runs (Orderly).  A run gives  *)
(* its locks back registered in flight, so a drain that found the entry    *)
(* empty, under the lock, found nobody who had to lock that payer (Quiet). *)
(* And a run holds the lock of the smaller account when it asks for the    *)
(* other, so what is waited for grows along any chain of waiting runs.     *)
(***************************************************************************)
EXTENDS SenderLock, SequenceTheorems, WellFoundedInduction, TLAPS

Linked ==
  \A e \in Entries : \A h \in refs[e] : registry[RegistryOf(h[2])][h[3]] = e

Used ==
  \A k \in Registry, a \in Account, e \in Entries :
    registry[k][a] = e => \E h \in refs[e] : RegistryOf(h[2]) = k /\ h[3] = a

(* One entry serves one address of one registry.                            *)
Distinct ==
  \A k, l \in Registry, a, b \in Account :
    registry[k][a] # None /\ registry[k][a] = registry[l][b] => k = l /\ a = b

(* A lock has one permit.                                                   *)
OnePermit ==
  \A e \in Entries : \A g, h \in taken[e] : g[2] = "lock" /\ h[2] = "lock" => g = h

(* Between its locks a run holds all of them.                               *)
InsideHolds ==
  \A r \in Runs : Inside(r) => \A a \in Locked(r) : Holds(<<r, "lock", a>>)

Sound == TypeOK /\ Linked /\ Used /\ Distinct /\ OnePermit

-----------------------------------------------------------------------------
(* What the actions do to the semaphores: one call of one holder, or none.  *)

Acquires(h) == ~Refers(h) /\ acquireEntry(h)
Takes(h) == Refers(h) /\ takePermits(h)
Gives(h) == Refers(h) /\ Holds(h) /\ releasePermits(h)
Drops(h) == Refers(h) /\ ~Holds(h) /\ releaseEntry(h)

Changes(h) == Acquires(h) \/ Takes(h) \/ Gives(h) \/ Drops(h)

(* What a run asks for is on accounts.                                      *)
LEMMA KeysAreAccounts ==
  ASSUME TypeOK, NEW r \in Runs, NEW hold \in Hold
  PROVE  /\ Keys(r, hold) \in Seq(Account)
         /\ locked(r) \in Seq(Account)
<1>1. recipe[r] \in Recipe
  BY RecipesAreRecipes DEF TypeOK
<1>2. recipe[r].sender \in Spelled /\ recipe[r].gasOwner \in Spelled \cup {None}
  BY <1>1 DEF Recipe
<1>3. Sender(r) \in Account
  BY <1>2, SpellingsAreNormalized DEF Sender
<1>4. payer(r) \in Account \cup {None}
  BY <1>2, SpellingsAreNormalized DEF payer
<1>5. drains(r) \in Account \cup {None}
  BY <1>3, <1>4 DEF drains
<1>6. locked(r) \in Seq(Account)
  BY <1>3, <1>4 DEF locked
<1>7. inFlightOn(r) \in Seq(Account)
  BY <1>3, <1>4 DEF inFlightOn
<1>8. CASE hold = "lock"
  BY <1>6, <1>8 DEF Keys
<1>9. CASE hold = "inFlight"
  BY <1>6, <1>7, <1>9 DEF Keys
<1>10. CASE hold = "drain"
  <2>1. Keys(r, hold) = IF drains(r) = None THEN <<>> ELSE <<drains(r)>>
    BY <1>10 DEF Keys
  <2> QED
    BY <2>1, <1>5, <1>6
<1> QED
  BY <1>8, <1>9, <1>10 DEF Hold

(* Taking the next thing, or giving the last one back, is one call of one   *)
(* holder.                                                                  *)
LEMMA NextIsChange ==
  ASSUME TypeOK, NEW r \in Runs, NEW hold \in Hold,
         acquireNext(r, hold) \/ releaseLast(r, hold)
  PROVE  \E a \in Account : Changes(<<r, hold, a>>)
<1>1. \A i \in 1..Len(Keys(r, hold)) : Keys(r, hold)[i] \in Account
  BY KeysAreAccounts
<1>2. CASE acquireNext(r, hold)
  <2>1. PICK i \in Missing(r, hold) :
          LET h == <<r, hold, Keys(r, hold)[i]>>
          IN IF Refers(h) THEN takePermits(h) ELSE acquireEntry(h)
    BY <1>2 DEF acquireNext
  <2>2. Keys(r, hold)[i] \in Account
    BY <1>1 DEF Missing
  <2> QED
    BY <2>1, <2>2 DEF Changes, Acquires, Takes
<1>3. CASE releaseLast(r, hold)
  <2>1. PICK i \in Held(r, hold) :
          LET h == <<r, hold, Keys(r, hold)[i]>>
          IN IF Holds(h) THEN releasePermits(h) ELSE releaseEntry(h)
    BY <1>3 DEF releaseLast
  <2>2. Keys(r, hold)[i] \in Account /\ Refers(<<r, hold, Keys(r, hold)[i]>>)
    BY <1>1 DEF Held
  <2> QED
    BY <2>1, <2>2 DEF Changes, Gives, Drops
<1> QED
  BY <1>2, <1>3

(* A step of run r calls a semaphore for r at most; and only "ending" and   *)
(* "releasing" give a lock back.                                            *)
LEMMA StepIsChange ==
  ASSUME TypeOK, NEW r \in Runs, run(r) \/ Step(r) \/ Interrupt(r)
  PROVE  \/ UNCHANGED Semaphores
         \/ \E hold \in Hold, a \in Account :
              /\ Changes(<<r, hold, a>>)
              /\ hold = "lock" => pc[r] \in {"locking", "releasing", "ending"}
<1> USE DEF Hold
<1>1. CASE run(r) \/ Interrupt(r) \/ build(r) \/ buildFails(r) \/ finish(r)
  BY <1>1 DEF run, Interrupt, build, buildFails, finish
<1>2. CASE senderLocked(r)
  BY <1>2, NextIsChange DEF senderLocked
<1>3. CASE drainInFlight(r)
  BY <1>3, NextIsChange DEF drainInFlight
<1>4. CASE drainTake(r)
  BY <1>4, NextIsChange DEF drainTake
<1>5. CASE drainGive(r)
  BY <1>5, NextIsChange DEF drainGive
<1>6. CASE registerInFlight(r)
  BY <1>6, NextIsChange DEF registerInFlight
<1>7. CASE releaseLocks(r)
  BY <1>7, NextIsChange DEF releaseLocks
<1>8. CASE end(r)
  BY <1>8, NextIsChange DEF end, Semaphores
<1> QED
  BY <1>1, <1>2, <1>3, <1>4, <1>5, <1>6, <1>7, <1>8 DEF Step
-----------------------------------------------------------------------------
(* The registries through each kind of call.                                *)

(* Who refers to an entry finds it.                                         *)
LEMMA EntryOfRefers ==
  ASSUME NEW h, Refers(h)
  PROVE  EntryOf(h) \in Entries /\ h \in refs[EntryOf(h)]
BY DEF Refers, EntryOf

(* A reference taken keeps the registries sound.                            *)
LEMMA SoundAcquires ==
  ASSUME Sound, NEW h \in Holder, Acquires(h)
  PROVE  /\ registry' \in [Registry -> [Account -> Entries \cup {None}]]
         /\ refs' \in [Entries -> SUBSET Holder]
         /\ taken' \in [Entries -> SUBSET Holder]
         /\ \A e \in Entries : taken'[e] \subseteq refs'[e]
         /\ Linked' /\ Used' /\ Distinct' /\ OnePermit'
<1> DEFINE k == RegistryOf(h[2])
           a == h[3]
<1>1. k \in Registry /\ a \in Account
  BY DEF Holder, RegistryOf, Registry
<1>2. PICK entry \in Entries :
        /\ registry' = [registry EXCEPT ![k][a] = entry]
        /\ refs' = [refs EXCEPT ![entry] = @ \cup {h}]
        /\ taken' = taken
        /\ \/ registry[k][a] = entry
           \/ registry[k][a] = None /\ entry \in Unused
  <2>1. CASE registry[k][a] # None
    BY <2>1, <1>1 DEF Acquires, acquireEntry, Sound, TypeOK
  <2>2. CASE registry[k][a] = None
    <3>1. (CHOOSE e \in Unused : TRUE) \in Unused
      BY <2>2 DEF Acquires, acquireEntry
    <3>2. (CHOOSE e \in Unused : TRUE) \in Entries
      BY <3>1 DEF Unused
    <3> QED
      BY <2>2, <3>1, <3>2 DEF Acquires, acquireEntry
  <2> QED
    BY <2>1, <2>2
<1> HIDE DEF k, a
<1>3. \A l \in Registry, b \in Account :
        registry'[l][b] = IF l = k /\ b = a THEN entry ELSE registry[l][b]
  BY <1>1, <1>2 DEF Sound, TypeOK
<1>4. \A e \in Entries : refs'[e] = IF e = entry THEN refs[e] \cup {h} ELSE refs[e]
  BY <1>2 DEF Sound, TypeOK
<1>5. registry' \in [Registry -> [Account -> Entries \cup {None}]]
  BY <1>1, <1>2 DEF Sound, TypeOK
<1>6. refs' \in [Entries -> SUBSET Holder] /\ taken' \in [Entries -> SUBSET Holder]
  BY <1>2 DEF Sound, TypeOK
<1>7. \A e \in Entries : taken'[e] \subseteq refs'[e]
  BY <1>2, <1>4 DEF Sound, TypeOK
<1>8. Linked'
  <2> SUFFICES ASSUME NEW e \in Entries, NEW g \in refs'[e]
               PROVE  registry'[RegistryOf(g[2])][g[3]] = e
    BY DEF Linked
  <2>1. CASE g = h
    <3>1. h \notin refs[e]
      BY DEF Acquires, Refers
    <3>2. e = entry
      BY <1>4, <2>1, <3>1
    <3> QED
      BY <1>1, <1>3, <2>1, <3>2 DEF k, a
  <2>2. CASE g # h
    <3>1. g \in refs[e]
      BY <1>4, <2>2
    <3>2. RegistryOf(g[2]) \in Registry /\ g[3] \in Account
      BY <3>1 DEF Sound, TypeOK, Holder, RegistryOf, Registry
    <3>3. registry[RegistryOf(g[2])][g[3]] = e
      BY <3>1 DEF Sound, Linked
    <3>4. ~(RegistryOf(g[2]) = k /\ g[3] = a) \/ entry = e
      BY <1>2, <3>3, NoneIsNothing
    <3> QED
      BY <1>3, <3>2, <3>3, <3>4
  <2> QED
    BY <2>1, <2>2
<1>9. Used'
  <2> SUFFICES ASSUME NEW l \in Registry, NEW b \in Account, NEW e \in Entries,
                      registry'[l][b] = e
               PROVE  \E g \in refs'[e] : RegistryOf(g[2]) = l /\ g[3] = b
    BY DEF Used
  <2>1. CASE l = k /\ b = a
    <3>1. e = entry /\ h \in refs'[e]
      BY <2>1, <1>3, <1>4
    <3> QED
      BY <2>1, <3>1 DEF k, a
  <2>2. CASE ~(l = k /\ b = a)
    <3>1. \E g \in refs[e] : RegistryOf(g[2]) = l /\ g[3] = b
      BY <2>2, <1>3 DEF Sound, Used
    <3> QED
      BY <3>1, <1>4
  <2> QED
    BY <2>1, <2>2
<1>10. Distinct'
  <2> SUFFICES ASSUME NEW l \in Registry, NEW m \in Registry,
                      NEW b \in Account, NEW c \in Account,
                      registry'[l][b] # None, registry'[l][b] = registry'[m][c]
               PROVE  l = m /\ b = c
    BY DEF Distinct
  <2>1. \A n \in Registry, d \in Account :
          registry[n][d] = entry => n = k /\ d = a
    BY <1>1, <1>2, NoneIsNothing DEF Sound, Distinct, Unused
  <2> QED
    BY <1>3, <2>1 DEF Sound, Distinct
<1>11. OnePermit'
  BY <1>2 DEF Sound, OnePermit
<1> QED
  BY <1>5, <1>6, <1>7, <1>8, <1>9, <1>10, <1>11

(* So do permits taken or given back.                                       *)
LEMMA SoundTakes ==
  ASSUME Sound, NEW h \in Holder, Takes(h) \/ Gives(h)
  PROVE  /\ registry' \in [Registry -> [Account -> Entries \cup {None}]]
         /\ refs' \in [Entries -> SUBSET Holder]
         /\ taken' \in [Entries -> SUBSET Holder]
         /\ \A e \in Entries : taken'[e] \subseteq refs'[e]
         /\ Linked' /\ Used' /\ Distinct' /\ OnePermit'
<1>1. UNCHANGED <<registry, refs>>
  BY DEF Takes, Gives, takePermits, releasePermits
<1>2. Linked' /\ Used' /\ Distinct'
  BY <1>1 DEF Sound, Linked, Used, Distinct
<1>3. CASE Takes(h)
  <2>1. EntryOf(h) \in Entries /\ h \in refs[EntryOf(h)]
    BY <1>3, EntryOfRefers DEF Takes
  <2>2. \A e \in Entries :
          taken'[e] = IF e = EntryOf(h) THEN taken[e] \cup {h} ELSE taken[e]
    BY <1>3, <2>1 DEF Takes, takePermits, Sound, TypeOK
  <2>3. h[2] # "inFlight" => taken[EntryOf(h)] = {}
    BY <1>3 DEF Takes, takePermits, Free
  <2>4. taken' \in [Entries -> SUBSET Holder]
    BY <1>3 DEF Takes, takePermits, Sound, TypeOK
  <2>5. \A e \in Entries : taken'[e] \subseteq refs'[e]
    BY <1>1, <2>1, <2>2 DEF Sound, TypeOK
  <2>6. OnePermit'
    <3> SUFFICES ASSUME NEW e \in Entries, NEW f \in taken'[e], NEW g \in taken'[e],
                        f[2] = "lock", g[2] = "lock"
                 PROVE  f = g
      BY DEF OnePermit
    <3>1. CASE h[2] = "inFlight"
      <4>1. f \in taken[e] /\ g \in taken[e]
        BY <2>2, <3>1
      <4> QED
        BY <4>1 DEF Sound, OnePermit
    <3>2. CASE h[2] # "inFlight" /\ e = EntryOf(h)
      <4>1. taken'[e] = {h}
        BY <2>2, <2>3, <3>2
      <4> QED
        BY <4>1
    <3>3. CASE e # EntryOf(h)
      <4>1. f \in taken[e] /\ g \in taken[e]
        BY <2>2, <3>3
      <4> QED
        BY <4>1 DEF Sound, OnePermit
    <3> QED
      BY <3>1, <3>2, <3>3
  <2> QED
    BY <1>1, <1>2, <2>4, <2>5, <2>6 DEF Sound, TypeOK
<1>4. CASE Gives(h)
  <2>1. \A e \in Entries : taken'[e] = taken[e] \ {h}
    BY <1>4 DEF Gives, releasePermits
  <2>2. taken' \in [Entries -> SUBSET Holder]
    BY <1>4 DEF Gives, releasePermits, Sound, TypeOK
  <2> QED
    BY <1>1, <1>2, <2>1, <2>2 DEF Sound, TypeOK, OnePermit
<1> QED
  BY <1>3, <1>4

(* So does a reference given back: the entry goes with its last one.        *)
LEMMA SoundDrops ==
  ASSUME Sound, NEW h \in Holder, Drops(h)
  PROVE  /\ registry' \in [Registry -> [Account -> Entries \cup {None}]]
         /\ refs' \in [Entries -> SUBSET Holder]
         /\ taken' \in [Entries -> SUBSET Holder]
         /\ \A e \in Entries : taken'[e] \subseteq refs'[e]
         /\ Linked' /\ Used' /\ Distinct' /\ OnePermit'
<1> DEFINE mine == EntryOf(h)
<1>1. mine \in Entries /\ h \in refs[mine]
  BY EntryOfRefers DEF Drops
<1>2. /\ refs' = [refs EXCEPT ![mine] = @ \ {h}]
      /\ registry' = [k \in Registry |-> [a \in Account |->
           IF registry[k][a] = mine /\ refs[mine] = {h} THEN None ELSE registry[k][a]]]
      /\ taken' = taken
  BY DEF Drops, releaseEntry
<1> HIDE DEF mine
<1>3. \A l \in Registry, b \in Account :
        registry'[l][b] = IF registry[l][b] = mine /\ refs[mine] = {h}
                            THEN None ELSE registry[l][b]
  BY <1>2
<1>4. \A e \in Entries : refs'[e] = IF e = mine THEN refs[e] \ {h} ELSE refs[e]
  BY <1>1, <1>2 DEF Sound, TypeOK
<1>5. registry' \in [Registry -> [Account -> Entries \cup {None}]]
  BY <1>2 DEF Sound, TypeOK
<1>6. refs' \in [Entries -> SUBSET Holder] /\ taken' \in [Entries -> SUBSET Holder]
  BY <1>2 DEF Sound, TypeOK
<1>7. \A e \in Entries : taken'[e] \subseteq refs'[e]
  <2>1. \A e \in Entries : h \notin taken[e]
    BY DEF Drops, Holds
  <2> QED
    BY <2>1, <1>2, <1>4 DEF Sound, TypeOK
<1>8. Linked'
  <2> SUFFICES ASSUME NEW e \in Entries, NEW g \in refs'[e]
               PROVE  registry'[RegistryOf(g[2])][g[3]] = e
    BY DEF Linked
  <2>1. g \in refs[e] /\ ~(e = mine /\ refs[mine] = {h})
    BY <1>4
  <2>2. RegistryOf(g[2]) \in Registry /\ g[3] \in Account
    BY <2>1 DEF Sound, TypeOK, Holder, RegistryOf, Registry
  <2>3. registry[RegistryOf(g[2])][g[3]] = e
    BY <2>1 DEF Sound, Linked
  <2> QED
    BY <2>1, <2>2, <2>3, <1>3
<1>9. Used'
  <2> SUFFICES ASSUME NEW l \in Registry, NEW b \in Account, NEW e \in Entries,
                      registry'[l][b] = e
               PROVE  \E g \in refs'[e] : RegistryOf(g[2]) = l /\ g[3] = b
    BY DEF Used
  <2>1. registry[l][b] = e /\ ~(e = mine /\ refs[mine] = {h})
    BY <1>3, NoneIsNothing
  <2>2. PICK g \in refs[e] : RegistryOf(g[2]) = l /\ g[3] = b
    BY <2>1 DEF Sound, Used
  <2>3. CASE e # mine
    BY <2>2, <2>3, <1>4
  <2>4. CASE e = mine
    <3>1. PICK other \in refs[mine] : other # h
      BY <2>1, <2>4, <1>1
    <3>2. registry[RegistryOf(other[2])][other[3]] = mine
      BY <3>1, <1>1 DEF Sound, Linked
    <3>3. RegistryOf(other[2]) \in Registry /\ other[3] \in Account
      BY <3>1, <1>1 DEF Sound, TypeOK, Holder, RegistryOf, Registry
    <3>4. RegistryOf(other[2]) = l /\ other[3] = b
      BY <2>1, <2>4, <3>2, <3>3, NoneIsNothing DEF Sound, Distinct
    <3> QED
      BY <1>4, <2>4, <3>1, <3>4
  <2> QED
    BY <2>3, <2>4
<1>10. Distinct'
  BY <1>3 DEF Sound, Distinct
<1>11. OnePermit'
  BY <1>2 DEF Sound, OnePermit
<1> QED
  BY <1>5, <1>6, <1>7, <1>8, <1>9, <1>10, <1>11
-----------------------------------------------------------------------------
(* Typing and the registries through every step.                            *)

(* The empty registries are sound.                                          *)
LEMMA SoundInit == Init => Sound
<1> SUFFICES ASSUME Init PROVE Sound
  OBVIOUS
<1>1. NoCall \in Recipes
  BY RecipesAreRecipes DEF NoCall
<1>2. TypeOK
  BY <1>1, MaxRunsIsNatural DEF Init, TypeOK, Registry, Pc
<1>3. Linked /\ OnePermit
  BY DEF Init, Linked, OnePermit
<1>4. Used /\ Distinct
  BY NoneIsNothing DEF Init, Used, Distinct
<1> QED
  BY <1>2, <1>3, <1>4 DEF Sound

(* The control variables keep their types.                                  *)
LEMMA ControlTypes ==
  ASSUME TypeOK, NEW r \in Runs, run(r) \/ Step(r) \/ Interrupt(r)
  PROVE  /\ pc' \in [Runs -> Pc]
         /\ recipe' \in [Runs -> Recipes]
         /\ started' \in [Runs -> 0..MaxRuns]
<1>1. CASE run(r)
  BY <1>1, MaxRunsIsNatural DEF run, TypeOK, Pc
<1>2. CASE end(r)
  <2>1. NoCall \in Recipes
    BY RecipesAreRecipes DEF NoCall
  <2> QED
    BY <1>2, <2>1 DEF end, Goto, Stay, TypeOK, Pc
<1>3. CASE (Step(r) /\ ~end(r)) \/ Interrupt(r)
  BY <1>3 DEF Step, Interrupt, Goto, Stay, senderLocked, drainInFlight, drainTake,
    drainGive, build, buildFails, registerInFlight, releaseLocks, finish, TypeOK, Pc
<1> QED
  BY <1>1, <1>2, <1>3

(* Every step keeps the registries sound.                                   *)
LEMMA SoundStep ==
  ASSUME Sound, [Next]_vars
  PROVE  Sound'
<1>1. CASE UNCHANGED vars
  BY <1>1 DEF vars, Sound, TypeOK, Linked, Used, Distinct, OnePermit
<1>2. CASE Next
  <2>1. PICK r \in Runs : run(r) \/ Step(r) \/ Interrupt(r)
    BY <1>2 DEF Next
  <2>2. TypeOK
    BY DEF Sound
  <2>3. /\ pc' \in [Runs -> Pc]
        /\ recipe' \in [Runs -> Recipes]
        /\ started' \in [Runs -> 0..MaxRuns]
    BY <2>1, <2>2, ControlTypes
  <2>4. CASE UNCHANGED Semaphores
    BY <2>3, <2>4 DEF Semaphores, Sound, TypeOK, Linked, Used, Distinct, OnePermit
  <2>5. CASE \E hold \in Hold, a \in Account : Changes(<<r, hold, a>>)
    <3>1. PICK h \in Holder : Changes(h)
      BY <2>5 DEF Holder
    <3>2. /\ registry' \in [Registry -> [Account -> Entries \cup {None}]]
          /\ refs' \in [Entries -> SUBSET Holder]
          /\ taken' \in [Entries -> SUBSET Holder]
          /\ \A e \in Entries : taken'[e] \subseteq refs'[e]
          /\ Linked' /\ Used' /\ Distinct' /\ OnePermit'
      BY <3>1, SoundAcquires, SoundTakes, SoundDrops DEF Changes
    <3> QED
      BY <2>3, <3>2 DEF Sound, TypeOK
  <2> QED
    BY <2>1, <2>2, <2>4, <2>5, StepIsChange
<1> QED
  BY <1>1, <1>2

(* The variables of SenderLock keep their types, and no run holds permits   *)
(* of an entry it has given up its reference to.                            *)
THEOREM TypeCorrect == Spec => []TypeOK
<1>1. Sound => TypeOK
  BY DEF Sound
<1> QED
  BY <1>1, SoundInit, SoundStep, PTL DEF Spec

(* An address has an entry exactly while a run refers to it, and every run  *)
(* refers to the entry the next one will find: an entry dropped too early   *)
(* would let two runs wait on two semaphores for one address.               *)
THEOREM EntriesAreLive == Spec => []EntriesLiveWhileUsed
<1>1. Sound => EntriesLiveWhileUsed
  <2> SUFFICES ASSUME Sound, NEW k \in Registry, NEW a \in Account, NEW e \in Entries
               PROVE  registry[k][a] = e
                        <=> \E h \in refs[e] : RegistryOf(h[2]) = k /\ h[3] = a
    BY DEF EntriesLiveWhileUsed
  <2> QED
    BY DEF Sound, Linked, Used
<1> QED
  BY <1>1, SoundInit, SoundStep, PTL DEF Spec
-----------------------------------------------------------------------------
(* Between its locks a run holds them.                                      *)

(* What one holder does takes no permits from another.                      *)
LEMMA OthersKeepHolding ==
  ASSUME TypeOK, NEW h, NEW g, g # h, Changes(h), Holds(g)
  PROVE  Holds(g)'
<1>1. PICK e \in Entries : g \in taken[e]
  BY DEF Holds
<1>2. g \in taken'[e]
  BY <1>1 DEF Changes, Acquires, Takes, Gives, Drops, acquireEntry, takePermits,
    releasePermits, releaseEntry, TypeOK
<1> QED
  BY <1>1, <1>2 DEF Holds

(* A run of the same call locks the same accounts.                          *)
LEMMA SameRecipe ==
  ASSUME NEW r, recipe'[r] = recipe[r]
  PROVE  Locked(r)' = Locked(r) /\ Policy(r)' = Policy(r)
BY DEF Locked, locked, payer, Sender, Policy, lockSenderPolicyOf

(* How a run comes to be between its locks: it was, or it has just taken    *)
(* the last.                                                                *)
LEMMA Enters ==
  ASSUME TypeOK, NEW r \in Runs, run(r) \/ Step(r) \/ Interrupt(r), Inside(r)'
  PROVE  /\ recipe' = recipe
         /\ \/ Inside(r)
            \/ Missing(r, "lock") = {} /\ UNCHANGED Semaphores
<1> USE DEF Goto, Stay
<1>1. CASE run(r)
  <2>1. pc'[r] = IF Policy(r)' = "never" THEN "building" ELSE "locking"
    BY <1>1 DEF run, TypeOK, Policy
  <2> QED
    BY <2>1 DEF Inside
<1>2. CASE Interrupt(r) \/ finish(r) \/ buildFails(r)
  BY <1>2 DEF Interrupt, finish, buildFails, Inside, TypeOK
<1>3. CASE releaseLocks(r) \/ end(r)
  BY <1>3 DEF releaseLocks, end, Inside, TypeOK
<1>4. CASE senderLocked(r)
  BY <1>4 DEF senderLocked, Inside, TypeOK
<1>5. CASE drainInFlight(r) \/ drainTake(r) \/ drainGive(r)
  <2>1. recipe' = recipe /\ pc[r] \in {"locked", "draining", "drained"}
    BY <1>5 DEF drainInFlight, drainTake, drainGive
  <2> QED
    BY <2>1, SameRecipe DEF Inside
<1>6. CASE build(r) \/ registerInFlight(r)
  <2>1. recipe' = recipe /\ pc[r] \in {"building", "registering"}
    BY <1>6 DEF build, registerInFlight
  <2> QED
    BY <2>1, SameRecipe DEF Inside
<1> QED
  BY <1>1, <1>2, <1>3, <1>4, <1>5, <1>6 DEF Step

(* A run that misses no lock holds them all.                                *)
LEMMA AllTaken ==
  ASSUME TypeOK, NEW r \in Runs, Missing(r, "lock") = {}, NEW a \in Locked(r)
  PROVE  Holds(<<r, "lock", a>>)
<1>1. locked(r) \in Seq(Account)
  BY KeysAreAccounts DEF Hold
<1>2. PICK i \in 1..Len(locked(r)) : a = locked(r)[i]
  BY <1>1 DEF Locked, ToSet
<1> QED
  BY <1>2 DEF Missing, Keys

(* Every step keeps who is between its locks holding them.                  *)
LEMMA InsideStep ==
  ASSUME TypeOK, InsideHolds, [Next]_vars
  PROVE  InsideHolds'
<1>1. CASE UNCHANGED vars
  BY <1>1, SameRecipe DEF vars, InsideHolds, Inside, Holds
<1>2. CASE Next
  <2>1. PICK r \in Runs : run(r) \/ Step(r) \/ Interrupt(r)
    BY <1>2 DEF Next
  <2> SUFFICES ASSUME NEW q \in Runs, Inside(q)', NEW a \in Locked(q)'
               PROVE  Holds(<<q, "lock", a>>)'
    BY DEF InsideHolds
  <2>2. CASE UNCHANGED Semaphores
    <3>1. Holds(<<q, "lock", a>>) => Holds(<<q, "lock", a>>)'
      BY <2>2 DEF Semaphores, Holds
    <3>2. CASE q = r
      <4>1. recipe' = recipe /\ (Inside(q) \/ Missing(q, "lock") = {})
        BY <2>1, <3>2, Enters
      <4>2. a \in Locked(q)
        BY <4>1, SameRecipe
      <4> QED
        BY <3>1, <4>1, <4>2, AllTaken DEF InsideHolds
    <3>3. CASE q # r
      <4>1. recipe'[q] = recipe[q] /\ pc'[q] = pc[q]
        BY <2>1, <3>3 DEF run, Step, Interrupt, Goto, Stay, senderLocked,
          drainInFlight, drainTake, drainGive, build, buildFails, registerInFlight,
          releaseLocks, finish, end, TypeOK
      <4>2. Inside(q) /\ a \in Locked(q)
        BY <4>1, SameRecipe DEF Inside
      <4> QED
        BY <3>1, <4>2 DEF InsideHolds
    <3> QED
      BY <3>2, <3>3
  <2>3. CASE ~UNCHANGED Semaphores
    <3>1. PICK hold \in Hold, b \in Account :
            /\ Changes(<<r, hold, b>>)
            /\ hold = "lock" => pc[r] \in {"locking", "releasing", "ending"}
      BY <2>1, <2>3, StepIsChange
    <3>2. CASE q = r
      <4>1. recipe' = recipe /\ Inside(q)
        BY <2>1, <2>3, <3>2, Enters
      <4>2. hold # "lock"
        BY <3>1, <3>2, <4>1 DEF Inside
      <4>3. Holds(<<q, "lock", a>>)
        BY <4>1, SameRecipe DEF InsideHolds
      <4> QED
        BY <3>1, <4>2, <4>3, OthersKeepHolding
    <3>3. CASE q # r
      <4>1. recipe'[q] = recipe[q] /\ pc'[q] = pc[q]
        BY <2>1, <3>3 DEF run, Step, Interrupt, Goto, Stay, senderLocked,
          drainInFlight, drainTake, drainGive, build, buildFails, registerInFlight,
          releaseLocks, finish, end, TypeOK
      <4>2. Holds(<<q, "lock", a>>)
        BY <4>1, SameRecipe DEF Inside, InsideHolds
      <4> QED
        BY <3>1, <3>3, <4>2, OthersKeepHolding
    <3> QED
      BY <3>2, <3>3
  <2> QED
    BY <2>2, <2>3
<1> QED
  BY <1>1, <1>2

(* The only permit of a lock has one holder.                                *)
LEMMA Excludes ==
  ASSUME Sound, InsideHolds
  PROVE  BuildersExclusive
<1> SUFFICES ASSUME NEW r \in Runs, NEW q \in Runs, Inside(r), Inside(q),
                    NEW a \in Locked(r) \cap Locked(q)
             PROVE  r = q
  BY DEF BuildersExclusive
<1>1. PICK e \in Entries : <<r, "lock", a>> \in taken[e]
  BY DEF InsideHolds, Holds
<1>2. PICK f \in Entries : <<q, "lock", a>> \in taken[f]
  BY DEF InsideHolds, Holds
<1>3. registry["lock"][a] = e /\ registry["lock"][a] = f
  BY <1>1, <1>2 DEF Sound, TypeOK, Linked, RegistryOf
<1>4. <<r, "lock", a>> = <<q, "lock", a>>
  BY <1>1, <1>2, <1>3 DEF Sound, OnePermit
<1> QED
  BY <1>4

(* Two runs that lock one account, as sender or as gas owner and in         *)
(* whatever spelling, are never both between their locks.                   *)
THEOREM MutualExclusion == Spec => []BuildersExclusive
<1>1. Init => InsideHolds
  BY DEF Init, InsideHolds, Inside
<1>2. Sound => TypeOK
  BY DEF Sound
<1> QED
  BY <1>1, <1>2, SoundInit, SoundStep, InsideStep, Excludes, PTL DEF Spec
-----------------------------------------------------------------------------
(* Where a run can be while it refers to an entry for one of its holds.     *)
Where(hold) ==
  CASE hold = "lock" -> {"locking", "locked", "draining", "drained", "building",
                         "registering", "releasing", "finishing", "ending"}
    [] hold = "drain" -> {"draining", "drained", "ending"}
    [] hold = "inFlight" -> {"registering", "releasing", "free", "ending"}

(* Every reference is one its run asked for in this call and has to give    *)
(* back: none outlives the call or its place in it.                         *)
Placed ==
  \A e \in Entries : \A h \in refs[e] :
    pc[h[1]] \in Where(h[2]) /\ h[3] \in ToSet(Keys(h[1], h[2]))

(* Who locks, or was locked, does not run under "never".                    *)
Willing(r) ==
  pc[r] \in {"locking", "locked", "draining", "drained", "registering",
             "releasing", "free"} => Policy(r) # "never"

(* The second lock is not asked for before the first is taken, and the      *)
(* first is the smaller account.                                            *)
Ascending(r) ==
  pc[r] = "locking" =>
    \A a, b \in Locked(r) :
      a < b /\ Refers(<<r, "lock", b>>) => Holds(<<r, "lock", a>>)

(* A run that waits to drain has its reference to the entry it drains.      *)
Draining(r) ==
  pc[r] = "draining" => drains(r) \in Account /\ Refers(<<r, "drain", drains(r)>>)

(* Who gives its locks back is in flight on every account it concerns.      *)
Registered(r) ==
  pc[r] \in {"releasing", "free"} =>
    \A a \in ToSet(inFlightOn(r)) : Holds(<<r, "inFlight", a>>)

Orderly ==
  /\ Placed
  /\ \A r \in Runs : Willing(r) /\ Ascending(r) /\ Draining(r) /\ Registered(r)

(* The reservation is quiet from the end of the drain on, and already when  *)
(* the other begins to give its locks back.                                 *)
Quiet ==
  \A r, q \in Runs :
    /\ pc[r] \in {"drained", "building", "finishing"}
    /\ Policy(r) = "whenPinned"
    /\ drains(r) \in Locked(r)
    /\ pc[q] \in {"releasing", "free"}
    => drains(r) \notin Locked(q)

-----------------------------------------------------------------------------
(* What a step does to the run that takes it, and not to the others.        *)

(* A step of one run leaves the others where they are.                      *)
LEMMA OthersStay ==
  ASSUME TypeOK, NEW r \in Runs, run(r) \/ Step(r) \/ Interrupt(r),
         NEW q \in Runs, q # r
  PROVE  recipe'[q] = recipe[q] /\ pc'[q] = pc[q]
BY DEF run, Step, Interrupt, Goto, Stay, senderLocked, drainInFlight, drainTake,
  drainGive, build, buildFails, registerInFlight, releaseLocks, finish, end, TypeOK

(* A run of the same call drains and registers on the same accounts.        *)
LEMMA SameCall ==
  ASSUME NEW r, recipe'[r] = recipe[r]
  PROVE  /\ drains(r)' = drains(r)
         /\ inFlightOn(r)' = inFlightOn(r)
         /\ \A hold : Keys(r, hold)' = Keys(r, hold)
BY DEF drains, inFlightOn, Keys, locked, payer, Sender

(* A step of one run takes nothing from another and gives it nothing.       *)
LEMMA OthersUntouched ==
  ASSUME TypeOK, NEW r \in Runs, run(r) \/ Step(r) \/ Interrupt(r),
         NEW q, q # r, NEW hold, NEW a
  PROVE  /\ Refers(<<q, hold, a>>)' <=> Refers(<<q, hold, a>>)
         /\ Holds(<<q, hold, a>>)' <=> Holds(<<q, hold, a>>)
<1> DEFINE g == <<q, hold, a>>
<1>1. CASE UNCHANGED Semaphores
  BY <1>1 DEF Semaphores, Refers, Holds
<1>2. CASE \E kind \in Hold, b \in Account : Changes(<<r, kind, b>>)
  <2>1. PICK kind \in Hold, b \in Account : Changes(<<r, kind, b>>)
    BY <1>2
  <2> DEFINE h == <<r, kind, b>>
  <2>2. g # h
    OBVIOUS
  <2>3. Changes(h)
    BY <2>1
  <2> HIDE DEF g, h
  <2>4. \A e \in Entries : g \in refs'[e] <=> g \in refs[e]
    <3> SUFFICES ASSUME NEW e \in Entries PROVE g \in refs'[e] <=> g \in refs[e]
      OBVIOUS
    <3>1. CASE Acquires(h)
      <4>1. \E entry : refs' = [refs EXCEPT ![entry] = @ \cup {h}] /\ taken' = taken
        BY <3>1 DEF Acquires, acquireEntry
      <4> QED
        BY <2>2, <4>1 DEF TypeOK
    <3>2. CASE Takes(h)
      BY <2>2, <3>2 DEF Takes, takePermits, TypeOK
    <3>3. CASE Gives(h)
      BY <2>2, <3>3 DEF Gives, releasePermits, TypeOK
    <3>4. CASE Drops(h)
      BY <2>2, <3>4 DEF Drops, releaseEntry, TypeOK
    <3> QED
      BY <2>3, <3>1, <3>2, <3>3, <3>4 DEF Changes
  <2>5. \A e \in Entries : g \in taken'[e] <=> g \in taken[e]
    <3> SUFFICES ASSUME NEW e \in Entries PROVE g \in taken'[e] <=> g \in taken[e]
      OBVIOUS
    <3>1. CASE Acquires(h)
      <4>1. \E entry : refs' = [refs EXCEPT ![entry] = @ \cup {h}] /\ taken' = taken
        BY <3>1 DEF Acquires, acquireEntry
      <4> QED
        BY <2>2, <4>1 DEF TypeOK
    <3>2. CASE Takes(h)
      BY <2>2, <3>2 DEF Takes, takePermits, TypeOK
    <3>3. CASE Gives(h)
      BY <2>2, <3>3 DEF Gives, releasePermits, TypeOK
    <3>4. CASE Drops(h)
      BY <2>2, <3>4 DEF Drops, releaseEntry, TypeOK
    <3> QED
      BY <2>3, <3>1, <3>2, <3>3, <3>4 DEF Changes
  <2>6. Refers(g)' <=> Refers(g)
    BY <2>4 DEF Refers
  <2>7. Holds(g)' <=> Holds(g)
    BY <2>5 DEF Holds
  <2> QED
    BY <2>6, <2>7 DEF g
<1> QED
  BY <1>1, <1>2, StepIsChange

(* The call a step makes: in its place, for the first thing missing or the  *)
(* last thing held.                                                         *)
Asks(r, hold) ==
  /\ acquireNext(r, hold)
  /\ <<hold, pc[r], pc'[r]>> \in
       {<<"lock", "locking", "locking">>, <<"drain", "locked", "draining">>,
        <<"drain", "draining", "drained">>, <<"inFlight", "registering", "registering">>}

Returns(r, hold) ==
  /\ releaseLast(r, hold)
  /\ pc'[r] = pc[r]
  /\ \/ pc[r] = "ending"
     \/ pc[r] = "drained" /\ hold = "drain"
     \/ pc[r] = "releasing" /\ hold = "lock"

(* Every step makes one such call, or leaves the semaphores alone.          *)
LEMMA StepCalls ==
  ASSUME TypeOK, NEW r \in Runs, run(r) \/ Step(r) \/ Interrupt(r)
  PROVE  \/ UNCHANGED Semaphores
         \/ recipe' = recipe /\ \E hold \in Hold : Asks(r, hold) \/ Returns(r, hold)
<1> USE DEF Hold, Asks, Returns, Goto, Stay, TypeOK
<1>1. CASE run(r) \/ Interrupt(r) \/ build(r) \/ buildFails(r) \/ finish(r)
  BY <1>1 DEF run, Interrupt, build, buildFails, finish
<1>2. CASE senderLocked(r)
  BY <1>2 DEF senderLocked
<1>3. CASE drainInFlight(r)
  BY <1>3 DEF drainInFlight
<1>4. CASE drainTake(r)
  BY <1>4 DEF drainTake
<1>5. CASE drainGive(r)
  BY <1>5 DEF drainGive
<1>6. CASE registerInFlight(r)
  BY <1>6 DEF registerInFlight
<1>7. CASE releaseLocks(r)
  BY <1>7 DEF releaseLocks
<1>8. CASE end(r)
  BY <1>8 DEF end, Semaphores
<1> QED
  BY <1>1, <1>2, <1>3, <1>4, <1>5, <1>6, <1>7, <1>8 DEF Step

(* A run with nothing held for a purpose refers to nothing for it.          *)
LEMMA NothingHeld ==
  ASSUME TypeOK, Placed, NEW r \in Runs, NEW hold \in Hold, Held(r, hold) = {},
         NEW e \in Entries, NEW h \in refs[e]
  PROVE  ~(h[1] = r /\ h[2] = hold)
<1> SUFFICES ASSUME h[1] = r, h[2] = hold PROVE FALSE
  OBVIOUS
<1>1. h = <<r, hold, h[3]>> /\ h[3] \in ToSet(Keys(r, hold))
  BY DEF TypeOK, Holder, Placed
<1>2. Keys(r, hold) \in Seq(Account)
  BY KeysAreAccounts
<1>3. PICK i \in 1..Len(Keys(r, hold)) : h[3] = Keys(r, hold)[i]
  BY <1>1, <1>2 DEF ToSet
<1>4. Refers(<<r, hold, Keys(r, hold)[i]>>)
  BY <1>1, <1>3 DEF Refers
<1> QED
  BY <1>3, <1>4 DEF Held

(* A step that leaves the semaphores alone takes its run nowhere a thing it *)
(* still refers to should not be.                                           *)
LEMMA StaysInPlace ==
  ASSUME TypeOK, Placed, NEW r \in Runs, run(r) \/ Step(r) \/ Interrupt(r),
         UNCHANGED Semaphores, NEW e \in Entries, NEW h \in refs[e], h[1] = r
  PROVE  pc'[r] \in Where(h[2]) /\ recipe'[r] = recipe[r]
<1> USE DEF Hold, Goto, Stay, Where
<1>1. pc[r] \in Where(h[2]) /\ h[2] \in Hold
  BY DEF Placed, TypeOK, Holder
<1>2. pc \in [Runs -> Pc]
  BY DEF TypeOK
<1>3. CASE run(r)
  BY <1>1, <1>3 DEF run
<1>4. CASE Interrupt(r) \/ finish(r) \/ buildFails(r)
  BY <1>1, <1>2, <1>4 DEF Interrupt, finish, buildFails
<1>5. CASE senderLocked(r)
  BY <1>1, <1>2, <1>5 DEF senderLocked
<1>6. CASE drainInFlight(r)
  BY <1>1, <1>2, <1>6 DEF drainInFlight
<1>7. CASE drainTake(r)
  BY <1>1, <1>2, <1>7 DEF drainTake
<1>8. CASE drainGive(r)
  BY <1>1, <1>2, <1>8, NothingHeld DEF drainGive
<1>9. CASE build(r)
  BY <1>1, <1>2, <1>9 DEF build
<1>10. CASE registerInFlight(r)
  BY <1>1, <1>2, <1>10 DEF registerInFlight
<1>11. CASE releaseLocks(r)
  BY <1>1, <1>2, <1>11, NothingHeld DEF releaseLocks
<1>12. CASE end(r)
  <2>1. CASE \A hold \in Hold : Held(r, hold) = {}
    BY <1>1, <2>1, NothingHeld
  <2>2. CASE \E hold \in Hold : Held(r, hold) # {}
    BY <1>1, <1>2, <1>12, <2>2 DEF end
  <2> QED
    BY <2>1, <2>2
<1> QED
  BY <1>3, <1>4, <1>5, <1>6, <1>7, <1>8, <1>9, <1>10, <1>11, <1>12 DEF Step

(* The one reference that can be new is the one asked for.                  *)
LEMMA NewReference ==
  ASSUME TypeOK, NEW r \in Runs, NEW hold \in Hold, Asks(r, hold) \/ Returns(r, hold),
         NEW e \in Entries, NEW h \in refs'[e], h \notin refs[e]
  PROVE  Asks(r, hold) /\ h[1] = r /\ h[2] = hold /\ h[3] \in ToSet(Keys(r, hold))
<1>1. CASE Returns(r, hold)
  <2>1. PICK g : refs' = refs \/ refs' = [refs EXCEPT ![EntryOf(g)] = @ \ {g}]
    BY <1>1 DEF Returns, releaseLast, releasePermits, releaseEntry
  <2> QED
    BY <2>1 DEF TypeOK
<1>2. CASE Asks(r, hold)
  <2>1. PICK i \in Missing(r, hold) :
          LET g == <<r, hold, Keys(r, hold)[i]>>
          IN IF Refers(g) THEN takePermits(g) ELSE acquireEntry(g)
    BY <1>2 DEF Asks, acquireNext
  <2>2. PICK entry : \/ refs' = refs
                     \/ refs' = [refs EXCEPT ![entry] = @ \cup {<<r, hold, Keys(r, hold)[i]>>}]
    BY <2>1 DEF takePermits, acquireEntry
  <2>3. h = <<r, hold, Keys(r, hold)[i]>>
    BY <2>2 DEF TypeOK
  <2>4. Keys(r, hold)[i] \in ToSet(Keys(r, hold))
    BY <2>1 DEF Missing, ToSet
  <2> QED
    BY <1>2, <2>3, <2>4
<1> QED
  BY <1>1, <1>2

(* Every step keeps the references where they belong.                       *)
LEMMA PlacedStep ==
  ASSUME TypeOK, TypeOK', Placed, NEW r \in Runs, run(r) \/ Step(r) \/ Interrupt(r)
  PROVE  Placed'
<1> SUFFICES ASSUME NEW e \in Entries, NEW h \in refs'[e]
             PROVE  pc'[h[1]] \in Where(h[2]) /\ h[3] \in ToSet(Keys(h[1], h[2])')
  BY DEF Placed
<1>1. h \in Holder
  BY DEF TypeOK
<1>2. h[1] \in Runs /\ h[2] \in Hold /\ h = <<h[1], h[2], h[3]>>
  BY <1>1 DEF Holder
<1>3. CASE h[1] # r
  <2>1. recipe'[h[1]] = recipe[h[1]] /\ pc'[h[1]] = pc[h[1]]
    BY <1>2, <1>3, OthersStay
  <2>2. Refers(h)'
    BY DEF Refers
  <2>3. Refers(h)
    BY <1>2, <1>3, <2>2, OthersUntouched
  <2>4. pc[h[1]] \in Where(h[2]) /\ h[3] \in ToSet(Keys(h[1], h[2]))
    BY <2>3 DEF Refers, Placed
  <2> QED
    BY <2>1, <2>4, SameCall
<1>4. CASE h[1] = r /\ UNCHANGED Semaphores
  <2>1. h \in refs[e]
    BY <1>4 DEF Semaphores
  <2>2. pc'[r] \in Where(h[2]) /\ recipe'[r] = recipe[r]
    BY <1>4, <2>1, StaysInPlace
  <2>3. h[3] \in ToSet(Keys(r, h[2]))
    BY <1>4, <2>1 DEF Placed
  <2> QED
    BY <1>4, <2>2, <2>3, SameCall
<1>5. CASE h[1] = r /\ ~UNCHANGED Semaphores
  <2>1. PICK hold \in Hold : recipe' = recipe /\ (Asks(r, hold) \/ Returns(r, hold))
    BY <1>5, StepCalls
  <2>2. CASE h \in refs[e]
    <3>1. pc[r] \in Where(h[2]) /\ h[3] \in ToSet(Keys(r, h[2]))
      BY <1>5, <2>2 DEF Placed
    <3>2. pc'[r] \in Where(h[2])
      BY <1>2, <2>1, <3>1 DEF Asks, Returns, Where, Hold
    <3> QED
      BY <1>5, <2>1, <3>1, <3>2, SameCall
  <2>3. CASE h \notin refs[e]
    <3>1. Asks(r, hold) /\ h[2] = hold /\ h[3] \in ToSet(Keys(r, hold))
      BY <2>1, <2>3, NewReference
    <3>2. pc'[r] \in Where(hold)
      BY <3>1 DEF Asks, Where
    <3> QED
      BY <1>5, <2>1, <3>1, <3>2, SameCall
  <2> QED
    BY <2>2, <2>3
<1> QED
  BY <1>3, <1>4, <1>5

-----------------------------------------------------------------------------
(* The lines of Orderly about the run itself.                               *)

(* Every step keeps who runs under never out of the places of locking.      *)
LEMMA WillingStep ==
  ASSUME TypeOK, NEW r \in Runs, run(r) \/ Step(r) \/ Interrupt(r), Willing(r)
  PROVE  Willing(r)'
<1> USE DEF Goto, Stay, Willing, TypeOK
<1>1. CASE run(r)
  <2>1. pc'[r] = IF Policy(r)' = "never" THEN "building" ELSE "locking"
    BY <1>1 DEF run, Policy
  <2> QED
    BY <2>1
<1>2. CASE end(r)
  BY <1>2, SameRecipe DEF end
<1>3. CASE build(r)
  <2>1. recipe' = recipe
    BY <1>3 DEF build
  <2>2. pc'[r] = "registering" => Policy(r) = "whenPinned"
    BY <1>3 DEF build
  <2>3. pc'[r] \in {"registering", "finishing"}
    BY <1>3 DEF build
  <2>4. Policy(r)' = Policy(r)
    BY <2>1, SameRecipe
  <2> QED
    BY <2>2, <2>3, <2>4
<1>4. CASE (Step(r) /\ ~end(r) /\ ~build(r)) \/ Interrupt(r)
  <2>1. recipe' = recipe
    BY <1>4 DEF Step, Interrupt, senderLocked, drainInFlight, drainTake, drainGive,
      buildFails, registerInFlight, releaseLocks, finish
  <2>2. \/ pc'[r] \in {"building", "ending"}
        \/ pc[r] \in {"locking", "locked", "draining", "drained", "registering",
                      "releasing", "free"}
    BY <1>4 DEF Step, Interrupt, senderLocked, drainInFlight, drainTake, drainGive,
      buildFails, registerInFlight, releaseLocks, finish
  <2>3. Policy(r)' = Policy(r)
    BY <2>1, SameRecipe
  <2> QED
    BY <2>2, <2>3
<1> QED
  BY <1>1, <1>2, <1>3, <1>4

(* A run locks accounts in their order, and registers on all it locks.      *)
LEMMA LocksAscend ==
  ASSUME TypeOK, NEW r \in Runs
  PROVE  /\ Locked(r) \subseteq Account
         /\ Len(locked(r)) \in Nat
         /\ \A i, j \in 1..Len(locked(r)) : locked(r)[i] < locked(r)[j] => i < j
         /\ Locked(r) = {locked(r)[i] : i \in 1..Len(locked(r))}
         /\ Locked(r) \subseteq ToSet(inFlightOn(r))
<1>1. recipe[r] \in Recipe
  BY RecipesAreRecipes DEF TypeOK
<1>2. recipe[r].sender \in Spelled /\ recipe[r].gasOwner \in Spelled \cup {None}
  BY <1>1 DEF Recipe
<1>3. Sender(r) \in Account
  BY <1>2, SpellingsAreNormalized DEF Sender
<1>4. payer(r) \in Account \cup {None} /\ payer(r) # Sender(r)
  BY <1>2, <1>3, SpellingsAreNormalized, NoneIsNothing DEF payer
<1>5. Account \subseteq Nat
  BY AccountsAreOrdered
<1> DEFINE s == Sender(r)
           p == payer(r)
<1>6. locked(r) = IF p = None \/ recipe[r].addressBalance THEN <<s>>
                 ELSE IF s < p THEN <<s, p>> ELSE <<p, s>>
  BY DEF locked
<1>7. \/ locked(r) = <<s>>
      \/ locked(r) = <<s, p>> /\ p \in Account /\ s < p
      \/ locked(r) = <<p, s>> /\ p \in Account /\ p < s
  <2>1. p # None => p \in Nat /\ s \in Nat /\ p # s /\ p \in Account
    BY <1>3, <1>4, <1>5
  <2> HIDE DEF s, p
  <2>2. p # None => s < p \/ p < s
    BY <2>1
  <2> QED
    BY <1>6, <2>1, <2>2
<1>8. inFlightOn(r) = IF p = None THEN <<s>> ELSE <<s, p>>
  BY DEF inFlightOn
<1>9. p = None => locked(r) = <<s>>
  BY DEF locked
<1>10. s \in Account /\ (p \in Account \/ p = None) /\ None \notin Account
  BY <1>3, <1>4, NoneIsNothing
<1> HIDE DEF s, p
<1>11. Locked(r) = {locked(r)[i] : i \in 1..Len(locked(r))}
  BY DEF Locked, ToSet
<1>12. CASE locked(r) = <<s>>
  <2>1. ToSet(inFlightOn(r)) = {inFlightOn(r)[i] : i \in 1..Len(inFlightOn(r))}
    BY DEF ToSet
  <2>2. Len(locked(r)) = 1 /\ locked(r)[1] = s
    BY <1>12
  <2>3. inFlightOn(r)[1] = s /\ Len(inFlightOn(r)) >= 1 /\ Len(inFlightOn(r)) \in Nat
    BY <1>8
  <2>4. s \in ToSet(inFlightOn(r))
    BY <2>1, <2>3
  <2> QED
    BY <1>5, <1>10, <1>11, <2>2, <2>4
<1>13. CASE locked(r) = <<s, p>> /\ p \in Account /\ s < p
  <2>1. Len(locked(r)) = 2 /\ locked(r)[1] = s /\ locked(r)[2] = p
    BY <1>13
  <2>2. inFlightOn(r) = locked(r)
    BY <1>8, <1>10, <1>13
  <2>3. \A i \in 1..Len(locked(r)) : i = 1 \/ i = 2
    BY <2>1
  <2>4. Locked(r) \subseteq Account
    BY <1>10, <1>11, <1>13, <2>1, <2>3
  <2>5. \A i, j \in 1..Len(locked(r)) : locked(r)[i] < locked(r)[j] => i < j
    BY <1>5, <1>10, <1>13, <2>1, <2>3
  <2> QED
    BY <1>11, <2>1, <2>2, <2>4, <2>5 DEF Locked
<1>14. CASE locked(r) = <<p, s>> /\ p \in Account /\ p < s
  <2>1. Len(locked(r)) = 2 /\ locked(r)[1] = p /\ locked(r)[2] = s
    BY <1>14
  <2>2. inFlightOn(r) = <<s, p>>
    BY <1>8, <1>10, <1>14
  <2>3. ToSet(inFlightOn(r)) = {inFlightOn(r)[i] : i \in 1..Len(inFlightOn(r))}
    BY DEF ToSet
  <2>4. s \in ToSet(inFlightOn(r)) /\ p \in ToSet(inFlightOn(r))
    BY <2>2, <2>3
  <2>5. \A i \in 1..Len(locked(r)) : i = 1 \/ i = 2
    BY <2>1
  <2>6. Locked(r) \subseteq {s, p}
    BY <1>11, <2>1, <2>5
  <2>7. \A i, j \in 1..Len(locked(r)) : locked(r)[i] < locked(r)[j] => i < j
    BY <1>5, <1>10, <1>14, <2>1, <2>5
  <2> QED
    BY <1>10, <1>11, <1>14, <2>1, <2>4, <2>6, <2>7
<1> QED
  BY <1>7, <1>12, <1>13, <1>14
(* An idle run refers to nothing.                                           *)
LEMMA NoneReferred ==
  ASSUME TypeOK, Placed, NEW r \in Runs, pc[r] = "idle", NEW hold, NEW a
  PROVE  ~Refers(<<r, hold, a>>)
<1> SUFFICES ASSUME NEW e \in Entries, <<r, hold, a>> \in refs[e] PROVE FALSE
  BY DEF Refers
<1>1. pc[r] \in Where(hold) /\ hold \in Hold
  BY DEF Placed, TypeOK, Holder
<1> QED
  BY <1>1 DEF Where, Hold

(* What one acquireNext leaves: its run refers to the thing it asked for,   *)
(* the first it missed, and the permits taken stay taken.                   *)
LEMMA Acquired ==
  ASSUME TypeOK, NEW r \in Runs, NEW hold \in Hold, acquireNext(r, hold)
  PROVE  \E i \in Missing(r, hold), h \in Holder :
           /\ h = <<r, hold, Keys(r, hold)[i]>>
           /\ \A j \in Missing(r, hold) : i <= j
           /\ Refers(h)'
           /\ \A g : Refers(g)' => Refers(g) \/ g = h
           /\ \A g : Holds(g) => Holds(g)'
<1>1. PICK i \in Missing(r, hold) :
        /\ \A j \in Missing(r, hold) : i <= j
        /\ LET h == <<r, hold, Keys(r, hold)[i]>>
           IN IF Refers(h) THEN takePermits(h) ELSE acquireEntry(h)
  BY DEF acquireNext
<1>2. Keys(r, hold)[i] \in Account
  BY KeysAreAccounts DEF Missing
<1>3. PICK h \in Holder : h = <<r, hold, Keys(r, hold)[i]>>
  BY <1>2 DEF Holder
<1>4. IF Refers(h) THEN takePermits(h) ELSE acquireEntry(h)
  BY <1>1, <1>3
<1>5. CASE Refers(h)
  <2>1. refs' = refs /\ taken' = [taken EXCEPT ![EntryOf(h)] = @ \cup {h}]
    BY <1>4, <1>5 DEF takePermits
  <2>2. \A g : Refers(g)' <=> Refers(g)
    BY <2>1 DEF Refers
  <2>3. \A g : Holds(g) => Holds(g)'
    BY <2>1 DEF Holds, TypeOK
  <2> QED
    BY <1>1, <1>3, <1>5, <2>2, <2>3
<1>6. CASE ~Refers(h)
  <2>1. PICK entry \in Entries :
          refs' = [refs EXCEPT ![entry] = @ \cup {h}] /\ taken' = taken
    <3>0. RegistryOf(h[2]) \in Registry /\ h[3] \in Account
      BY DEF Holder, RegistryOf, Registry
    <3>1. CASE registry[RegistryOf(h[2])][h[3]] # None
      BY <3>0, <1>4, <1>6, <3>1 DEF acquireEntry, TypeOK
    <3>2. CASE registry[RegistryOf(h[2])][h[3]] = None
      <4>1. (CHOOSE e \in Unused : TRUE) \in Unused
        BY <1>4, <1>6, <3>2 DEF acquireEntry
      <4>2. (CHOOSE e \in Unused : TRUE) \in Entries
        BY <4>1 DEF Unused
      <4> QED
        BY <1>4, <1>6, <3>2, <4>2 DEF acquireEntry
    <3> QED
      BY <3>1, <3>2
  <2>2. h \in refs'[entry] /\ \A e \in Entries : refs'[e] \subseteq refs[e] \cup {h}
    BY <2>1 DEF TypeOK
  <2>3. Refers(h)' /\ \A g : Refers(g)' => Refers(g) \/ g = h
    BY <2>2 DEF Refers
  <2>4. \A g : Holds(g) => Holds(g)'
    BY <2>1 DEF Holds
  <2> QED
    BY <1>1, <1>3, <2>3, <2>4
<1> QED
  BY <1>5, <1>6

(* The locks are taken in order.                                            *)
LEMMA AscendingStep ==
  ASSUME TypeOK, Placed, NEW r \in Runs, run(r) \/ Step(r) \/ Interrupt(r), Ascending(r)
  PROVE  Ascending(r)'
<1> SUFFICES ASSUME pc'[r] = "locking", NEW a \in Locked(r)', NEW b \in Locked(r)',
                    a < b, Refers(<<r, "lock", b>>)'
             PROVE  Holds(<<r, "lock", a>>)'
  BY DEF Ascending
<1>1. CASE run(r)
  <2>1. refs' = refs /\ pc[r] = "idle"
    BY <1>1 DEF run, Semaphores
  <2>2. Refers(<<r, "lock", b>>)
    BY <2>1 DEF Refers
  <2> QED
    BY <2>1, <2>2, NoneReferred
<1>2. CASE Step(r) \/ Interrupt(r)
  <2>1. pc[r] = "locking" /\ recipe' = recipe /\ acquireNext(r, "lock")
    BY <1>2 DEF Step, Interrupt, Goto, Stay, senderLocked, drainInFlight, drainTake,
      drainGive, build, buildFails, registerInFlight, releaseLocks, finish, end, TypeOK
  <2>2. PICK i \in Missing(r, "lock"), h \in Holder :
           /\ h = <<r, "lock", Keys(r, "lock")[i]>>
           /\ \A j \in Missing(r, "lock") : i <= j
           /\ \A g : Refers(g)' => Refers(g) \/ g = h
           /\ \A g : Holds(g) => Holds(g)'
    BY <2>1, Acquired DEF Hold
  <2>3. a \in Locked(r) /\ b \in Locked(r)
    BY <2>1, SameRecipe
  <2>4. Keys(r, "lock") = locked(r)
    BY DEF Keys
  <2>5. CASE Refers(<<r, "lock", b>>)
    BY <2>1, <2>2, <2>3, <2>5 DEF Ascending
  <2>6. CASE b = locked(r)[i]
    <3>1. PICK j \in 1..Len(locked(r)) : a = locked(r)[j]
      BY <2>3, LocksAscend
    <3>2. i \in 1..Len(locked(r))
      BY <2>4 DEF Missing
    <3>3. j < i
      BY <2>6, <3>1, <3>2, LocksAscend
    <3>4. j \notin Missing(r, "lock")
      BY <2>2, <3>1, <3>2, <3>3, LocksAscend
    <3>5. Holds(<<r, "lock", a>>)
      BY <2>4, <3>1, <3>4 DEF Missing
    <3> QED
      BY <2>2, <3>5
  <2>7. <<r, "lock", b>> = <<r, "lock", locked(r)[i]>> => b = locked(r)[i]
    OBVIOUS
  <2> QED
    BY <2>2, <2>4, <2>5, <2>6, <2>7
<1> QED
  BY <1>1, <1>2

(* A run comes to wait for a drain with its reference.                      *)
LEMMA DrainingStep ==
  ASSUME TypeOK, NEW r \in Runs, run(r) \/ Step(r) \/ Interrupt(r)
  PROVE  Draining(r)'
<1> SUFFICES ASSUME pc'[r] = "draining"
             PROVE  drains(r)' \in Account /\ Refers(<<r, "drain", drains(r)>>)'
  BY DEF Draining
<1>1. /\ recipe' = recipe /\ acquireNext(r, "drain")
      /\ drains(r) # None
  BY DEF run, Step, Interrupt, Goto, Stay, senderLocked, drainInFlight, drainTake,
    drainGive, build, buildFails, registerInFlight, releaseLocks, finish, end, TypeOK
<1>2. Keys(r, "drain") = <<drains(r)>>
  BY <1>1 DEF Keys
<1>3. drains(r) \in Account
  <2>1. Keys(r, "drain") \in Seq(Account)
    BY KeysAreAccounts DEF Hold
  <2> QED
    BY <1>2, <2>1
<1>4. PICK i \in Missing(r, "drain"), h \in Holder :
        h = <<r, "drain", Keys(r, "drain")[i]>> /\ Refers(h)'
  BY <1>1, Acquired DEF Hold
<1>5. Keys(r, "drain")[i] = drains(r)
  BY <1>2, <1>4 DEF Missing
<1>6. drains(r)' = drains(r)
  BY <1>1, SameCall
<1>7. h = <<r, "drain", drains(r)'>>
  BY <1>4, <1>5, <1>6
<1> QED
  BY <1>3, <1>4, <1>6, <1>7

(* A run comes to give its locks back registered, and stays so.             *)
LEMMA RegisteredStep ==
  ASSUME TypeOK, NEW r \in Runs, run(r) \/ Step(r) \/ Interrupt(r), Registered(r)
  PROVE  Registered(r)'
<1> SUFFICES ASSUME pc'[r] \in {"releasing", "free"}, NEW a \in ToSet(inFlightOn(r))'
             PROVE  Holds(<<r, "inFlight", a>>)'
  BY DEF Registered
<1>1. registerInFlight(r) \/ releaseLocks(r)
  <2>1. CASE run(r)
    <3>1. pc'[r] = IF Policy(r)' = "never" THEN "building" ELSE "locking"
      BY <2>1 DEF run, TypeOK, Policy
    <3> QED
      BY <3>1
  <2>2. CASE Step(r) \/ Interrupt(r)
    BY <2>2 DEF Step, Interrupt, Goto, Stay, senderLocked, drainInFlight, drainTake,
      drainGive, build, buildFails, finish, end, TypeOK
  <2> QED
    BY <2>1, <2>2
<1>2. recipe' = recipe
  BY <1>1 DEF registerInFlight, releaseLocks, Goto, Stay
<1>3. a \in ToSet(inFlightOn(r))
  BY <1>2, SameCall
<1>4. CASE registerInFlight(r)
  <2>1. Missing(r, "inFlight") = {} /\ taken' = taken
    BY <1>4 DEF registerInFlight, Goto, Stay, Semaphores, TypeOK
  <2>2. Keys(r, "inFlight") = inFlightOn(r) /\ inFlightOn(r) \in Seq(Account)
    BY KeysAreAccounts DEF Keys, Hold
  <2>3. PICK i \in 1..Len(inFlightOn(r)) : a = inFlightOn(r)[i]
    BY <1>3, <2>2 DEF ToSet
  <2>4. Holds(<<r, "inFlight", a>>)
    BY <2>1, <2>2, <2>3 DEF Missing
  <2> QED
    BY <2>1, <2>4 DEF Holds
<1>5. CASE releaseLocks(r)
  <2>1. Holds(<<r, "inFlight", a>>)
    BY <1>3, <1>5 DEF releaseLocks, Registered
  <2>2. CASE UNCHANGED Semaphores
    BY <2>1, <2>2 DEF Semaphores, Holds
  <2>3. CASE releaseLast(r, "lock")
    <3>1. PICK b \in Account : Changes(<<r, "lock", b>>)
      BY <2>3, NextIsChange DEF Hold
    <3>2. <<r, "inFlight", a>> # <<r, "lock", b>>
      OBVIOUS
    <3> QED
      BY <2>1, <3>1, <3>2, OthersKeepHolding
  <2> QED
    BY <1>5, <2>2, <2>3 DEF releaseLocks
<1> QED
  BY <1>1, <1>4, <1>5

(* Every step keeps Orderly.                                                *)
LEMMA OrderlyStep ==
  ASSUME Sound, Sound', Orderly, [Next]_vars
  PROVE  Orderly'
<1>1. CASE UNCHANGED vars
  <2>1. UNCHANGED <<refs, taken, pc, recipe>>
    BY <1>1 DEF vars
  <2>2. ASSUME NEW q
        PROVE  /\ Locked(q)' = Locked(q) /\ Policy(q)' = Policy(q)
               /\ drains(q)' = drains(q) /\ inFlightOn(q)' = inFlightOn(q)
               /\ \A hold : Keys(q, hold)' = Keys(q, hold)
    BY <2>1, SameRecipe, SameCall
  <2>3. \A g : (Refers(g)' <=> Refers(g)) /\ (Holds(g)' <=> Holds(g))
    BY <2>1 DEF Refers, Holds
  <2>4. Placed'
    BY <2>1, <2>2 DEF Orderly, Placed
  <2>5. ASSUME NEW q \in Runs
        PROVE  Willing(q)' /\ Ascending(q)' /\ Draining(q)' /\ Registered(q)'
    <3>1. Willing(q) /\ Ascending(q) /\ Draining(q) /\ Registered(q)
      BY DEF Orderly
    <3>2. Willing(q)' /\ Registered(q)'
      BY <2>1, <2>2, <2>3, <3>1 DEF Willing, Registered
    <3>3. Ascending(q)' /\ Draining(q)'
      BY <2>1, <2>2, <2>3, <3>1 DEF Ascending, Draining
    <3> QED
      BY <3>2, <3>3
  <2> QED
    BY <2>4, <2>5 DEF Orderly
<1>2. CASE Next
  <2>1. PICK r \in Runs : run(r) \/ Step(r) \/ Interrupt(r)
    BY <1>2 DEF Next
  <2>2. TypeOK /\ TypeOK' /\ Placed
    BY DEF Sound, Orderly
  <2>3. Placed'
    BY <2>1, <2>2, PlacedStep
  <2>4. ASSUME NEW q \in Runs
        PROVE  Willing(q)' /\ Ascending(q)' /\ Draining(q)' /\ Registered(q)'
    <3>1. Willing(q) /\ Ascending(q) /\ Draining(q) /\ Registered(q)
      BY DEF Orderly
    <3>2. CASE q = r
      BY <2>1, <2>2, <3>1, <3>2, WillingStep, AscendingStep, DrainingStep, RegisteredStep
    <3>3. CASE q # r
      <4>1. recipe'[q] = recipe[q] /\ pc'[q] = pc[q]
        BY <2>1, <2>2, <3>3, OthersStay
      <4>2. \A hold, a : /\ Refers(<<q, hold, a>>)' <=> Refers(<<q, hold, a>>)
                         /\ Holds(<<q, hold, a>>)' <=> Holds(<<q, hold, a>>)
        BY <2>1, <2>2, <3>3, OthersUntouched
      <4>3. /\ Locked(q)' = Locked(q) /\ Policy(q)' = Policy(q)
            /\ drains(q)' = drains(q) /\ inFlightOn(q)' = inFlightOn(q)
        BY <4>1, SameRecipe, SameCall
      <4>4. Willing(q)'
        BY <3>1, <4>1, <4>3 DEF Willing
      <4>5. Ascending(q)'
        BY <3>1, <4>1, <4>2, <4>3 DEF Ascending
      <4>6. Draining(q)'
        BY <3>1, <4>1, <4>2, <4>3 DEF Draining
      <4>7. Registered(q)'
        BY <3>1, <4>1, <4>2, <4>3 DEF Registered
      <4> QED
        BY <4>4, <4>5, <4>6, <4>7
    <3> QED
      BY <3>2, <3>3
  <2> QED
    BY <2>3, <2>4 DEF Orderly
<1> QED
  BY <1>1, <1>2

-----------------------------------------------------------------------------
(* The reservation is quiet.                                                *)

(* Who gives its locks back is registered in flight on every account it     *)
(* locks, and that entry is the one a drain would empty.                    *)
LEMMA InFlightThere ==
  ASSUME Sound, Orderly, NEW q \in Runs, pc[q] \in {"releasing", "free"},
         NEW a \in Locked(q)
  PROVE  \E e \in Entries : registry["inFlight"][a] = e /\ taken[e] # {}
<1>1. a \in ToSet(inFlightOn(q))
  BY LocksAscend DEF Sound
<1>2. PICK e \in Entries : <<q, "inFlight", a>> \in taken[e]
  BY <1>1 DEF Orderly, Registered, Holds
<1>3. registry["inFlight"][a] = e
  BY <1>2 DEF Sound, TypeOK, Linked, RegistryOf
<1> QED
  BY <1>2, <1>3

(* The reserving run gets past its drain only when nobody is in flight on   *)
(* what it drains.                                                          *)
LEMMA ReserverStep ==
  ASSUME Sound, Orderly, Quiet,
         NEW r \in Runs, run(r) \/ Step(r) \/ Interrupt(r),
         NEW q \in Runs, pc[q] \in {"releasing", "free"},
         pc'[r] \in {"drained", "building", "finishing"},
         Policy(r)' = "whenPinned", drains(r)' \in Locked(r)'
  PROVE  recipe' = recipe /\ drains(r) \notin Locked(q)
<1> USE DEF Goto, Stay
<1>1. TypeOK
  BY DEF Sound
<1>2. ~run(r)
  <2> SUFFICES ASSUME run(r) PROVE FALSE
    OBVIOUS
  <2>1. pc'[r] = IF Policy(r)' = "never" THEN "building" ELSE "locking"
    BY <1>1 DEF run, TypeOK, Policy
  <2> QED
    BY <2>1
<1>3. \/ drainInFlight(r) \/ drainTake(r) \/ drainGive(r) \/ build(r)
  BY <1>1, <1>2 DEF Step, Interrupt, senderLocked, buildFails, registerInFlight,
    releaseLocks, finish, end, TypeOK
<1>4. recipe' = recipe
  BY <1>3 DEF drainInFlight, drainTake, drainGive, build
<1>5. Policy(r) = "whenPinned" /\ drains(r) \in Locked(r)
  BY <1>4, SameRecipe, SameCall
<1>6. drains(r) \in Account /\ drains(r) # None
  BY <1>1, <1>5, LocksAscend, NoneIsNothing
<1>7. CASE drainInFlight(r)
  <2>1. registry["inFlight"][drains(r)] = None
    BY <1>1, <1>5, <1>6, <1>7 DEF drainInFlight, TypeOK
  <2> QED
    BY <1>4, <2>1, InFlightThere, NoneIsNothing
<1>8. CASE drainTake(r)
  <2> DEFINE h == <<r, "drain", drains(r)>>
  <2>1. Refers(h) /\ pc[r] = "draining"
    BY <1>8 DEF drainTake, Orderly, Draining
  <2>2. Keys(r, "drain") = <<drains(r)>>
    BY <1>6 DEF Keys
  <2>3. takePermits(h)
    <3>1. PICK i \in Missing(r, "drain") :
            LET g == <<r, "drain", Keys(r, "drain")[i]>>
            IN IF Refers(g) THEN takePermits(g) ELSE acquireEntry(g)
      BY <1>8 DEF drainTake, acquireNext
    <3>2. Keys(r, "drain")[i] = drains(r)
      BY <2>2, <3>1 DEF Missing
    <3> QED
      BY <2>1, <3>1, <3>2
  <2>4. EntryOf(h) \in Entries /\ h \in refs[EntryOf(h)]
    BY <2>1, EntryOfRefers
  <2>5. registry["inFlight"][drains(r)] = EntryOf(h)
    BY <2>4 DEF Sound, Linked, RegistryOf
  <2>6. taken[EntryOf(h)] = {}
    BY <2>3 DEF takePermits, Free
  <2> HIDE DEF h
  <2> QED
    BY <1>4, <2>5, <2>6, InFlightThere
<1>9. CASE drainGive(r) \/ build(r)
  <2>1. pc[r] \in {"drained", "building"}
    BY <1>9 DEF drainGive, build
  <2> QED
    BY <1>4, <1>5, <2>1 DEF Quiet
<1> QED
  BY <1>3, <1>7, <1>8, <1>9

(* Nobody else begins to give its locks back meanwhile: it would have to be *)
(* between the same locks.                                                  *)
LEMMA OtherStep ==
  ASSUME Sound, Orderly, Quiet, BuildersExclusive,
         NEW q \in Runs, run(q) \/ Step(q) \/ Interrupt(q),
         pc'[q] \in {"releasing", "free"},
         NEW r \in Runs, r # q, pc[r] \in {"drained", "building", "finishing"},
         Policy(r) = "whenPinned", drains(r) \in Locked(r)
  PROVE  recipe' = recipe /\ drains(r) \notin Locked(q)
<1> USE DEF Goto, Stay
<1>1. TypeOK
  BY DEF Sound
<1>2. ~run(q)
  <2> SUFFICES ASSUME run(q) PROVE FALSE
    OBVIOUS
  <2>1. pc'[q] = IF Policy(q)' = "never" THEN "building" ELSE "locking"
    BY <1>1 DEF run, TypeOK, Policy
  <2> QED
    BY <2>1
<1>3. recipe' = recipe /\ pc[q] \in {"registering", "releasing"}
  BY <1>1, <1>2 DEF Step, Interrupt, senderLocked, drainInFlight, drainTake, drainGive,
    build, buildFails, registerInFlight, releaseLocks, finish, end, TypeOK
<1>4. CASE pc[q] = "releasing"
  BY <1>3, <1>4 DEF Quiet
<1>5. CASE pc[q] = "registering"
  <2>1. Inside(q)
    BY <1>5 DEF Inside, Orderly, Willing
  <2>2. Inside(r)
    BY DEF Inside
  <2>3. Locked(r) \cap Locked(q) = {}
    BY <2>1, <2>2 DEF BuildersExclusive
  <2> QED
    BY <1>3, <2>3
<1> QED
  BY <1>3, <1>4, <1>5

(* Every step keeps the reservations quiet.                                 *)
LEMMA QuietStep ==
  ASSUME Sound, Orderly, Quiet, BuildersExclusive, [Next]_vars
  PROVE  Quiet'
<1> SUFFICES ASSUME NEW r \in Runs, NEW q \in Runs,
                    pc'[r] \in {"drained", "building", "finishing"},
                    Policy(r)' = "whenPinned", drains(r)' \in Locked(r)',
                    pc'[q] \in {"releasing", "free"}
             PROVE  drains(r)' \notin Locked(q)'
  BY DEF Quiet
<1>1. CASE UNCHANGED vars
  <2>1. recipe' = recipe /\ pc' = pc
    BY <1>1 DEF vars
  <2> QED
    BY <2>1, SameRecipe, SameCall DEF Quiet
<1>2. CASE Next
  <2>1. PICK p \in Runs : run(p) \/ Step(p) \/ Interrupt(p)
    BY <1>2 DEF Next
  <2>2. r # q
    OBVIOUS
  <2>3. TypeOK
    BY DEF Sound
  <2>4. CASE p = r
    <3>1. pc'[q] = pc[q]
      BY <2>1, <2>2, <2>3, <2>4, OthersStay
    <3>2. recipe' = recipe /\ drains(r) \notin Locked(q)
      BY <2>1, <2>4, <3>1, ReserverStep
    <3> QED
      BY <3>2, SameRecipe, SameCall
  <2>5. CASE p = q
    <3>1. recipe'[r] = recipe[r] /\ pc'[r] = pc[r]
      BY <2>1, <2>2, <2>3, <2>5, OthersStay
    <3>2. Policy(r) = "whenPinned" /\ drains(r) \in Locked(r)
      BY <3>1, SameRecipe, SameCall
    <3>3. recipe' = recipe /\ drains(r) \notin Locked(q)
      BY <2>1, <2>2, <2>5, <3>1, <3>2, OtherStep
    <3> QED
      BY <3>3, SameRecipe, SameCall
  <2>6. CASE p # r /\ p # q
    <3>1. /\ recipe'[r] = recipe[r] /\ pc'[r] = pc[r]
          /\ recipe'[q] = recipe[q] /\ pc'[q] = pc[q]
      BY <2>1, <2>3, <2>6, OthersStay
    <3> QED
      BY <3>1, SameRecipe, SameCall DEF Quiet
  <2> QED
    BY <2>4, <2>5, <2>6
<1> QED
  BY <1>1, <1>2

(* While a tx.gas run that locks its payer builds, or holds what it built,  *)
(* no run that had to lock that payer is sending without its lock: the      *)
(* drain emptied the payer's entry under the lock, and whoever would fill   *)
(* it again for that payer needs the lock first.                            *)
THEOREM ReservationsAreQuiet == Spec => []ReservationIsQuiet
<1>1. Init => InsideHolds /\ Orderly /\ Quiet
  BY DEF Init, InsideHolds, Inside, Orderly, Placed, Willing, Ascending, Draining,
    Registered, Quiet
<1>2. Sound => TypeOK
  BY DEF Sound
<1>3. Quiet => ReservationIsQuiet
  BY DEF Quiet, ReservationIsQuiet
<1> QED
  BY <1>1, <1>2, <1>3, SoundInit, SoundStep, InsideStep, Excludes, OrderlyStep,
    QuietStep, PTL DEF Spec

-----------------------------------------------------------------------------
(* No circle of waiting runs.                                               *)

(* A bounded set of numbers has a largest one.                              *)
LEMMA Largest ==
  ASSUME NEW Greatest \in Nat, NEW T, T \subseteq 0..Greatest, T # {}
  PROVE  \E x \in T : \A y \in T : y <= x
<1> DEFINE Less == {p \in Nat \X Nat : p[1] < p[2]}
           Rest == {Greatest - x : x \in T}
<1>1. IsWellFoundedOn(Less, Nat)
  BY NatLessThanWellFounded DEF OpToRel
<1>2. \A x, y \in Nat : <<y, x>> \in Less <=> y < x
  OBVIOUS
<1>a. \A x \in 0..Greatest : Greatest - x \in Nat
  OBVIOUS
<1>3. Rest \subseteq Nat /\ Rest # {}
  BY <1>a
<1> HIDE DEF Less
<1>4. PICK m \in Rest : \A n \in Rest : ~ (<<n, m>> \in Less)
  BY <1>1, <1>3, WFMin
<1>5. PICK x \in T : m = Greatest - x
  OBVIOUS
<1>6. ASSUME NEW y \in T
      PROVE  y <= x
  <2>1. Greatest - y \in Rest /\ Greatest - y \in Nat /\ m \in Nat
    OBVIOUS
  <2>2. ~(Greatest - y < m)
    BY <1>2, <1>4, <2>1
  <2>3. x \in 0..Greatest /\ y \in 0..Greatest
    OBVIOUS
  <2> QED
    BY <1>5, <2>2, <2>3
<1> QED
  BY <1>6

(* r waits for the lock of account a.                                       *)
WaitsForLock(r, a) ==
  /\ pc[r] = "locking"
  /\ \E e \in Entries : <<r, "lock", a>> \in refs[e] \ taken[e] /\ taken[e] # {}

(* What each waiting run waits for, by its place.                           *)
LEMMA WaitsToLock ==
  ASSUME Sound, Orderly, NEW r \in Runs, Waits(r), pc[r] = "locking"
  PROVE  \E a \in Account : a \in Locked(r) /\ WaitsForLock(r, a)
<1>1. PICK e \in Entries, h \in Holder :
        h \in refs[e] \ taken[e] /\ h[1] = r /\ ~Free(h, e)
  BY DEF Waits, Sound, TypeOK
<1>2. h = <<h[1], h[2], h[3]>> /\ h[2] \in Hold /\ h[3] \in Account
  BY DEF Holder
<1>3. pc[r] \in Where(h[2]) /\ h[3] \in ToSet(Keys(r, h[2]))
  BY <1>1 DEF Orderly, Placed
<1>4. h[2] = "lock"
  BY <1>2, <1>3 DEF Where, Hold
<1>5. h[3] \in Locked(r) /\ taken[e] # {}
  BY <1>1, <1>3, <1>4 DEF Keys, Locked, Free
<1>6. h = <<r, "lock", h[3]>>
  BY <1>1, <1>2, <1>4
<1> QED
  BY <1>1, <1>2, <1>5, <1>6 DEF WaitsForLock

(* With its locks taken, a run waits for its drain or its registration.     *)
LEMMA WaitsInFlight ==
  ASSUME Sound, InsideHolds, Orderly, NEW r \in Runs, Waits(r),
         pc[r] \in {"draining", "registering"}
  PROVE  \E e \in Entries, h \in Holder :
           /\ h \in refs[e] \ taken[e] /\ h[1] = r /\ ~Free(h, e)
           /\ h[2] = IF pc[r] = "draining" THEN "drain" ELSE "inFlight"
<1>1. PICK e \in Entries, h \in Holder :
        h \in refs[e] \ taken[e] /\ h[1] = r /\ ~Free(h, e)
  BY DEF Waits, Sound, TypeOK
<1>2. h = <<h[1], h[2], h[3]>> /\ h[2] \in Hold /\ h[3] \in Account
  BY DEF Holder
<1>3. pc[r] \in Where(h[2]) /\ h[3] \in ToSet(Keys(r, h[2]))
  BY <1>1 DEF Orderly, Placed
<1>4. h[2] # "lock"
  <2> SUFFICES ASSUME h[2] = "lock" PROVE FALSE
    OBVIOUS
  <2>1. Inside(r)
    BY DEF Inside, Orderly, Willing
  <2>2. h[3] \in Locked(r)
    BY <1>3 DEF Keys, Locked
  <2>3. h = <<r, "lock", h[3]>>
    BY <1>1, <1>2
  <2>4. Holds(h)
    BY <2>1, <2>2, <2>3 DEF InsideHolds
  <2>5. PICK f \in Entries : h \in taken[f]
    BY <2>4 DEF Holds
  <2>6. h \in refs[f]
    BY <2>5 DEF Sound, TypeOK
  <2>7. e = f
    BY <1>1, <2>6 DEF Sound, Linked
  <2> QED
    BY <1>1, <2>5, <2>7
<1>5. h[2] = IF pc[r] = "draining" THEN "drain" ELSE "inFlight"
  BY <1>2, <1>3, <1>4 DEF Where, Hold
<1> QED
  BY <1>1, <1>5

(* The things that hold what a run waits for are of the registry it waits   *)
(* in, and the account it waits for.                                        *)
LEMMA HolderThere ==
  ASSUME Sound, NEW e \in Entries, NEW h \in refs[e], NEW g \in taken[e]
  PROVE  /\ g \in Holder /\ g[1] \in Runs /\ g = <<g[1], g[2], g[3]>>
         /\ g \in refs[e]
         /\ RegistryOf(g[2]) = RegistryOf(h[2]) /\ g[3] = h[3]
<1>1. g \in refs[e]
  BY DEF Sound, TypeOK
<1>2. g \in Holder /\ h \in Holder
  BY <1>1 DEF Sound, TypeOK
<1>3. /\ RegistryOf(g[2]) \in Registry /\ RegistryOf(h[2]) \in Registry
      /\ g[3] \in Account /\ h[3] \in Account
  BY <1>2 DEF Holder, RegistryOf, Registry
<1>4. registry[RegistryOf(g[2])][g[3]] = e /\ registry[RegistryOf(h[2])][h[3]] = e
  BY <1>1 DEF Sound, Linked
<1>5. RegistryOf(g[2]) = RegistryOf(h[2]) /\ g[3] = h[3]
  BY <1>3, <1>4, NoneIsNothing DEF Sound, Distinct
<1> QED
  BY <1>1, <1>2, <1>5 DEF Holder

(* A run that still waits to drain has no permits of a drain.               *)
LEMMA DrainerHasNone ==
  ASSUME Sound, InsideHolds, Orderly, NEW q \in Runs, pc[q] = "draining", Waits(q),
         NEW e \in Entries, NEW g \in taken[e], g[1] = q
  PROVE  g[2] # "drain"
<1> SUFFICES ASSUME g[2] = "drain" PROVE FALSE
  OBVIOUS
<1>1. g \in refs[e] /\ g = <<q, "drain", g[3]>>
  BY DEF Sound, TypeOK, Holder
<1>2. PICK f \in Entries, h \in Holder :
        h \in refs[f] \ taken[f] /\ h[1] = q /\ h[2] = "drain"
  BY WaitsInFlight
<1>3. h[3] \in ToSet(Keys(q, "drain")) /\ g[3] \in ToSet(Keys(q, "drain"))
  BY <1>1, <1>2 DEF Orderly, Placed
<1>4. h[3] = g[3]
  <2>1. Keys(q, "drain") = <<>> \/ Keys(q, "drain") = <<drains(q)>>
    BY DEF Keys
  <2> QED
    BY <1>3, <2>1 DEF ToSet
<1>5. h = <<h[1], h[2], h[3]>>
  BY DEF Holder
<1>6. h = g
  BY <1>1, <1>2, <1>4, <1>5
<1>7. e = f
  BY <1>1, <1>2, <1>6 DEF Sound, Linked
<1> QED
  BY <1>2, <1>6, <1>7

(* A run that registers waits for a drain, and a run that has the permits   *)
(* of a drain is giving them back.                                          *)
LEMMA RegisteringMoves ==
  ASSUME Sound, InsideHolds, Orderly, NEW r \in Runs, pc[r] = "registering", Waits(r)
  PROVE  \E q \in Runs : pc[q] # "idle" /\ ~Waits(q)
<1>1. PICK e \in Entries, h \in Holder :
        h \in refs[e] \ taken[e] /\ ~Free(h, e) /\ h[2] = "inFlight"
  BY WaitsInFlight
<1>2. PICK g \in taken[e] : g[2] = "drain"
  BY <1>1 DEF Free
<1>3. g \in refs[e] /\ g[1] \in Runs /\ g = <<g[1], g[2], g[3]>>
  BY <1>1, HolderThere
<1>4. pc[g[1]] \in Where("drain")
  BY <1>2, <1>3 DEF Orderly, Placed
<1>5. CASE pc[g[1]] = "draining"
  BY <1>2, <1>3, <1>5, DrainerHasNone
<1>6. CASE pc[g[1]] # "draining"
  BY <1>3, <1>4, <1>6 DEF Where, Waits
<1> QED
  BY <1>5, <1>6

(* A run that drains waits for runs in flight, or for another drain.        *)
LEMMA DrainingMoves ==
  ASSUME Sound, InsideHolds, Orderly, NEW r \in Runs, pc[r] = "draining", Waits(r)
  PROVE  \E q \in Runs : pc[q] # "idle" /\ ~Waits(q)
<1>1. PICK e \in Entries, h \in Holder :
        h \in refs[e] \ taken[e] /\ ~Free(h, e) /\ h[2] = "drain"
  BY WaitsInFlight
<1>2. PICK g : g \in taken[e]
  BY <1>1 DEF Free
<1>3. g \in refs[e] /\ g[1] \in Runs /\ g = <<g[1], g[2], g[3]>> /\ g \in Holder
  BY <1>1, <1>2, HolderThere
<1>4. RegistryOf(g[2]) = "inFlight"
  BY <1>1, <1>2, HolderThere DEF RegistryOf
<1>5. g[2] \in {"drain", "inFlight"}
  BY <1>3, <1>4 DEF RegistryOf, Holder, Hold
<1>6. pc[g[1]] \in Where(g[2])
  BY <1>3 DEF Orderly, Placed
<1>7. CASE pc[g[1]] = "registering"
  BY <1>3, <1>7, RegisteringMoves
<1>8. CASE pc[g[1]] = "draining"
  <2>1. g[2] = "drain"
    BY <1>5, <1>6, <1>8 DEF Where
  <2> QED
    BY <1>2, <1>3, <1>8, <2>1, DrainerHasNone
<1>9. CASE pc[g[1]] \notin {"draining", "registering"}
  BY <1>3, <1>5, <1>6, <1>9 DEF Where, Waits
<1> QED
  BY <1>7, <1>8, <1>9

(* A run that waits for a lock waits for one that has it; if that one waits *)
(* for a lock too, it is that of a larger account.                          *)
LEMMA LockingMoves ==
  ASSUME Sound, InsideHolds, Orderly, NEW r \in Runs, NEW a \in Account,
         WaitsForLock(r, a)
  PROVE  \/ \E q \in Runs : pc[q] # "idle" /\ ~Waits(q)
         \/ \E q \in Runs, b \in Account : a < b /\ WaitsForLock(q, b)
<1>1. PICK e \in Entries : <<r, "lock", a>> \in refs[e] \ taken[e] /\ taken[e] # {}
  BY DEF WaitsForLock
<1>2. PICK g : g \in taken[e]
  BY <1>1
<1>3. g \in refs[e] /\ g[1] \in Runs /\ g = <<g[1], g[2], g[3]>> /\ g[2] \in Hold
  BY <1>1, <1>2, HolderThere DEF Holder
<1>4. g[2] = "lock" /\ g[3] = a
  BY <1>1, <1>2, <1>3, HolderThere DEF RegistryOf
<1>5. g = <<g[1], "lock", a>>
  BY <1>3, <1>4
<1>6. PICK q \in Runs : q = g[1]
  BY <1>3
<1>7. pc[q] \in Where("lock") /\ a \in Locked(q)
  BY <1>3, <1>4, <1>6 DEF Orderly, Placed, Keys, Locked
<1>8. pc[q] # "idle"
  BY <1>7 DEF Where
<1>9. CASE ~Waits(q)
  BY <1>8, <1>9
<1>10. CASE Waits(q) /\ pc[q] = "draining"
  BY <1>10, DrainingMoves
<1>11. CASE Waits(q) /\ pc[q] = "registering"
  BY <1>11, RegisteringMoves
<1>12. CASE Waits(q) /\ pc[q] \notin {"draining", "registering"}
  <2>1. PICK b \in Account : b \in Locked(q) /\ WaitsForLock(q, b)
    BY <1>12, WaitsToLock DEF Waits
  <2>2. PICK f \in Entries : <<q, "lock", b>> \in refs[f] \ taken[f]
    BY <2>1 DEF WaitsForLock
  <2>3. ~Holds(<<q, "lock", b>>)
    <3> SUFFICES ASSUME NEW d \in Entries, <<q, "lock", b>> \in taken[d] PROVE FALSE
      BY DEF Holds
    <3>1. <<q, "lock", b>> \in refs[d]
      BY DEF Sound, TypeOK
    <3>2. d = f
      BY <2>2, <3>1 DEF Sound, Linked
    <3> QED
      BY <2>2, <3>2
  <2>4. Refers(<<q, "lock", a>>) /\ Holds(<<q, "lock", a>>)
    BY <1>2, <1>3, <1>5, <1>6 DEF Refers, Holds
  <2>5. ~(b < a)
    BY <1>7, <2>1, <2>3, <2>4 DEF Orderly, Ascending, WaitsForLock
  <2>6. a # b
    BY <2>3, <2>4
  <2>7. a < b
    BY <2>5, <2>6, AccountsAreOrdered
  <2> QED
    BY <2>1, <2>7
<1> QED
  BY <1>9, <1>10, <1>11, <1>12

(* Runs never wait for each other in a circle, whoever locks which pair     *)
(* under which spelling: of the runs under way at least one can go on.      *)
(* Accounts are numbers of a fixed width, so of the locks that are waited   *)
(* for one is the greatest, and who has it waits for no lock.               *)
THEOREM NoCircle ==
  ASSUME NEW Greatest \in Nat, Account \subseteq 0..Greatest
  PROVE  Spec => []SomeoneMoves
<1>1. ASSUME Sound, InsideHolds, Orderly
      PROVE  SomeoneMoves
  <2> SUFFICES ASSUME NEW r \in Runs, pc[r] # "idle",
                      \A q \in Runs : pc[q] # "idle" => Waits(q)
               PROVE  FALSE
    BY DEF SomeoneMoves
  <2> DEFINE Waited == {a \in Account : \E q \in Runs : WaitsForLock(q, a)}
  <2>1. pc[r] \notin {"draining", "registering"}
    BY <1>1, DrainingMoves, RegisteringMoves
  <2>2. Waited # {}
    BY <1>1, <2>1, WaitsToLock DEF Waits
  <2>3. Waited \subseteq 0..Greatest
    OBVIOUS
  <2> HIDE DEF Waited
  <2>4. PICK a \in Waited : \A b \in Waited : b <= a
    BY <2>2, <2>3, Largest
  <2>5. PICK q \in Runs, b \in Account : a < b /\ WaitsForLock(q, b)
    BY <1>1, <2>4, LockingMoves DEF Waited
  <2>6. b \in Waited /\ a \in 0..Greatest /\ b \in 0..Greatest
    BY <2>3, <2>4, <2>5 DEF Waited
  <2> QED
    BY <2>4, <2>5, <2>6
<1>2. Init => InsideHolds /\ Orderly
  BY DEF Init, InsideHolds, Inside, Orderly, Placed, Willing, Ascending, Draining,
    Registered
<1>3. Sound => TypeOK
  BY DEF Sound
<1> QED
  BY <1>1, <1>2, <1>3, SoundInit, SoundStep, InsideStep, OrderlyStep, PTL DEF Spec
=============================================================================
