----------------------------- MODULE SenderLock -----------------------------
(***************************************************************************)
(* The sender locks of services/Tx.ts: Tx.run's lockedRun over two         *)
(* registries of reference-counted semaphores, the locks and the lock-free *)
(* runs in flight.                                                         *)
(*                                                                         *)
(* A step ends where a fiber can be suspended or interrupted: taking a     *)
(* reference, taking permits, the build, signing and submission, and each  *)
(* finalizer.  An entry of a registry is an object with an identity of its *)
(* own: a new one is made when the address has none.  Its reference count  *)
(* is the set of those who hold one.                                       *)
(***************************************************************************)
EXTENDS Naturals, FiniteSets, Sequences, SequencesExt

CONSTANTS
  Runs,       \* fibers that call Tx.run
  Spelled,    \* addresses as they are written; a written order for strings
  Account,    \* addresses as normalized, ordered
  normalizeSuiAddress, \* the account each spelling names
  Entries,    \* entry objects
  None,       \* no entry, no gas owner, nothing to drain
  Recipes,    \* what the calls ask for: see Recipe
  MaxRuns     \* bound: calls per fiber

(* What decides a run's locks: SubmitConfig.lockSender as provided, who     *)
(* signs, who pays, whether the recipe pays from an address balance and     *)
(* whether it uses tx.gas.                                                  *)
Recipe == [lockSender : {"whenPinned", "always", "never", "true", "false", "other"},
           sender : Spelled, gasOwner : Spelled \cup {None},
           addressBalance : BOOLEAN, usesGasCoin : BOOLEAN]

ASSUME AccountsAreOrdered == Account \subseteq Nat /\ Spelled \subseteq Nat
ASSUME SpellingsAreNormalized == normalizeSuiAddress \in [Spelled -> Account]
ASSUME RecipesAreRecipes == Recipes \subseteq Recipe /\ Recipes # {}
ASSUME NoneIsNothing == None \notin Spelled \cup Account \cup Entries
ASSUME MaxRunsIsNatural == MaxRuns \in Nat

VARIABLES
  registry,  \* SENDER_LOCKS and IN_FLIGHT: the entry of each address
  refs,      \* who holds a reference to each entry
  taken,     \* who holds permits of each entry's semaphore
  pc,        \* where each run is
  recipe,    \* what each run was called with
  started    \* calls so far, against MaxRuns

vars == <<registry, refs, taken, pc, recipe, started>>

Registry == {"lock", "inFlight"}

(* A run holds up to three kinds of things: its locks, its registrations as *)
(* in flight, and all the permits of one in-flight entry while it drains.   *)
Hold == {"lock", "inFlight", "drain"}

Holder == Runs \X Hold \X Account

Pc == {"idle", "locking", "locked", "draining", "drained", "building",
       "registering", "releasing", "finishing", "free", "ending"}

TypeOK ==
  /\ registry \in [Registry -> [Account -> Entries \cup {None}]]
  /\ refs \in [Entries -> SUBSET Holder]
  /\ taken \in [Entries -> SUBSET Holder]
  /\ \A e \in Entries : taken[e] \subseteq refs[e]
  /\ pc \in [Runs -> Pc]
  /\ recipe \in [Runs -> Recipes]
  /\ started \in [Runs -> 0..MaxRuns]

(* What the recipe of a run is while it is idle: nothing reads it.          *)
NoCall == CHOOSE asked \in Recipes : TRUE

Init ==
  /\ registry = [k \in Registry |-> [a \in Account |-> None]]
  /\ refs = [e \in Entries |-> {}]
  /\ taken = [e \in Entries |-> {}]
  /\ pc = [r \in Runs |-> "idle"]
  /\ recipe = [r \in Runs |-> NoCall]
  /\ started = [r \in Runs |-> 0]

-----------------------------------------------------------------------------
(* What a run locks, drains and registers on.                               *)

lockSenderPolicyOf(value) ==
  CASE value \in {"whenPinned", "always", "never"} -> value
    [] value = "false" -> "never"
    [] OTHER -> "always"

Policy(r) == lockSenderPolicyOf(recipe[r].lockSender)

Sender(r) == normalizeSuiAddress[recipe[r].sender]

(* The gas owner when it is another account than the sender.                *)
payer(r) ==
  IF recipe[r].gasOwner = None THEN None
  ELSE IF normalizeSuiAddress[recipe[r].gasOwner] = Sender(r) THEN None
  ELSE normalizeSuiAddress[recipe[r].gasOwner]

(* Mutant: the pair in the order of the written addresses.                  *)
lockedAsWritten(r) ==
  IF payer(r) = None \/ recipe[r].addressBalance THEN <<Sender(r)>>
  ELSE IF recipe[r].sender < recipe[r].gasOwner THEN <<Sender(r), payer(r)>>
  ELSE <<payer(r), Sender(r)>>

locked(r) ==
  IF payer(r) = None \/ recipe[r].addressBalance THEN <<Sender(r)>>
  ELSE IF Sender(r) < payer(r) THEN <<Sender(r), payer(r)>>
  ELSE <<payer(r), Sender(r)>>

Locked(r) == ToSet(locked(r))

drains(r) ==
  IF ~recipe[r].usesGasCoin THEN None
  ELSE IF payer(r) = None THEN Sender(r) ELSE payer(r)

inFlightOn(r) ==
  IF payer(r) = None THEN <<Sender(r)>> ELSE <<Sender(r), payer(r)>>

(* The addresses of what a run holds or asks for, in the order it asks.     *)
Keys(r, hold) ==
  CASE hold = "lock" -> locked(r)
    [] hold = "inFlight" -> inFlightOn(r)
    [] hold = "drain" -> IF drains(r) = None THEN <<>> ELSE <<drains(r)>>

RegistryOf(hold) == IF hold = "lock" THEN "lock" ELSE "inFlight"

-----------------------------------------------------------------------------
(* permitsOf, and the semaphore of an entry.                                *)

Refers(h) == \E e \in Entries : h \in refs[e]

EntryOf(h) == CHOOSE e \in Entries : h \in refs[e]

Holds(h) == \E e \in Entries : h \in taken[e]

Unused == {e \in Entries : refs[e] = {} /\ taken[e] = {}
             /\ \A k \in Registry, a \in Account : registry[k][a] # e}

(* A reference to the entry of h's address, made on first use.              *)
acquireEntry(h) ==
  LET k == RegistryOf(h[2])
      a == h[3]
      found == registry[k][a] # None
  IN /\ found \/ Unused # {}
     /\ LET entry == IF found THEN registry[k][a] ELSE CHOOSE e \in Unused : TRUE
        IN /\ registry' = [registry EXCEPT ![k][a] = entry]
           /\ refs' = [refs EXCEPT ![entry] = @ \cup {h}]
     /\ UNCHANGED taken

(* One permit of a lock; one of an entry in flight, whose permits outnumber *)
(* any runs, unless a drain has them all; all of them for a drain.          *)
Free(h, e) ==
  CASE h[2] = "inFlight" -> \A other \in taken[e] : other[2] # "drain"
    [] OTHER -> taken[e] = {}

takePermits(h) ==
  /\ Free(h, EntryOf(h))
  /\ taken' = [taken EXCEPT ![EntryOf(h)] = @ \cup {h}]
  /\ UNCHANGED <<registry, refs>>

releasePermits(h) ==
  /\ taken' = [e \in Entries |-> taken[e] \ {h}]
  /\ UNCHANGED <<registry, refs>>

(* Mutant: the first reference out deletes the entry.                       *)
releaseEntryEarly(h) ==
  LET e == EntryOf(h) IN
  /\ refs' = [refs EXCEPT ![e] = @ \ {h}]
  /\ registry' = [k \in Registry |-> [a \in Account |->
       IF registry[k][a] = e THEN None ELSE registry[k][a]]]
  /\ UNCHANGED taken

(* Mutant: the last reference out leaves the entry.                         *)
releaseEntryKept(h) ==
  /\ refs' = [refs EXCEPT ![EntryOf(h)] = @ \ {h}]
  /\ UNCHANGED <<registry, taken>>

(* The last reference out deletes the entry, if it is still the address's.  *)
releaseEntry(h) ==
  LET e == EntryOf(h) IN
  /\ refs' = [refs EXCEPT ![e] = @ \ {h}]
  /\ registry' = [k \in Registry |-> [a \in Account |->
       IF registry[k][a] = e /\ refs[e] = {h} THEN None ELSE registry[k][a]]]
  /\ UNCHANGED taken

Goto(r, to) == pc' = [pc EXCEPT ![r] = to] /\ UNCHANGED <<recipe, started>>

Stay == UNCHANGED <<pc, recipe, started>>

Semaphores == <<registry, refs, taken>>

(* The next thing of a hold that r has not taken yet, in order: a reference *)
(* first, then the permits; and the last thing it took.                     *)
Missing(r, hold) ==
  {i \in 1..Len(Keys(r, hold)) : ~Holds(<<r, hold, Keys(r, hold)[i]>>)}

Held(r, hold) ==
  {i \in 1..Len(Keys(r, hold)) : Refers(<<r, hold, Keys(r, hold)[i]>>)}

acquireNext(r, hold) ==
  \E i \in Missing(r, hold) :
    /\ \A j \in Missing(r, hold) : i <= j
    /\ LET h == <<r, hold, Keys(r, hold)[i]>>
       IN IF Refers(h) THEN takePermits(h) ELSE acquireEntry(h)

(* Mutant: the reference goes before the permits.                           *)
releaseLastEntryFirst(r, hold) ==
  \E i \in Held(r, hold) :
    /\ \A j \in Held(r, hold) : j <= i
    /\ releaseEntry(<<r, hold, Keys(r, hold)[i]>>)

releaseLast(r, hold) ==
  \E i \in Held(r, hold) :
    /\ \A j \in Held(r, hold) : j <= i
    /\ LET h == <<r, hold, Keys(r, hold)[i]>>
       IN IF Holds(h) THEN releasePermits(h) ELSE releaseEntry(h)

-----------------------------------------------------------------------------
(* lockedRun                                                                *)

run(r) ==
  /\ pc[r] = "idle"
  /\ started[r] < MaxRuns
  /\ \E asked \in Recipes : recipe' = [recipe EXCEPT ![r] = asked]
  /\ started' = [started EXCEPT ![r] = @ + 1]
  /\ pc' = [pc EXCEPT ![r] =
       IF lockSenderPolicyOf(recipe'[r].lockSender) = "never"
         THEN "building" ELSE "locking"]
  /\ UNCHANGED Semaphores

(* withLocks: senderLocked around senderLocked, in the order of locked.     *)
senderLocked(r) ==
  /\ pc[r] = "locking"
  /\ IF Missing(r, "lock") = {} THEN Goto(r, "locked") /\ UNCHANGED Semaphores
                                ELSE acquireNext(r, "lock") /\ Stay

(* drainInFlight, of a "whenPinned" run that uses tx.gas: not at all when   *)
(* nobody is in flight on the payer; else all its permits, given straight   *)
(* back.                                                                    *)
drainInFlight(r) ==
  /\ pc[r] = "locked"
  /\ IF \/ Policy(r) # "whenPinned"
        \/ drains(r) = None
        \/ registry["inFlight"][drains(r)] = None
       THEN Goto(r, "building") /\ UNCHANGED Semaphores
       ELSE Goto(r, "draining") /\ acquireNext(r, "drain")

drainTake(r) ==
  /\ pc[r] = "draining"
  /\ acquireNext(r, "drain")
  /\ Goto(r, "drained")

drainGive(r) ==
  /\ pc[r] = "drained"
  /\ IF Held(r, "drain") = {} THEN Goto(r, "building") /\ UNCHANGED Semaphores
                              ELSE releaseLast(r, "drain") /\ Stay

(* The build ends.  "whenPinned" decides by what the bytes pin whether the  *)
(* locks are kept.                                                          *)
build(r) ==
  /\ pc[r] = "building"
  /\ \E keeps \in BOOLEAN :
       Goto(r, IF keeps \/ Policy(r) # "whenPinned"
                 THEN "finishing" ELSE "registering")
  /\ UNCHANGED Semaphores

(* A build that fails takes its locks down with it.                         *)
buildFails(r) ==
  /\ pc[r] = "building"
  /\ Goto(r, "ending")
  /\ UNCHANGED Semaphores

(* Mutant: the registration lives in the lock's scope.                      *)
registerInFlightInLock(r) ==
  /\ pc[r] = "registering"
  /\ Goto(r, "releasing")
  /\ UNCHANGED Semaphores

registerInFlight(r) ==
  /\ pc[r] = "registering"
  /\ IF Missing(r, "inFlight") = {}
       THEN Goto(r, "releasing") /\ UNCHANGED Semaphores
       ELSE acquireNext(r, "inFlight") /\ Stay

releaseLocks(r) ==
  /\ pc[r] = "releasing"
  /\ IF Held(r, "lock") = {} THEN Goto(r, "free") /\ UNCHANGED Semaphores
                             ELSE releaseLast(r, "lock") /\ Stay

(* Signing, onSigned and submission, with or without the locks, succeed or  *)
(* fail.                                                                    *)
finish(r) ==
  /\ pc[r] \in {"finishing", "free"}
  /\ Goto(r, "ending")
  /\ UNCHANGED Semaphores

Interrupt(r) ==
  /\ pc[r] \notin {"idle", "ending"}
  /\ Goto(r, "ending")
  /\ UNCHANGED Semaphores

(* The scopes close, the innermost first.                                   *)
end(r) ==
  /\ pc[r] = "ending"
  /\ IF Held(r, "drain") # {} THEN releaseLast(r, "drain") /\ Stay
     ELSE IF Held(r, "lock") # {} THEN releaseLast(r, "lock") /\ Stay
     ELSE IF Held(r, "inFlight") # {} THEN releaseLast(r, "inFlight") /\ Stay
     ELSE /\ pc' = [pc EXCEPT ![r] = "idle"]
          /\ recipe' = [recipe EXCEPT ![r] = NoCall]
          /\ UNCHANGED <<registry, refs, taken, started>>

Step(r) ==
  \/ senderLocked(r) \/ drainInFlight(r) \/ drainTake(r) \/ drainGive(r)
  \/ build(r) \/ buildFails(r) \/ registerInFlight(r) \/ releaseLocks(r)
  \/ finish(r) \/ end(r)

Next == \E r \in Runs : run(r) \/ Step(r) \/ Interrupt(r)

Spec == Init /\ [][Next]_vars

-----------------------------------------------------------------------------
(* Properties                                                               *)

(* From the last lock taken to the first one given back.                    *)
Inside(r) ==
  /\ pc[r] \in {"locked", "draining", "drained", "building", "registering",
                "finishing"}
  /\ Policy(r) # "never"

(* Two runs that lock one account are never both between their locks, in    *)
(* whatever way it was written: no two builds resolve the same coin.        *)
BuildersExclusive ==
  \A r, q \in Runs :
    r # q /\ Inside(r) /\ Inside(q) => Locked(r) \cap Locked(q) = {}

(* While a tx.gas run that locks its payer builds, or holds the reservation *)
(* it built, no run that had to lock that payer is still sending without    *)
(* its lock: the balance it reserves is the balance that will be there.     *)
ReservationIsQuiet ==
  \A r, q \in Runs :
    /\ pc[r] \in {"building", "finishing"}
    /\ Policy(r) = "whenPinned"
    /\ drains(r) \in Locked(r)
    /\ pc[q] = "free"
    => drains(r) \notin Locked(q)

(* Whoever holds or waits for permits of an address finds the entry any     *)
(* later run will find, and an entry nobody refers to is gone.              *)
EntriesLiveWhileUsed ==
  \A k \in Registry, a \in Account :
    \A e \in Entries :
      registry[k][a] = e
        <=> \E h \in refs[e] : RegistryOf(h[2]) = k /\ h[3] = a

(* r has asked for permits that others hold.                                *)
Waits(r) ==
  /\ pc[r] \in {"locking", "draining", "registering"}
  /\ \E e \in Entries : \E h \in refs[e] \ taken[e] : h[1] = r /\ ~Free(h, e)

(* No runs wait for each other in a circle, whoever locks which pair under  *)
(* which spelling: while a call is under way, one can go on.                *)
SomeoneMoves ==
  (\E r \in Runs : pc[r] # "idle")
    => \E r \in Runs : pc[r] # "idle" /\ ~Waits(r)
=============================================================================
