------------------------- MODULE JournalStoreProofs -------------------------
(***************************************************************************)
(* What JournalStore guarantees for every set of contexts, digests, stamps *)
(* and every number of operations.                                         *)
(***************************************************************************)
EXTENDS JournalStore, TLAPS

(* The store calls and the bookkeeping of an operation, expanded together.  *)
LEMMA EntryTypes ==
  /\ Absent \notin Entry
  /\ Absent.tag \notin UnresolvedTags \cup TerminalTags
  /\ \A e \in Entry : /\ e.tag \in UnresolvedTags \cup TerminalTags
                      /\ e.at \in Stamps
  /\ UnresolvedTags \cap TerminalTags = {}
BY DEF Absent, Entry, UnresolvedTags, TerminalTags

LEMMA TypeInit == Init => TypeOK
BY MaxOpsIsNatural DEF Init, TypeOK, Resting, Phase, Absent

(* The part of Call, Step, healFails, Finish and Abandon that types care    *)
(* about, one action at a time.                                             *)
LEMMA TypeStep == TypeOK /\ [Next]_vars => TypeOK'
<1> SUFFICES ASSUME TypeOK, [Next]_vars PROVE TypeOK'
  OBVIOUS
<1> USE DEF TypeOK
<1>1. CASE UNCHANGED vars
  BY <1>1 DEF vars
<1>2. ASSUME NEW c \in Clients, Call(c) PROVE TypeOK'
  <2>1. ASSUME NEW d \in Digests, NEW e \in Entry, e.tag \in PutTags,
               PutBegin(c, d, e)
        PROVE  TypeOK'
    BY <2>1, MaxOpsIsNatural
    DEF PutBegin, Begin, Resting, Phase, store, history
  <2>2. ASSUME NEW name \in {"list", "open"}, listKeys(c, name) PROVE TypeOK'
    BY <2>2, MaxOpsIsNatural DEF listKeys, Begin, Phase, store
  <2>3. ASSUME NEW before \in Stamps, PruneBegin(c, before) PROVE TypeOK'
    BY <2>3, MaxOpsIsNatural, StampsAreNaturals
    DEF PruneBegin, Begin, Phase, store, history
  <2>4. QED
    BY <1>2, <2>1, <2>2, <2>3 DEF Call, ListBegin, OpenBegin
<1>3. ASSUME NEW c \in Clients, NEW d \in Digests, Step(c, d) PROVE TypeOK'
  <2> USE DEF store, history
  <2>0. ASSUME NEW to \in Phase, GoTo(c, d, to)
        PROVE  /\ phase' \in [Clients -> [Digests -> Phase]]
               /\ UNCHANGED <<op, arg, cutoff, outcome, started>>
    BY <2>0 DEF GoTo
  <2>1. CASE clearMarkerHas(c, d)
    <3>1. PICK to \in Phase : GoTo(c, d, to)
      BY <2>1 DEF clearMarkerHas, Phase
    <3>2. QED
      BY <2>0, <2>1, <3>1 DEF clearMarkerHas
  <2>2. CASE clearMarkerRemove(c, d)
    <3>1. PICK to \in Phase : GoTo(c, d, to)
      BY <2>2 DEF clearMarkerRemove, Phase
    <3>2. QED
      BY <2>0, <2>2, <3>1 DEF clearMarkerRemove, kvRemoveMarker
  <2>3. CASE PutSet(c, d)
    BY <2>3 DEF PutSet, kvSetEntry, GoTo, Phase
  <2>4. CASE settleMarkerSet(c, d)
    BY <2>4 DEF settleMarkerSet, kvSetMarker, GoTo, Phase
  <2>5. CASE settleMarkerReread(c, d)
    <3>1. PICK to \in Phase : GoTo(c, d, to)
      BY <2>5 DEF settleMarkerReread, Phase
    <3>2. QED
      BY <2>0, <2>5, <3>1 DEF settleMarkerReread
  <2>6. CASE settleMarkerRemove(c, d)
    BY <2>6 DEF settleMarkerRemove, kvRemoveMarker, GoTo, Phase
  <2>7. CASE readUnmarked(c, d)
    BY <2>7 DEF readUnmarked, GoTo, Phase
  <2>8. CASE pruneRead(c, d)
    BY <2>8 DEF pruneRead, GoTo, Phase
  <2>9. CASE pruneRemoveMarker(c, d)
    BY <2>9 DEF pruneRemoveMarker, kvRemoveMarker, GoTo, Phase
  <2>10. CASE pruneRemoveEntry(c, d)
    BY <2>10 DEF pruneRemoveEntry, kvRemoveEntry, GoTo, Phase
  <2>11. CASE pruneOrphan(c, d)
    BY <2>11 DEF pruneOrphan, kvRemoveMarker, GoTo, Phase
  <2>12. QED
    BY <1>3, <2>1, <2>2, <2>3, <2>4, <2>5, <2>6, <2>7, <2>8, <2>9, <2>10, <2>11
    DEF Step
<1>4. ASSUME NEW c \in Clients, NEW d \in Digests, healFails(c, d) PROVE TypeOK'
  BY <1>4 DEF healFails, GoTo, Phase, store, Deserts
<1>5. ASSUME NEW c \in Clients, Finish(c) PROVE TypeOK'
  BY <1>5 DEF Finish, End, Resting, Phase, store
<1>6. ASSUME NEW c \in Clients, Abandon(c) PROVE TypeOK'
  BY <1>6 DEF Abandon, End, Resting, Phase, store, Deserts
<1>7. QED
  BY <1>1, <1>2, <1>3, <1>4, <1>5, <1>6 DEF Next

(* Every variable keeps its type: the keys of the store hold entries and    *)
(* markers of known digests, and no client is in a phase that has no call.  *)
THEOREM TypeCorrect == Spec => []TypeOK
BY TypeInit, TypeStep, PTL DEF Spec
-----------------------------------------------------------------------------
(* An operation makes only its own store calls.                             *)

Settling == {"mark", "reread", "unmark"}

PhasesOf(name) ==
  CASE name = "idle" -> {"none"}
    [] name = "put" -> {"none", "has1", "remove1", "set", "has2", "remove2"}
                       \cup Settling
    [] name = "prune" -> {"none", "pruneRead", "pruneMarker", "pruneEntry",
                          "pruneOrphan"}
    [] OTHER -> {"none", "read"} \cup Settling

PhaseMatchesOp ==
  \A c \in Clients, d \in Digests : phase[c][d] \in PhasesOf(op[c])

LEMMA MatchStep == TypeOK /\ PhaseMatchesOp /\ [Next]_vars => PhaseMatchesOp'
<1> SUFFICES ASSUME TypeOK, PhaseMatchesOp, [Next]_vars PROVE PhaseMatchesOp'
  OBVIOUS
<1> USE DEF PhaseMatchesOp, PhasesOf, Settling
<1>1. CASE UNCHANGED vars
  BY <1>1 DEF vars
<1>2. ASSUME NEW c \in Clients, Call(c) PROVE PhaseMatchesOp'
  <2>1. ASSUME NEW d \in Digests, NEW e \in Entry, PutBegin(c, d, e)
        PROVE  PhaseMatchesOp'
    BY <2>1 DEF PutBegin, Begin, Resting, TypeOK
  <2>2. ASSUME NEW name \in {"list", "open"}, listKeys(c, name)
        PROVE  PhaseMatchesOp'
    BY <2>2 DEF listKeys, Begin, TypeOK
  <2>3. ASSUME NEW before \in Stamps, PruneBegin(c, before)
        PROVE  PhaseMatchesOp'
    BY <2>3 DEF PruneBegin, Begin, TypeOK
  <2>4. QED
    BY <1>2, <2>1, <2>2, <2>3 DEF Call, ListBegin, OpenBegin
<1>3. ASSUME NEW c \in Clients, NEW d \in Digests, NEW to \in Phase,
             GoTo(c, d, to), to \in PhasesOf(op[c])
      PROVE  PhaseMatchesOp'
  BY <1>3 DEF GoTo, TypeOK
<1>4. ASSUME NEW c \in Clients, NEW d \in Digests, Step(c, d)
      PROVE  \E to \in PhasesOf(op[c]) \cap Phase : GoTo(c, d, to)
  <2> USE DEF Phase, TypeOK
  <2>1. CASE clearMarkerHas(c, d)
    BY <2>1 DEF clearMarkerHas
  <2>2. CASE clearMarkerRemove(c, d)
    BY <2>2 DEF clearMarkerRemove
  <2>3. CASE PutSet(c, d)
    BY <2>3 DEF PutSet
  <2>4. CASE settleMarkerSet(c, d)
    BY <2>4 DEF settleMarkerSet
  <2>5. CASE settleMarkerReread(c, d)
    BY <2>5 DEF settleMarkerReread
  <2>6. CASE settleMarkerRemove(c, d)
    BY <2>6 DEF settleMarkerRemove
  <2>7. CASE readUnmarked(c, d)
    BY <2>7 DEF readUnmarked
  <2>8. CASE pruneRead(c, d)
    BY <2>8 DEF pruneRead
  <2>9. CASE pruneRemoveMarker(c, d)
    BY <2>9 DEF pruneRemoveMarker
  <2>10. CASE pruneRemoveEntry(c, d)
    BY <2>10 DEF pruneRemoveEntry
  <2>11. CASE pruneOrphan(c, d)
    BY <2>11 DEF pruneOrphan
  <2>12. QED
    BY <1>4, <2>1, <2>2, <2>3, <2>4, <2>5, <2>6, <2>7, <2>8, <2>9, <2>10, <2>11
    DEF Step
<1>5. ASSUME NEW c \in Clients, NEW d \in Digests, healFails(c, d)
      PROVE  PhaseMatchesOp'
  BY <1>5, <1>3 DEF healFails, Phase, TypeOK
<1>6. ASSUME NEW c \in Clients, End(c) PROVE PhaseMatchesOp'
  BY <1>6 DEF End, Resting, TypeOK
<1>7. QED
  BY <1>1, <1>2, <1>3, <1>4, <1>5, <1>6 DEF Next, Finish, Abandon

LEMMA MatchInvariant == Spec => []PhaseMatchesOp
<1>1. Init => PhaseMatchesOp
  BY DEF Init, PhaseMatchesOp, PhasesOf, Resting
<1>2. QED
  BY <1>1, TypeCorrect, MatchStep, PTL DEF Spec

-----------------------------------------------------------------------------
(* NoHiddenUnresolved: whoever hides an entry is either still attending to  *)
(* it or leaves its name in stale.                                          *)

Attending == {"reread", "unmark", "has2", "remove2"}

LEMMA HiddenStep ==
  TypeOK /\ PhaseMatchesOp /\ NoHiddenUnresolved /\ [Next]_vars
    => NoHiddenUnresolved'
<1> SUFFICES ASSUME TypeOK, PhaseMatchesOp, NoHiddenUnresolved, [Next]_vars,
                    NEW x \in Digests, Hidden(x)'
             PROVE  Attended(x)' \/ stale'[x] # {}
  BY DEF NoHiddenUnresolved
<1> DEFINE Goal == Attended(x)' \/ stale'[x] # {}
<1>0. Hidden(x) => Attended(x) \/ stale[x] # {}
  BY DEF NoHiddenUnresolved
(* A step that touches neither the keys nor the reasons, and moves nobody   *)
(* away from x, keeps the invariant.                                        *)
<1>a. ASSUME UNCHANGED <<entry, marked, stale>>,
             \A k \in Clients : phase[k][x] \in Attending =>
                                  phase'[k][x] \in Attending
      PROVE  Goal
  BY <1>0, <1>a DEF Hidden, isUnresolved, Attended, Attending
(* A step on another digest does not touch x.                               *)
<1>b. ASSUME NEW c \in Clients, NEW d \in Digests, d # x,
             entry'[x] = entry[x], x \in marked' => x \in marked,
             stale'[x] = stale[x], NEW to \in Phase, GoTo(c, d, to)
      PROVE  Goal
  BY <1>0, <1>b DEF Hidden, isUnresolved, Attended, GoTo, TypeOK
<1>1. CASE UNCHANGED vars
  BY <1>1, <1>a DEF vars
<1>2. ASSUME NEW c \in Clients, Call(c) PROVE Goal
  <2>1. ASSUME NEW phases \in [Digests -> Phase], NEW name, Begin(c, name, phases),
               UNCHANGED <<entry, marked, stale>>
        PROVE  Goal
    <3>1. \A k \in Clients : phase[k][x] \in Attending => phase'[k][x] = phase[k][x]
      BY <2>1 DEF Begin, PhaseMatchesOp, PhasesOf, Attending, TypeOK
    <3>2. QED
      BY <1>a, <2>1, <3>1
  <2>2. ASSUME NEW d \in Digests, NEW e \in Entry, PutBegin(c, d, e) PROVE Goal
    BY <2>1, <2>2 DEF PutBegin, Resting, Phase, store, history
  <2>3. ASSUME NEW name, listKeys(c, name) PROVE Goal
    BY <2>1, <2>3 DEF listKeys, Phase, store
  <2>4. ASSUME NEW before, PruneBegin(c, before) PROVE Goal
    BY <2>1, <2>4 DEF PruneBegin, Phase, store, history
  <2>5. QED
    BY <1>2, <2>2, <2>3, <2>4 DEF Call, ListBegin, OpenBegin
<1>3. ASSUME NEW c \in Clients, NEW d \in Digests, Step(c, d) PROVE Goal
  <2> USE DEF store, history
  (* What the store calls leave behind at the digest they are for.          *)
  <2>a. kvRemoveMarker(d) => d \notin marked' /\ marked' \subseteq marked
                             /\ entry' = entry
                             /\ (d # x => stale'[x] = stale[x])
    BY DEF kvRemoveMarker, TypeOK
  <2>1. CASE clearMarkerHas(c, d)
    <3>1. CASE d # x
      BY <2>1, <3>1, <1>b DEF clearMarkerHas, Phase
    <3>2. CASE d = x /\ x \in marked
      BY <2>1, <3>2, <1>a DEF clearMarkerHas, GoTo, Attending, TypeOK
    <3>3. CASE x \notin marked
      BY <2>1, <3>3 DEF clearMarkerHas, Hidden
    <3>4. QED
      BY <3>1, <3>2, <3>3
  <2>2. CASE clearMarkerRemove(c, d)
    BY <2>2, <2>a, <1>b DEF clearMarkerRemove, Hidden, Phase
  <2>3. CASE PutSet(c, d)
    <3>1. CASE d # x
      BY <2>3, <3>1, <1>b DEF PutSet, kvSetEntry, Phase, TypeOK
    <3>2. CASE d = x /\ arg[c].tag \in UnresolvedTags
      BY <2>3, <3>2 DEF PutSet, GoTo, Attended, TypeOK
    <3>3. CASE d = x /\ arg[c].tag \notin UnresolvedTags
      BY <2>3, <3>3 DEF PutSet, kvSetEntry, Hidden, isUnresolved, TypeOK
    <3>4. QED
      BY <3>1, <3>2, <3>3
  <2>4. CASE settleMarkerSet(c, d)
    <3>1. CASE d # x
      BY <2>4, <3>1, <1>b DEF settleMarkerSet, kvSetMarker, Phase
    <3>2. CASE d = x
      BY <2>4, <3>2 DEF settleMarkerSet, GoTo, Attended, TypeOK
    <3>3. QED
      BY <3>1, <3>2
  <2>5. CASE settleMarkerReread(c, d)
    <3>1. CASE isTerminal(d) /\ d = x
      BY <2>5, <3>1, EntryTypes DEF settleMarkerReread, isTerminal, Hidden,
         isUnresolved
    <3>2. CASE d # x
      BY <2>5, <3>2, <1>b DEF settleMarkerReread, Phase
    <3>3. CASE d = x /\ ~isTerminal(d)
      <4>1. GoTo(c, d, "unmark")
        BY <2>5, <3>3 DEF settleMarkerReread
      <4>2. QED
        BY <4>1, <3>3 DEF GoTo, Attended, TypeOK
    <3>4. QED
      BY <3>1, <3>2, <3>3
  <2>6. CASE settleMarkerRemove(c, d)
    BY <2>6, <2>a, <1>b DEF settleMarkerRemove, Hidden, Phase
  <2>7. CASE readUnmarked(c, d)
    BY <2>7, <1>a DEF readUnmarked, GoTo, Attending, TypeOK
  <2>8. CASE pruneRead(c, d)
    BY <2>8, <1>a DEF pruneRead, GoTo, Attending, TypeOK
  <2>9. CASE pruneRemoveMarker(c, d)
    BY <2>9, <2>a, <1>b DEF pruneRemoveMarker, Hidden, Phase
  <2>10. CASE pruneRemoveEntry(c, d)
    <3>1. CASE d # x
      BY <2>10, <3>1, <1>b DEF pruneRemoveEntry, kvRemoveEntry, Phase, TypeOK
    <3>2. CASE d = x
      BY <2>10, <3>2, EntryTypes DEF pruneRemoveEntry, kvRemoveEntry, Hidden,
         isUnresolved, TypeOK
    <3>3. QED
      BY <3>1, <3>2
  <2>11. CASE pruneOrphan(c, d)
    BY <2>11, <2>a, <1>b DEF pruneOrphan, Hidden, Phase
  <2>12. QED
    BY <1>3, <2>1, <2>2, <2>3, <2>4, <2>5, <2>6, <2>7, <2>8, <2>9, <2>10, <2>11
    DEF Step
(* Whoever leaves an attending phase without its call signs stale.          *)
<1>4. ASSUME NEW c \in Clients, NEW d \in Digests, healFails(c, d) PROVE Goal
  <2>1. CASE d # x
    BY <1>4, <1>b, <2>1 DEF healFails, Phase, store, TypeOK
  <2>2. CASE d = x
    <3>1. Hidden(x)
      BY <1>4 DEF healFails, store, Hidden, isUnresolved
    <3>2. CASE phase[c][d] = "unmark"
      BY <1>4, <2>2, <3>1, <3>2 DEF healFails, Deserts, TypeOK
    <3>3. CASE phase[c][d] = "mark"
      BY <1>0, <1>4, <2>2, <3>1, <3>3
      DEF healFails, Deserts, Attended, GoTo, TypeOK
    <3>4. QED
      BY <1>4, <3>2, <3>3 DEF healFails
  <2>3. QED
    BY <2>1, <2>2
<1>5. ASSUME NEW c \in Clients, Finish(c) PROVE Goal
  BY <1>5, <1>a DEF Finish, End, Resting, Attending, store, TypeOK
<1>6. ASSUME NEW c \in Clients, Abandon(c) PROVE Goal
  <2>1. Hidden(x)
    BY <1>6 DEF Abandon, End, store, Hidden, isUnresolved
  <2>2. CASE phase[c][x] \in Attending
    BY <1>6, <2>1, <2>2 DEF Abandon, Deserts, Attending
  <2>3. CASE phase[c][x] \notin Attending
    BY <1>0, <1>6, <2>1, <2>3
    DEF Abandon, End, Attended, Attending, TypeOK
  <2>4. QED
    BY <2>2, <2>3
<1>7. QED
  BY <1>1, <1>2, <1>3, <1>4, <1>5, <1>6 DEF Next

(* No race of put, listUnresolved and pruneSettled hides an unresolved      *)
(* entry behind a settled marker for good, in any number of contexts: a     *)
(* hidden entry has an operation that will unhide it, or one that was       *)
(* abandoned in the window before the call that would have.                 *)
THEOREM HiddenEntriesAreAttended == Spec => []NoHiddenUnresolved
<1>1. Init => NoHiddenUnresolved
  BY EntryTypes
  DEF Init, NoHiddenUnresolved, Hidden, isUnresolved, isTerminal
<1>2. QED
  BY <1>1, TypeCorrect, MatchInvariant, HiddenStep, PTL DEF Spec
-----------------------------------------------------------------------------
(* ListingComplete: what a listing owes is unresolved, and is either read   *)
(* already or still to be read.                                             *)

Listing(c) == op[c] \in {"list", "open"}

OwedIsComing ==
  \A c \in Clients : Listing(c) =>
    \A d \in owed[c] : isUnresolved(d) /\ (phase[c][d] = "read" \/ d \in found[c])

LEMMA OwedStep ==
  TypeOK /\ PhaseMatchesOp /\ OwedIsComing /\ [Next]_vars => OwedIsComing'
<1> SUFFICES ASSUME TypeOK, PhaseMatchesOp, OwedIsComing, [Next]_vars,
                    NEW k \in Clients, Listing(k)', NEW x \in owed'[k]
             PROVE  isUnresolved(x)' /\ (phase'[k][x] = "read" \/ x \in found'[k])
  BY DEF OwedIsComing
<1> DEFINE Goal == isUnresolved(x)' /\ (phase'[k][x] = "read" \/ x \in found'[k])
<1>0. Listing(k) /\ x \in owed[k] =>
        x \in Digests /\ isUnresolved(x) /\ (phase[k][x] = "read" \/ x \in found[k])
  BY DEF OwedIsComing, TypeOK
<1> USE DEF Listing, isUnresolved, isTerminal
<1>1. CASE UNCHANGED vars
  BY <1>0, <1>1 DEF vars
<1>2. ASSUME NEW c \in Clients, Call(c) PROVE Goal
  <2>1. ASSUME NEW d \in Digests, NEW e \in Entry, PutBegin(c, d, e) PROVE Goal
    BY <1>0, <2>1 DEF PutBegin, Begin, store, history, TypeOK
  <2>2. ASSUME NEW name \in {"list", "open"}, listKeys(c, name) PROVE Goal
    <3>1. CASE c = k
      BY <2>2, <3>1, EntryTypes DEF listKeys, Begin, store, TypeOK
    <3>2. CASE c # k
      BY <1>0, <2>2, <3>2 DEF listKeys, Begin, store, TypeOK
    <3>3. QED
      BY <3>1, <3>2
  <2>3. ASSUME NEW before, PruneBegin(c, before) PROVE Goal
    BY <1>0, <2>3 DEF PruneBegin, Begin, store, history, TypeOK
  <2>4. QED
    BY <1>2, <2>1, <2>2, <2>3 DEF Call, ListBegin, OpenBegin
(* Any step that is not the listing's own read of x leaves it to be read.   *)
<1>a. ASSUME NEW c \in Clients, NEW d \in Digests, NEW to \in Phase,
             GoTo(c, d, to), phase[c][d] # "read", UNCHANGED found,
             owed'[k] \subseteq owed[k], isUnresolved(x) => isUnresolved(x)'
      PROVE  Goal
  BY <1>0, <1>a DEF GoTo, TypeOK
<1>3. ASSUME NEW c \in Clients, NEW d \in Digests, Step(c, d) PROVE Goal
  <2> USE DEF store, history
  <2>1. CASE clearMarkerHas(c, d)
    BY <2>1, <1>a DEF clearMarkerHas, Phase
  <2>2. CASE clearMarkerRemove(c, d)
    BY <2>2, <1>a DEF clearMarkerRemove, kvRemoveMarker, Phase
  <2>3. CASE PutSet(c, d)
    <3>1. owed'[k] \subseteq owed[k] /\ (isUnresolved(x) => isUnresolved(x)')
      BY <2>3 DEF PutSet, kvSetEntry, TypeOK
    <3>2. QED
      BY <2>3, <3>1, <1>a DEF PutSet, Phase
  <2>4. CASE settleMarkerSet(c, d)
    BY <2>4, <1>a DEF settleMarkerSet, kvSetMarker, Phase
  <2>5. CASE settleMarkerReread(c, d)
    BY <2>5, <1>a DEF settleMarkerReread, Phase
  <2>6. CASE settleMarkerRemove(c, d)
    BY <2>6, <1>a DEF settleMarkerRemove, kvRemoveMarker, Phase
  <2>7. CASE readUnmarked(c, d)
    BY <1>0, <2>7 DEF readUnmarked, GoTo, TypeOK
  <2>8. CASE pruneRead(c, d)
    BY <2>8, <1>a DEF pruneRead, Phase
  <2>9. CASE pruneRemoveMarker(c, d)
    BY <2>9, <1>a DEF pruneRemoveMarker, kvRemoveMarker, Phase
  <2>10. CASE pruneRemoveEntry(c, d)
    <3>1. owed'[k] \subseteq owed[k] /\ (isUnresolved(x) => isUnresolved(x)')
      BY <2>10 DEF pruneRemoveEntry, kvRemoveEntry, TypeOK
    <3>2. QED
      BY <2>10, <3>1, <1>a DEF pruneRemoveEntry, Phase
  <2>11. CASE pruneOrphan(c, d)
    BY <2>11, <1>a DEF pruneOrphan, kvRemoveMarker, Phase
  <2>12. QED
    BY <1>3, <2>1, <2>2, <2>3, <2>4, <2>5, <2>6, <2>7, <2>8, <2>9, <2>10, <2>11
    DEF Step
<1>4. ASSUME NEW c \in Clients, NEW d \in Digests, healFails(c, d) PROVE Goal
  BY <1>4, <1>a DEF healFails, store, Phase
<1>5. ASSUME NEW c \in Clients, End(c) PROVE Goal
  BY <1>0, <1>5 DEF End, store, TypeOK
<1>6. QED
  BY <1>1, <1>2, <1>3, <1>4, <1>5 DEF Next, Finish, Abandon

LEMMA OwedInvariant == Spec => []OwedIsComing
<1>1. Init => OwedIsComing
  BY DEF Init, OwedIsComing, Listing
<1>2. QED
  BY <1>1, TypeCorrect, MatchInvariant, OwedStep, PTL DEF Spec

(* listUnresolved misses nothing it owes: an entry unresolved and unmarked  *)
(* at the `keys` call, and unresolved ever since, is in the answer.         *)
THEOREM ListingsAreComplete == Spec => []ListingComplete
<1>1. TypeOK /\ OwedIsComing => ListingComplete
  BY DEF TypeOK, OwedIsComing, Listing, ListingComplete, Resting
<1>2. QED
  BY <1>1, TypeCorrect, OwedInvariant, PTL

(* A running operation has no outcome yet.                                  *)
RunningHasNoOutcome ==
  \A c \in Clients : op[c] # "idle" => outcome[c] = "none"

(* Steps between the beginning and the end of an operation only move        *)
(* phases.                                                                  *)
LEMMA StepsOnlyMove ==
  ASSUME NEW c \in Clients, NEW d \in Digests, Step(c, d) \/ healFails(c, d)
  PROVE  UNCHANGED <<op, outcome, cutoff, arg>>
BY DEF Step, healFails, GoTo, clearMarkerHas, clearMarkerRemove, PutSet,
       settleMarkerSet, settleMarkerReread, settleMarkerRemove, readUnmarked,
       pruneRead, pruneRemoveMarker, pruneRemoveEntry, pruneOrphan

LEMMA NoOutcomeStep ==
  TypeOK /\ RunningHasNoOutcome /\ [Next]_vars => RunningHasNoOutcome'
<1> SUFFICES ASSUME TypeOK, RunningHasNoOutcome, [Next]_vars
             PROVE  RunningHasNoOutcome'
  OBVIOUS
<1> USE DEF RunningHasNoOutcome, TypeOK
<1>1. CASE UNCHANGED vars
  BY <1>1 DEF vars
<1>2. ASSUME NEW c \in Clients, Call(c) PROVE RunningHasNoOutcome'
  <2>1. ASSUME NEW name, NEW phases, Begin(c, name, phases)
        PROVE  RunningHasNoOutcome'
    BY <2>1 DEF Begin
  <2>2. QED
    BY <1>2, <2>1 DEF Call, ListBegin, OpenBegin, listKeys, PutBegin, PruneBegin
<1>3. ASSUME NEW c \in Clients, NEW d \in Digests, Step(c, d) \/ healFails(c, d)
      PROVE  RunningHasNoOutcome'
  BY <1>3, StepsOnlyMove
<1>4. ASSUME NEW c \in Clients, Finish(c) \/ Abandon(c)
      PROVE  RunningHasNoOutcome'
  BY <1>4 DEF Finish, Abandon, End
<1>5. QED
  BY <1>1, <1>2, <1>3, <1>4 DEF Next

(* A journal layer built with onUnresolved "fail" owes nobody an entry: it  *)
(* is built only over a complete and empty listing.                         *)
THEOREM OpensOverNothingOwed == Spec => OpenedOverNothingOwed
<1>1. Init => RunningHasNoOutcome
  BY DEF Init, RunningHasNoOutcome
<1>2. ASSUME TypeOK, RunningHasNoOutcome, ListingComplete, [Next]_vars
      PROVE  [\A c \in Clients :
                (op[c] = "open" /\ outcome'[c] = "opened") => owed[c] = {}]_vars
  <2> SUFFICES ASSUME NEW k \in Clients, op[k] = "open", outcome'[k] = "opened"
               PROVE  owed[k] = {}
    OBVIOUS
  <2>0. outcome[k] = "none"
    BY <1>2 DEF RunningHasNoOutcome
  <2>1. CASE UNCHANGED vars
    BY <1>2, <2>0, <2>1 DEF vars
  <2>2. ASSUME NEW c \in Clients, Call(c) PROVE FALSE
    <3>1. ASSUME NEW name, NEW phases, Begin(c, name, phases) PROVE FALSE
      BY <1>2, <2>0, <3>1 DEF Begin, TypeOK
    <3>2. QED
      BY <2>2, <3>1 DEF Call, ListBegin, OpenBegin, listKeys, PutBegin, PruneBegin
  <2>3. ASSUME NEW c \in Clients, NEW d \in Digests, Step(c, d) \/ healFails(c, d)
        PROVE  FALSE
    BY <2>0, <2>3, StepsOnlyMove
  <2>4. ASSUME NEW c \in Clients, Finish(c) PROVE owed[k] = {}
    <3>1. CASE c = k
      <4>1. found[k] = {}
        BY <1>2, <2>4, <3>1 DEF Finish, TypeOK
      <4>2. owed[k] \subseteq found[k]
        BY <1>2, <2>4, <3>1 DEF Finish, ListingComplete
      <4>3. QED
        BY <4>1, <4>2
    <3>2. CASE c # k
      BY <1>2, <2>0, <2>4, <3>2 DEF Finish, TypeOK
    <3>3. QED
      BY <3>1, <3>2
  <2>5. ASSUME NEW c \in Clients, Abandon(c) PROVE FALSE
    BY <2>0, <2>5 DEF Abandon
  <2>6. QED
    BY <1>2, <2>1, <2>2, <2>3, <2>4, <2>5 DEF Next
<1>3. QED
  BY <1>1, <1>2, TypeCorrect, NoOutcomeStep, ListingsAreComplete, PTL
  DEF Spec, OpenedOverNothingOwed

-----------------------------------------------------------------------------
(* PruneDeletesOnlyRead: what a prune is about to delete is still what it   *)
(* read, is gone, or was put again.                                         *)

Doomed == {"pruneMarker", "pruneEntry"}

DoomedWasRead ==
  \A c \in Clients, d \in Digests : phase[c][d] \in Doomed =>
    \/ d \in rewritten[c]
    \/ entry[d] = Absent
    \/ isTerminal(d) /\ entry[d].at < cutoff[c]

LEMMA DoomedStep ==
  TypeOK /\ PhaseMatchesOp /\ DoomedWasRead /\ [Next]_vars => DoomedWasRead'
<1> SUFFICES ASSUME TypeOK, PhaseMatchesOp, DoomedWasRead, [Next]_vars,
                    NEW k \in Clients, NEW x \in Digests,
                    phase'[k][x] \in Doomed
             PROVE  \/ x \in rewritten'[k]
                    \/ entry'[x] = Absent
                    \/ isTerminal(x)' /\ entry'[x].at < cutoff'[k]
  BY DEF DoomedWasRead
<1> DEFINE Goal == \/ x \in rewritten'[k]
                   \/ entry'[x] = Absent
                   \/ isTerminal(x)' /\ entry'[x].at < cutoff'[k]
<1>0. phase[k][x] \in Doomed => \/ x \in rewritten[k]
                                \/ entry[x] = Absent
                                \/ isTerminal(x) /\ entry[x].at < cutoff[k]
  BY DEF DoomedWasRead
<1>1. CASE UNCHANGED vars
  BY <1>0, <1>1 DEF vars, isTerminal
<1>2. ASSUME NEW c \in Clients, Call(c) PROVE Goal
  <2>1. ASSUME NEW name, NEW phases \in [Digests -> Phase \ Doomed],
               Begin(c, name, phases), UNCHANGED <<entry, rewritten>>,
               c # k => cutoff'[k] = cutoff[k]
        PROVE  Goal
    BY <1>0, <2>1 DEF Begin, isTerminal, TypeOK
  <2>2. ASSUME NEW d \in Digests, NEW e \in Entry, PutBegin(c, d, e) PROVE Goal
    BY <2>1, <2>2 DEF PutBegin, Resting, Phase, Doomed, store, history
  <2>3. ASSUME NEW name, listKeys(c, name) PROVE Goal
    BY <2>1, <2>3 DEF listKeys, Phase, Doomed, store
  <2>4. ASSUME NEW before, PruneBegin(c, before) PROVE Goal
    <3>1. c # k => cutoff'[k] = cutoff[k]
      BY <2>4 DEF PruneBegin, TypeOK
    <3>2. QED
      BY <2>1, <2>4, <3>1 DEF PruneBegin, Phase, Doomed, store, history
  <2>5. QED
    BY <1>2, <2>2, <2>3, <2>4 DEF Call, ListBegin, OpenBegin
(* A step that neither dooms x nor puts it.                                 *)
<1>a. ASSUME NEW c \in Clients, NEW d \in Digests, NEW to \in Phase, GoTo(c, d, to),
             (to \in Doomed => phase[c][d] \in Doomed),
             entry'[x] = entry[x], x \in rewritten[k] => x \in rewritten'[k]
      PROVE  Goal
  BY <1>0, <1>a DEF GoTo, isTerminal, TypeOK
<1>3. ASSUME NEW c \in Clients, NEW d \in Digests, Step(c, d) PROVE Goal
  <2> USE DEF store, history
  <2>1. CASE clearMarkerHas(c, d)
    BY <2>1, <1>a DEF clearMarkerHas, Phase, Doomed
  <2>2. CASE clearMarkerRemove(c, d)
    BY <2>2, <1>a DEF clearMarkerRemove, kvRemoveMarker, Phase, Doomed
  <2>3. CASE PutSet(c, d)
    <3>1. CASE d # x
      <4>1. entry'[x] = entry[x]
        BY <2>3, <3>1 DEF PutSet, kvSetEntry, TypeOK
      <4>2. phase[k][x] \in Doomed
        BY <2>3, <3>1 DEF PutSet, GoTo, TypeOK
      <4>3. x \in rewritten[k] => x \in rewritten'[k]
        BY <2>3, <4>2 DEF PutSet, kvSetEntry, PhaseMatchesOp, PhasesOf,
           Settling, Doomed, TypeOK
      <4>4. QED
        BY <2>3, <4>1, <4>3, <1>a DEF PutSet, Phase, Doomed
    <3>2. CASE d = x
      <4>1. phase[k][x] \in Doomed
        BY <2>3, <3>2 DEF PutSet, GoTo, Doomed, TypeOK
      <4>2. op[k] = "prune"
        BY <4>1 DEF PhaseMatchesOp, PhasesOf, Settling, Doomed, TypeOK
      <4>3. QED
        BY <2>3, <3>2, <4>2 DEF PutSet, kvSetEntry
    <3>3. QED
      BY <3>1, <3>2
  <2>4. CASE settleMarkerSet(c, d)
    BY <2>4, <1>a DEF settleMarkerSet, kvSetMarker, Phase, Doomed
  <2>5. CASE settleMarkerReread(c, d)
    BY <2>5, <1>a DEF settleMarkerReread, Phase, Doomed
  <2>6. CASE settleMarkerRemove(c, d)
    BY <2>6, <1>a DEF settleMarkerRemove, kvRemoveMarker, Phase, Doomed
  <2>7. CASE readUnmarked(c, d)
    BY <2>7, <1>a DEF readUnmarked, Phase, Doomed
  <2>8. CASE pruneRead(c, d)
    <3>1. CASE c = k /\ d = x
      BY <2>8, <3>1 DEF pruneRead, GoTo, Doomed, isTerminal, TypeOK
    <3>2. CASE ~(c = k /\ d = x)
      <4>1. phase'[k][x] = phase[k][x] /\ cutoff' = cutoff
        BY <2>8, <3>2 DEF pruneRead, GoTo, TypeOK
      <4>2. x \in rewritten[k] => x \in rewritten'[k]
        BY <2>8, <3>2 DEF pruneRead, TypeOK
      <4>3. QED
        BY <1>0, <2>8, <4>1, <4>2 DEF pruneRead, isTerminal
    <3>3. QED
      BY <3>1, <3>2
  <2>9. CASE pruneRemoveMarker(c, d)
    BY <2>9, <1>a DEF pruneRemoveMarker, kvRemoveMarker, Phase, Doomed
  <2>10. CASE pruneRemoveEntry(c, d)
    <3>1. CASE d # x
      <4>1. entry'[x] = entry[x] /\ rewritten' = rewritten
        BY <2>10, <3>1 DEF pruneRemoveEntry, kvRemoveEntry, TypeOK
      <4>2. QED
        BY <2>10, <4>1, <1>a DEF pruneRemoveEntry, Phase, Doomed
    <3>2. CASE d = x
      BY <2>10, <3>2 DEF pruneRemoveEntry, kvRemoveEntry, TypeOK
    <3>3. QED
      BY <3>1, <3>2
  <2>11. CASE pruneOrphan(c, d)
    BY <2>11, <1>a DEF pruneOrphan, kvRemoveMarker, Phase, Doomed
  <2>12. QED
    BY <1>3, <2>1, <2>2, <2>3, <2>4, <2>5, <2>6, <2>7, <2>8, <2>9, <2>10, <2>11
    DEF Step
<1>4. ASSUME NEW c \in Clients, NEW d \in Digests, healFails(c, d) PROVE Goal
  BY <1>4, <1>a DEF healFails, store, Phase, Doomed
<1>5. ASSUME NEW c \in Clients, End(c) PROVE Goal
  BY <1>0, <1>5 DEF End, Resting, Doomed, store, isTerminal, TypeOK
<1>6. QED
  BY <1>1, <1>2, <1>3, <1>4, <1>5 DEF Next, Finish, Abandon

(* A put that is running has its entry.                                     *)
PutHasEntry == \A c \in Clients : op[c] = "put" => arg[c] \in Entry

LEMMA PutHasEntryStep == TypeOK /\ PutHasEntry /\ [Next]_vars => PutHasEntry'
<1> SUFFICES ASSUME TypeOK, PutHasEntry, [Next]_vars PROVE PutHasEntry'
  OBVIOUS
<1> USE DEF PutHasEntry, TypeOK
<1>1. CASE UNCHANGED vars
  BY <1>1 DEF vars
<1>2. ASSUME NEW c \in Clients, Call(c) PROVE PutHasEntry'
  BY <1>2 DEF Call, ListBegin, OpenBegin, listKeys, PutBegin, PruneBegin, Begin
<1>3. ASSUME NEW c \in Clients, NEW d \in Digests, Step(c, d) \/ healFails(c, d)
      PROVE  PutHasEntry'
  BY <1>3, StepsOnlyMove
<1>4. ASSUME NEW c \in Clients, End(c) PROVE PutHasEntry'
  BY <1>4 DEF End
<1>5. QED
  BY <1>1, <1>2, <1>3, <1>4 DEF Next, Finish, Abandon

(* Only a put and a prune's deletion touch an entry.                        *)
LEMMA EntryWriters ==
  ASSUME [Next]_vars, entry' # entry
  PROVE  \E c \in Clients, d \in Digests : PutSet(c, d) \/ pruneRemoveEntry(c, d)
<1> USE DEF store
<1>1. UNCHANGED vars => entry' = entry
  BY DEF vars
<1>2. ASSUME NEW c \in Clients, Call(c) PROVE entry' = entry
  BY <1>2 DEF Call, ListBegin, OpenBegin, listKeys, PutBegin, PruneBegin
<1>3. ASSUME NEW c \in Clients, NEW d \in Digests, Step(c, d) \/ healFails(c, d)
      PROVE  entry' = entry \/ PutSet(c, d) \/ pruneRemoveEntry(c, d)
  BY <1>3 DEF Step, healFails, clearMarkerHas, clearMarkerRemove,
     settleMarkerSet, settleMarkerReread, settleMarkerRemove, readUnmarked,
     pruneRead, pruneRemoveMarker, pruneOrphan, kvRemoveMarker, kvSetMarker
<1>4. ASSUME NEW c \in Clients, End(c) PROVE entry' = entry
  BY <1>4 DEF End
<1>5. QED
  BY <1>1, <1>2, <1>3, <1>4 DEF Next, Finish, Abandon

(* pruneSettled deletes what it read to be terminal and older than the      *)
(* cutoff, or what somebody put again behind its back; nothing else in the  *)
(* journal deletes an entry.                                                *)
THEOREM PrunesOnlyRead == Spec => PruneDeletesOnlyRead
<1>1. Init => DoomedWasRead
  BY DEF Init, DoomedWasRead, Doomed, Resting
<1>0. Init => PutHasEntry
  BY DEF Init, PutHasEntry
<1>2. ASSUME TypeOK, PhaseMatchesOp, PutHasEntry, DoomedWasRead, [Next]_vars
      PROVE  [\A d \in Digests :
                (entry[d] # Absent /\ entry'[d] = Absent) =>
                  \E c \in Clients :
                    /\ op[c] = "prune"
                    /\ \/ d \in rewritten[c]
                       \/ isTerminal(d) /\ entry[d].at < cutoff[c]]_vars
  <2> SUFFICES ASSUME NEW x \in Digests, entry[x] # Absent, entry'[x] = Absent
               PROVE  \E c \in Clients :
                        /\ op[c] = "prune"
                        /\ \/ x \in rewritten[c]
                           \/ isTerminal(x) /\ entry[x].at < cutoff[c]
    OBVIOUS
  <2>1. PICK c \in Clients, d \in Digests : PutSet(c, d) \/ pruneRemoveEntry(c, d)
    BY <1>2, EntryWriters
  <2>2. CASE PutSet(c, d)
    <3>1. arg[c] \in Entry
      BY <1>2, <2>2 DEF PutSet, PhaseMatchesOp, PhasesOf, Settling, PutHasEntry, TypeOK
    <3>2. QED
      BY <1>2, <2>2, <3>1, EntryTypes DEF PutSet, kvSetEntry, TypeOK
  <2>3. CASE pruneRemoveEntry(c, d)
    <3>1. d = x
      BY <1>2, <2>3 DEF pruneRemoveEntry, kvRemoveEntry, TypeOK
    <3>2. op[c] = "prune"
      BY <1>2, <2>3 DEF pruneRemoveEntry, PhaseMatchesOp, PhasesOf, Settling, TypeOK
    <3>3. QED
      BY <1>2, <2>3, <3>1, <3>2 DEF pruneRemoveEntry, DoomedWasRead, Doomed
  <2>4. QED
    BY <2>1, <2>2, <2>3
<1>3. QED
  BY <1>0, <1>1, <1>2, TypeCorrect, MatchInvariant, PutHasEntryStep, DoomedStep, PTL
  DEF Spec, PruneDeletesOnlyRead
=============================================================================
