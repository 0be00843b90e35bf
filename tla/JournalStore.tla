---------------------------- MODULE JournalStore ----------------------------
(***************************************************************************)
(* The durable submission journal of services/JournalKeyValueStore.ts:     *)
(* several contexts (fibers, tabs, processes) over one KeyValueStore.      *)
(*                                                                         *)
(* Every call of the KeyValueStore is one step, so the steps of concurrent *)
(* operations interleave between any two calls.  A digest has two keys:    *)
(* entry:<digest> (variable entry) and settled:<digest> (membership in     *)
(* marked), the negative index listUnresolved skips by.  A client runs one *)
(* operation at a time; a listing or a prune fans out over digests, which  *)
(* the code runs with READ_CONCURRENCY = 8, so phase is per client and     *)
(* digest.                                                                 *)
(***************************************************************************)
EXTENDS Naturals

CONSTANTS
  Clients,     \* contexts that hold a journal over the one store
  Digests,     \* transaction digests
  Stamps,      \* recording times; a prune's cutoff is one of them
  PutTags,     \* the tags this instance puts (a bound on the data)
  MaxOps       \* bound: operations a client starts

UnresolvedTags == {"Signed", "Unknown"}

TerminalTags == {"Executed", "Failed", "NotApplied"}

ASSUME StampsAreNaturals == Stamps \subseteq Nat
ASSUME PutTagsAreTags == PutTags \subseteq UnresolvedTags \cup TerminalTags
ASSUME MaxOpsIsNatural == MaxOps \in Nat

VARIABLES
  entry,     \* entry:<digest>, or Absent
  marked,    \* the digests whose settled:<digest> key exists
  op,        \* the operation each client is in
  phase,     \* the next store call of each client for each digest
  arg,       \* the entry a put writes
  cutoff,    \* the stamp a prune deletes before
  found,     \* the unresolved digests a listing has read
  outcome,   \* how the client's last listing ended
  started,   \* operations started, against MaxOps
  stale,     \* history: who abandoned the call that would have unhidden it
  owed,      \* history: what a listing in progress has to return
  rewritten  \* history: digests put since a prune read them

store == <<entry, marked>>
client == <<op, phase, arg, cutoff, found, outcome, started>>
history == <<stale, owed, rewritten>>
vars == <<entry, marked, op, phase, arg, cutoff, found, outcome, started,
          stale, owed, rewritten>>

-----------------------------------------------------------------------------
(* Types.                                                                  *)

Absent == [tag |-> "Absent", at |-> 0]

Entry == [tag : UnresolvedTags \cup TerminalTags, at : Stamps]

Phase == {"none", "has1", "remove1", "set", "has2", "remove2",
          "mark", "reread", "unmark", "read",
          "pruneRead", "pruneMarker", "pruneEntry", "pruneOrphan"}

TypeOK ==
  /\ entry \in [Digests -> Entry \cup {Absent}]
  /\ marked \subseteq Digests
  /\ op \in [Clients -> {"idle", "put", "list", "open", "prune"}]
  /\ phase \in [Clients -> [Digests -> Phase]]
  /\ arg \in [Clients -> Entry \cup {Absent}]
  /\ cutoff \in [Clients -> Nat]
  /\ found \in [Clients -> SUBSET Digests]
  /\ outcome \in [Clients -> {"none", "listed", "opened", "refused"}]
  /\ started \in [Clients -> 0..MaxOps]
  /\ stale \in [Digests -> SUBSET {"settler", "writer"}]
  /\ owed \in [Clients -> SUBSET Digests]
  /\ rewritten \in [Clients -> SUBSET Digests]

isUnresolved(d) == entry[d].tag \in UnresolvedTags

isTerminal(d) == entry[d].tag \in TerminalTags

(* A marker over an unresolved entry: no listing will return the entry.    *)
Hidden(d) == d \in marked /\ isUnresolved(d)

Resting == [d \in Digests |-> "none"]

(* The store an earlier process left: entries of any kind, markers over     *)
(* settled entries, not over all of them (a 0.4 store has none, a crash     *)
(* leaves one out), and over none (a 0.4 prune of a store marked since).    *)
Init ==
  /\ entry \in [Digests -> {e \in Entry : e.tag \in PutTags} \cup {Absent}]
  /\ marked \in SUBSET {d \in Digests : ~isUnresolved(d)}
  /\ op = [c \in Clients |-> "idle"]
  /\ phase = [c \in Clients |-> Resting]
  /\ arg = [c \in Clients |-> Absent]
  /\ cutoff = [c \in Clients |-> 0]
  /\ found = [c \in Clients |-> {}]
  /\ outcome = [c \in Clients |-> "none"]
  /\ started = [c \in Clients |-> 0]
  /\ stale = [d \in Digests |-> {}]
  /\ owed = [c \in Clients |-> {}]
  /\ rewritten = [c \in Clients |-> {}]

-----------------------------------------------------------------------------
(* Store calls.  Each also keeps the history of what it did: a digest that *)
(* is not hidden any more has no stale mark to explain, a listing is owed  *)
(* only what stays unresolved, a prune remembers what was put after it     *)
(* read.                                                                   *)

kvSetEntry(d, e) ==
  /\ entry' = [entry EXCEPT ![d] = e]
  /\ stale' = IF d \in marked /\ e.tag \in UnresolvedTags
                THEN stale ELSE [stale EXCEPT ![d] = {}]
  /\ owed' = IF e.tag \in UnresolvedTags
               THEN owed ELSE [c \in Clients |-> owed[c] \ {d}]
  /\ rewritten' = [c \in Clients |->
                     IF op[c] = "prune" THEN rewritten[c] \cup {d} ELSE {}]
  /\ UNCHANGED marked

kvRemoveEntry(d) ==
  /\ entry' = [entry EXCEPT ![d] = Absent]
  /\ stale' = [stale EXCEPT ![d] = {}]
  /\ owed' = [c \in Clients |-> owed[c] \ {d}]
  /\ UNCHANGED <<marked, rewritten>>

kvSetMarker(d) ==
  /\ marked' = marked \cup {d}
  /\ UNCHANGED <<entry, history>>

kvRemoveMarker(d) ==
  /\ marked' = marked \ {d}
  /\ stale' = [stale EXCEPT ![d] = {}]
  /\ UNCHANGED <<entry, owed, rewritten>>

(* A client at phase `from` for d goes on to phase `to`.                    *)
GoTo(c, d, to) ==
  /\ phase' = [phase EXCEPT ![c][d] = to]
  /\ UNCHANGED <<op, arg, cutoff, outcome, started>>

Begin(c, name, phases) ==
  /\ op[c] = "idle"
  /\ started[c] < MaxOps
  /\ started' = [started EXCEPT ![c] = @ + 1]
  /\ op' = [op EXCEPT ![c] = name]
  /\ phase' = [phase EXCEPT ![c] = phases]
  /\ outcome' = [outcome EXCEPT ![c] = "none"]
  /\ UNCHANGED found

(* The locals of the operation go out of scope.                             *)
End(c) ==
  /\ op' = [op EXCEPT ![c] = "idle"]
  /\ phase' = [phase EXCEPT ![c] = Resting]
  /\ arg' = [arg EXCEPT ![c] = Absent]
  /\ cutoff' = [cutoff EXCEPT ![c] = 0]
  /\ found' = [found EXCEPT ![c] = {}]
  /\ owed' = [owed EXCEPT ![c] = {}]
  /\ rewritten' = [rewritten EXCEPT ![c] = {}]
  /\ UNCHANGED <<store, started>>

-----------------------------------------------------------------------------
(* put                                                                     *)

PutBegin(c, d, e) ==
  /\ Begin(c, "put", [Resting EXCEPT ![d] =
                        IF e.tag \in UnresolvedTags THEN "has1" ELSE "set"])
  /\ arg' = [arg EXCEPT ![c] = e]
  /\ UNCHANGED <<store, cutoff, history>>

(* clearMarker: `has`, and a `remove` only when it exists.                  *)
clearMarkerHas(c, d) ==
  /\ \/ /\ phase[c][d] = "has1"
        /\ GoTo(c, d, IF d \in marked THEN "remove1" ELSE "set")
     \/ /\ phase[c][d] = "has2"
        /\ GoTo(c, d, IF d \in marked THEN "remove2" ELSE "none")
  /\ UNCHANGED <<store, found, history>>

clearMarkerRemove(c, d) ==
  /\ \/ phase[c][d] = "remove1" /\ GoTo(c, d, "set")
     \/ phase[c][d] = "remove2" /\ GoTo(c, d, "none")
  /\ kvRemoveMarker(d)
  /\ UNCHANGED found

(* Mutant: an unresolved put trusts its first clear.                        *)
PutSetNoSecondClear(c, d) ==
  /\ phase[c][d] = "set"
  /\ kvSetEntry(d, arg[c])
  /\ GoTo(c, d, IF arg[c].tag \in UnresolvedTags THEN "none" ELSE "mark")
  /\ UNCHANGED found

PutSet(c, d) ==
  /\ phase[c][d] = "set"
  /\ kvSetEntry(d, arg[c])
  /\ GoTo(c, d, IF arg[c].tag \in UnresolvedTags THEN "has2" ELSE "mark")
  /\ UNCHANGED found

-----------------------------------------------------------------------------
(* settleMarker, of a terminal put and of a listing's heal                 *)

(* Mutant: the marker's value (the tag) is taken for the key's existence.   *)
settleMarkerSetTag(c, d) ==
  /\ phase[c][d] = "mark"
  /\ marked' = marked \cup {entry[d].tag}
  /\ GoTo(c, d, "reread")
  /\ UNCHANGED <<entry, found, history>>

settleMarkerSet(c, d) ==
  /\ phase[c][d] = "mark"
  /\ kvSetMarker(d)
  /\ GoTo(c, d, "reread")
  /\ UNCHANGED found

(* Mutant: a re-read that fails is taken for a confirmation.                *)
settleMarkerRereadTrusts(c, d) ==
  /\ phase[c][d] = "reread"
  /\ \/ GoTo(c, d, IF isTerminal(d) THEN "none" ELSE "unmark")
     \/ GoTo(c, d, "none")
  /\ UNCHANGED <<store, found, history>>

(* The re-read either answers or fails; a failure does not confirm.         *)
settleMarkerReread(c, d) ==
  /\ phase[c][d] = "reread"
  /\ \/ GoTo(c, d, IF isTerminal(d) THEN "none" ELSE "unmark")
     \/ GoTo(c, d, "unmark")
  /\ UNCHANGED <<store, found, history>>

settleMarkerRemove(c, d) ==
  /\ phase[c][d] = "unmark"
  /\ kvRemoveMarker(d)
  /\ GoTo(c, d, "none")
  /\ UNCHANGED found

(* Who leaves d hidden when the calls of phase f for d are not made.        *)
Deserts(d, f) ==
  IF ~Hidden(d) THEN {}
  ELSE IF f \in {"reread", "unmark"} THEN {"settler"}
  ELSE IF f \in {"has2", "remove2"} THEN {"writer"}
  ELSE {}

(* heal ignores a marker write or removal that fails; the listing goes on.  *)
healFails(c, d) ==
  /\ op[c] \in {"list", "open"}
  /\ phase[c][d] \in {"mark", "unmark"}
  /\ GoTo(c, d, "none")
  /\ stale' = [stale EXCEPT ![d] = @ \cup Deserts(d, phase[c][d])]
  /\ UNCHANGED <<store, found, owed, rewritten>>

-----------------------------------------------------------------------------
(* listUnresolved, and layerKeyValueStore which lists when it is built     *)

(* One `keys`: the entries with no marker are the ones to read.             *)
listKeys(c, name) ==
  /\ Begin(c, name, [d \in Digests |->
                       IF entry[d] # Absent /\ d \notin marked
                         THEN "read" ELSE "none"])
  /\ owed' = [owed EXCEPT ![c] = {d \in Digests : isUnresolved(d)
                                                  /\ d \notin marked}]
  /\ UNCHANGED <<store, arg, cutoff, stale, rewritten>>

ListBegin(c) == listKeys(c, "list")

OpenBegin(c) == listKeys(c, "open")

(* Mutant: the listing answers only what was never reconciled.              *)
readUnmarkedSignedOnly(c, d) ==
  /\ phase[c][d] = "read"
  /\ found' = IF entry[d].tag = "Signed"
                THEN [found EXCEPT ![c] = @ \cup {d}] ELSE found
  /\ GoTo(c, d, IF isTerminal(d) THEN "mark" ELSE "none")
  /\ UNCHANGED <<store, history>>

readUnmarked(c, d) ==
  /\ phase[c][d] = "read"
  /\ found' = IF isUnresolved(d)
                THEN [found EXCEPT ![c] = @ \cup {d}] ELSE found
  /\ GoTo(c, d, IF isTerminal(d) THEN "mark" ELSE "none")
  /\ UNCHANGED <<store, history>>

-----------------------------------------------------------------------------
(* pruneSettled: every read, then every deletion, then orphan markers      *)

PruneBegin(c, before) ==
  /\ Begin(c, "prune", [d \in Digests |->
                          IF entry[d] # Absent THEN "pruneRead"
                          ELSE IF d \in marked THEN "pruneOrphan" ELSE "none"])
  /\ cutoff' = [cutoff EXCEPT ![c] = before]
  /\ UNCHANGED <<store, arg, history>>

AllIn(c, phases) == \A d \in Digests : phase[c][d] \in phases

(* Mutant: the selection forgets that an unresolved entry is never pruned.  *)
pruneReadAny(c, d) ==
  /\ phase[c][d] = "pruneRead"
  /\ GoTo(c, d, IF entry[d] # Absent /\ entry[d].at < cutoff[c]
                  THEN "pruneMarker" ELSE "none")
  /\ rewritten' = [rewritten EXCEPT ![c] = @ \ {d}]
  /\ UNCHANGED <<store, found, stale, owed>>

pruneRead(c, d) ==
  /\ phase[c][d] = "pruneRead"
  /\ GoTo(c, d, IF isTerminal(d) /\ entry[d].at < cutoff[c]
                  THEN "pruneMarker" ELSE "none")
  /\ rewritten' = [rewritten EXCEPT ![c] = @ \ {d}]
  /\ UNCHANGED <<store, found, stale, owed>>

pruneRemoveMarker(c, d) ==
  /\ phase[c][d] = "pruneMarker"
  /\ AllIn(c, Phase \ {"pruneRead"})
  /\ kvRemoveMarker(d)
  /\ GoTo(c, d, "pruneEntry")
  /\ UNCHANGED found

pruneRemoveEntry(c, d) ==
  /\ phase[c][d] = "pruneEntry"
  /\ kvRemoveEntry(d)
  /\ GoTo(c, d, "none")
  /\ UNCHANGED found

pruneOrphan(c, d) ==
  /\ phase[c][d] = "pruneOrphan"
  /\ AllIn(c, {"none", "pruneOrphan"})
  /\ kvRemoveMarker(d)
  /\ GoTo(c, d, "none")
  /\ UNCHANGED found

-----------------------------------------------------------------------------
(* Endings                                                                 *)

Finish(c) ==
  /\ op[c] # "idle"
  /\ phase[c] = Resting
  /\ outcome' = [outcome EXCEPT ![c] =
                   CASE op[c] = "list" -> "listed"
                     [] op[c] = "open" /\ found[c] = {} -> "opened"
                     [] op[c] = "open" /\ found[c] # {} -> "refused"
                     [] OTHER -> "none"]
  /\ End(c)
  /\ UNCHANGED stale

(* The client dies or is interrupted, or a store call of its operation      *)
(* fails with JournalError: no call that is left is made.                   *)
Abandon(c) ==
  /\ op[c] # "idle"
  /\ stale' = [d \in Digests |-> stale[d] \cup Deserts(d, phase[c][d])]
  /\ End(c)
  /\ UNCHANGED outcome

-----------------------------------------------------------------------------

Step(c, d) ==
  \/ clearMarkerHas(c, d)
  \/ clearMarkerRemove(c, d)
  \/ PutSet(c, d)
  \/ settleMarkerSet(c, d)
  \/ settleMarkerReread(c, d)
  \/ settleMarkerRemove(c, d)
  \/ readUnmarked(c, d)
  \/ pruneRead(c, d)
  \/ pruneRemoveMarker(c, d)
  \/ pruneRemoveEntry(c, d)
  \/ pruneOrphan(c, d)

Call(c) ==
  \/ \E d \in Digests, e \in Entry : e.tag \in PutTags /\ PutBegin(c, d, e)
  \/ ListBegin(c)
  \/ OpenBegin(c)
  \/ \E before \in Stamps : PruneBegin(c, before)

Next ==
  \E c \in Clients :
    \/ Call(c)
    \/ \E d \in Digests : Step(c, d) \/ healFails(c, d)
    \/ Finish(c)
    \/ Abandon(c)

Spec == Init /\ [][Next]_vars

(* A fiber that is neither interrupted nor dead runs on: the Effect runtime *)
(* schedules every runnable fiber, and a store call answers.  Nothing makes *)
(* a caller start an operation, and nothing makes one fail.                 *)
Fairness == \A c \in Clients, d \in Digests : WF_vars(Step(c, d))

FairSpec == Spec /\ Fairness

-----------------------------------------------------------------------------
(* Properties                                                              *)

(* A client that will still look at d after its marker: a settleMarker      *)
(* before its re-read or its removal, an unresolved put before its second   *)
(* clear.                                                                   *)
Attended(d) ==
  \E c \in Clients : phase[c][d] \in {"reread", "unmark", "has2", "remove2"}

(* An unresolved entry (Signed, Unknown) is under a settled marker only     *)
(* while an operation that will take the marker back is still running, or   *)
(* after one was abandoned between its write and the call that makes it     *)
(* good: settleMarker before its re-read or removal, put before its second  *)
(* clear.  In particular an undisturbed race of put, put, listUnresolved    *)
(* and pruneSettled never hides an unresolved entry.                        *)
NoHiddenUnresolved ==
  \A d \in Digests : Hidden(d) => Attended(d) \/ stale[d] # {}

(* What the doc comment of `make` says: that race leaves a marker over an   *)
(* unresolved entry only when the settling process dies, or its remove      *)
(* fails, between its marker write and its re-read.                         *)
HiddenOnlyByDeadSettler ==
  \A d \in Digests : Hidden(d) => Attended(d) \/ "settler" \in stale[d]

(* listUnresolved returns every entry that was unresolved and unmarked when *)
(* it read the keys and has stayed unresolved since, whatever the other     *)
(* contexts put, heal or prune in the meantime.                             *)
ListingComplete ==
  \A c \in Clients :
    (op[c] \in {"list", "open"} /\ phase[c] = Resting) => owed[c] \subseteq found[c]

(* layerKeyValueStore({ onUnresolved: "fail" }) never builds over an entry  *)
(* that was unresolved and unmarked throughout its listing.                 *)
OpenedOverNothingOwed ==
  [][\A c \in Clients :
       (op[c] = "open" /\ outcome'[c] = "opened") => owed[c] = {}]_vars

(* pruneSettled deletes an entry only if it is terminal and older than the  *)
(* cutoff, or was put again after the prune read it (the documented race):  *)
(* an unresolved entry nobody rewrites is never deleted.                    *)
PruneDeletesOnlyRead ==
  [][\A d \in Digests :
       (entry[d] # Absent /\ entry'[d] = Absent) =>
         \E c \in Clients :
           /\ op[c] = "prune"
           /\ \/ d \in rewritten[c]
              \/ isTerminal(d) /\ entry[d].at < cutoff[c]]_vars

(* A hidden entry does not stay hidden: unless an operation is abandoned in *)
(* the window, the marker goes or the entry becomes terminal.               *)
HiddenIsTransient ==
  \A d \in Digests : Hidden(d) ~> (~Hidden(d) \/ stale[d] # {})
=============================================================================
