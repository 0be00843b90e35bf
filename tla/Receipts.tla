------------------------------ MODULE Receipts ------------------------------
(***************************************************************************)
(* What a caller reads of a transaction's effects: Executed and Simulation, *)
(* which share their accessors, over the changes and events a node reports, *)
(* or over what a relay hands on of them: a reply to submitVia.             *)
(*                                                                         *)
(* The transaction is external: its commands create, move, wrap, unwrap and *)
(* delete objects, publish packages and upgrade them, emit events, and may  *)
(* abort, which leaves nothing of what they did.                            *)
(***************************************************************************)
EXTENDS Naturals, FiniteSets, Sequences

CONSTANTS
  Thing,        \* the objects a transaction may touch
  Cap,          \* those that are upgrade capabilities
  Package,      \* ids of packages to publish
  Generic,      \* the object whose type is an instance of a generic one
  MaxCommands,  \* bound on the commands
  MaxTouched    \* bound on the things they touch

ASSUME CapsAreThings == Cap \subseteq Thing /\ Generic \in Thing \ Cap
ASSUME PackagesAreNot == Package \cap Thing = {}

VARIABLES
  before,   \* where each object is as the transaction begins
  now,      \* and as its commands leave it
  governs,  \* history: the cap each package of the transaction is governed by
  commands, \* history: how many commands there were, the objects they touched,
            \* the events they emitted, and did one abort
  receipt   \* what the caller has in hand

receiptVars == <<before, now, governs, commands, receipt>>

Owned(kind, party, start) == [kind |-> kind, party |-> party, start |-> start]

Owner == {Owned("AddressOwner", "alice", 0), Owned("AddressOwner", "bob", 0),
          Owned("ConsensusAddressOwner", "alice", 1), Owned("ConsensusAddressOwner", "alice", 2),
          Owned("Immutable", "", 0)}

Frozen == Owned("Immutable", "", 0)

Out(where) == Owned("none", where, 0)

Place == Owner \cup {Out("absent"), Out("wrapped"), Out("deleted")}

Live(place) == place \in Owner

typeNameOf == [id \in Thing \cup Package |->
                 IF id \in Package THEN <<"package">>
                 ELSE IF id \in Cap THEN <<"UpgradeCap">>
                 ELSE IF id = Generic THEN <<"T", "SUI">> ELSE <<"T", "USDC">>]

-----------------------------------------------------------------------------
(* The transaction.                                                         *)

Begun == {Owned("AddressOwner", "alice", 0), Owned("ConsensusAddressOwner", "alice", 1),
          Out("absent"), Out("wrapped")}

ReceiptsInit ==
  /\ before \in {f \in [Thing \cup Package -> Begun] :
                 /\ \A p \in Package : f[p] = Out("absent")
                 /\ \A cap \in Cap : f[cap].kind # "ConsensusAddressOwner"}
  /\ now = before
  /\ governs = [p \in Package |-> {}]
  /\ commands = [done |-> 0, touched |-> {}, events |-> <<>>, aborted |-> FALSE]
  /\ receipt = [tag |-> "none"]

Running == receipt.tag = "none" /\ commands.done < MaxCommands /\ ~commands.aborted

touches(ids) ==
  /\ Cardinality((commands.touched \cup ids) \cap Thing) <= MaxTouched
  /\ commands' = [commands EXCEPT !.done = @ + 1, !.touched = @ \cup ids]

(* What an event is of, and its bytes, word by word.                        *)
Event == {[type |-> <<"T", "SUI">>, bcs |-> <<"a">>],
          [type |-> <<"T", "USDC">>, bcs |-> <<"a", "b">>]}

Emits(event) ==
  /\ Running
  /\ commands' = [commands EXCEPT !.done = @ + 1, !.events = Append(@, event)]
  /\ UNCHANGED <<before, now, governs, receipt>>

Aborts2 ==
  /\ Running
  /\ commands' = [done |-> MaxCommands, touched |-> {}, events |-> <<>>, aborted |-> TRUE]
  /\ now' = before /\ governs' = [p \in Package |-> {}]
  /\ UNCHANGED <<before, receipt>>

(* Created, moved, unwrapped, changed where it is, wrapped or deleted.  Caps *)
(* come only with packages, and are not given to consensus owners.          *)
Moves1(id, to) ==
  /\ Running
  /\ now[id] \notin {Out("deleted"), Frozen}
  /\ now[id] = Out("absent") => id \notin Cap /\ to # Out("deleted")
  /\ to \in Place \ {Out("absent")}
  /\ id \in Cap => to.kind # "ConsensusAddressOwner"
  /\ now' = [now EXCEPT ![id] = to]
  /\ touches({id})
  /\ UNCHANGED <<before, governs, receipt>>

Publishes(p, cap) ==
  /\ Running
  /\ now[p] = Out("absent") /\ now[cap] = Out("absent")
  /\ now' = [now EXCEPT ![p] = Frozen, ![cap] = Owned("AddressOwner", "alice", 0)]
  /\ governs' = [governs EXCEPT ![p] = {cap}]
  /\ touches({p, cap})
  /\ UNCHANGED <<before, receipt>>

Upgrades(p, cap) ==
  /\ Running
  /\ now[p] = Out("absent") /\ Live(now[cap]) /\ now[cap] # Frozen
  /\ now' = [now EXCEPT ![p] = Frozen]
  /\ governs' = [governs EXCEPT ![p] = {cap}]
  /\ touches({p, cap})
  /\ UNCHANGED <<before, receipt>>

-----------------------------------------------------------------------------
(* What a node reports of it: nothing of an object that was created and     *)
(* deleted again, or that went from inside one object to inside another.    *)

Old == 1
New == 2
NotSaid == 0
NoOwner == Owned("null", "", 0)

Reported ==
  {id \in commands.touched :
     /\ ~(before[id] = Out("absent") /\ now[id] = Out("deleted"))
     /\ ~(before[id] = Out("wrapped") /\ now[id] = Out("wrapped"))}

Change(id) ==
  [id |-> id,
   inputState |-> IF Live(before[id]) THEN "Exists" ELSE "DoesNotExist",
   inputVersion |-> IF Live(before[id]) THEN Old ELSE NotSaid,
   inputOwner |-> IF Live(before[id]) THEN before[id] ELSE NoOwner,
   outputState |-> IF ~Live(now[id]) THEN "DoesNotExist"
                   ELSE IF id \in Package THEN "PackageWrite" ELSE "ObjectWrite",
   outputVersion |-> IF Live(now[id]) THEN New ELSE NotSaid,
   outputOwner |-> IF Live(now[id]) THEN now[id] ELSE NoOwner,
   idOperation |-> IF before[id] = Out("absent") THEN "Created"
                   ELSE IF now[id] = Out("deleted") THEN "Deleted" ELSE "None"]

(* An address balance that moved has an entry of its own.                   *)
AccumulatorChange ==
  [id |-> "accumulator", inputState |-> "DoesNotExist", inputVersion |-> NotSaid,
   inputOwner |-> NoOwner, outputState |-> "AccumulatorWriteV1", outputVersion |-> NotSaid,
   outputOwner |-> NoOwner, idOperation |-> "None"]

Effects == {Change(id) : id \in Reported} \cup {AccumulatorChange}

Executes1 ==
  [digest |-> "this", success |-> ~commands.aborted, changes |-> Effects,
   objectTypes |-> Reported, events |-> commands.events]

(* A result of another transaction, or one whose digest was lost.           *)
AnotherResult(digest, success) ==
  [digest |-> digest, success |-> success, changes |-> {AccumulatorChange},
   objectTypes |-> {}, events |-> <<>>]

-----------------------------------------------------------------------------
(* What a test scripts of it, which cannot say that an object is inside     *)
(* another.                                                                 *)

Scriptable == \A id \in commands.touched : Out("wrapped") \notin {before[id], now[id]}

kindOf(id) ==
  IF before[id] = Out("absent") THEN "created"
  ELSE IF now[id] = Out("deleted") THEN "deleted" ELSE "mutated"

(* Versions default to the ones before and after, and a write to one of an  *)
(* object: a published package is scripted as such.                         *)
changedObject(id, kind) ==
  [id |-> id,
   inputState |-> IF kind = "created" THEN "DoesNotExist" ELSE "Exists",
   inputVersion |-> IF kind = "created" THEN NotSaid ELSE New - 1,
   inputOwner |-> IF kind = "created" THEN NoOwner ELSE before[id],
   outputState |-> IF id \in Package THEN "PackageWrite"
                   ELSE IF kind = "deleted" THEN "DoesNotExist" ELSE "ObjectWrite",
   outputVersion |-> IF kind = "deleted" THEN NotSaid ELSE New,
   outputOwner |-> IF kind = "deleted" THEN NoOwner ELSE now[id],
   idOperation |-> CASE kind = "created" -> "Created" [] kind = "deleted" -> "Deleted"
                     [] OTHER -> "None"]

transactionResultOf ==
  [digest |-> "this", success |-> ~commands.aborted,
   changes |-> {changedObject(id, kindOf(id)) : id \in Reported},
   objectTypes |-> Reported, events |-> commands.events]

-----------------------------------------------------------------------------
(* The receipts.                                                            *)

Digest == {"this", "another", "missing"}

Executed(result, left) ==
  [tag |-> "Executed", digest |-> result.digest, changes |-> result.changes,
   objectTypes |-> result.objectTypes, events |-> result.events, left |-> left]

(* A failed transaction is never a receipt of the caller's.                 *)
fromTransactionResult(result) ==
  IF result.digest = "missing" THEN [tag |-> "DecodeError"]
  ELSE IF ~result.success THEN [tag |-> "ExecutionFailed", digest |-> result.digest]
  ELSE Executed(result, {})

reads ==
  /\ receipt.tag = "none"
  /\ \/ receipt' = fromTransactionResult(Executes1)
     \/ Scriptable /\ receipt' = fromTransactionResult(transactionResultOf)
  /\ UNCHANGED <<before, now, governs, commands>>

(* A relay says nothing of how an object went in and came out, or nothing   *)
(* of versions, owners, types and event bytes (JSON has none), or of what   *)
(* became of the id.                                                        *)
Reducible == {"states", "details", "idOperation", "bcs"}

Reductions == {left \in SUBSET Reducible : left # {} /\ ("bcs" \in left <=> "details" \in left)}

(* Mutant: an object nothing was said of was there and is gone.             *)
partialChangeGone(change, left) ==
  [change EXCEPT
     !.inputState = IF "states" \in left THEN "Exists" ELSE @,
     !.outputState = IF "states" \in left THEN "DoesNotExist" ELSE @]

(* What an envelope left out of a change was not said.                      *)
partialChange(change, left) ==
  [change EXCEPT
     !.inputState = IF "states" \in left THEN "Unknown" ELSE @,
     !.outputState = IF "states" \in left THEN "Unknown" ELSE @,
     !.inputOwner = IF "details" \in left THEN NoOwner ELSE @,
     !.outputOwner = IF "details" \in left THEN NoOwner ELSE @,
     !.inputVersion = IF "details" \in left THEN NotSaid ELSE @,
     !.outputVersion = IF "details" \in left THEN NotSaid ELSE @,
     !.idOperation = IF "idOperation" \in left THEN "Unknown" ELSE @]

partialEvent(event, left) == [event EXCEPT !.bcs = IF "bcs" \in left THEN <<>> ELSE @]

(* The envelope a relay makes of an answer: without a digest it is refused, *)
(* whatever else it leaves out is filled in.                                *)
fromPartial(result, left) ==
  IF result.digest = "missing" THEN [tag |-> "DecodeError"]
  ELSE Executed([result EXCEPT
                   !.changes = {partialChange(c, left) : c \in @},
                   !.objectTypes = IF "details" \in left THEN {} ELSE @,
                   !.events = [i \in DOMAIN @ |-> partialEvent(@[i], left)]], left)

relayed ==
  /\ receipt.tag = "Executed" /\ receipt.left = {}
  /\ \E left \in Reductions, digest \in Digest \ {"another"} :
       receipt' = fromPartial([receipt EXCEPT !.digest = digest], left)
  /\ UNCHANGED <<before, now, governs, commands>>

-----------------------------------------------------------------------------
(* What submitVia makes of a reply: the node's result passed on, or an      *)
(* envelope made of it, of these bytes or of others; or no envelope at all. *)

Reply ==
  [shape : {"result", "envelope"},
   of : {Executes1} \cup {AnotherResult(d, b) : d \in {"another", "missing"}, b \in BOOLEAN},
   left : {{"status"}, Reducible}]
    \cup [shape : {"acknowledgement"}]

AsksTheChain == [tag |-> "AsksTheChain"]

(* Mutant: any transaction's.                                               *)
aboutTheseAny(read) == IF read.tag = "DecodeError" THEN AsksTheChain ELSE read

(* What is of another digest, or of none, is no answer about these bytes.   *)
aboutThese(read) ==
  IF read.tag = "DecodeError" \/ read.digest # "this" THEN AsksTheChain ELSE read

(* An envelope that reports a failure has not its reason; one that leaves   *)
(* its status out is read as a success.                                     *)
executedOfReply(reply) ==
  CASE reply.shape = "result" -> aboutThese(fromTransactionResult(reply.of))
    [] reply.shape = "envelope" /\ ("status" \in reply.left \/ reply.of.success) ->
         aboutThese(fromPartial(reply.of, reply.left))
    [] OTHER -> AsksTheChain

replied ==
  /\ receipt.tag = "none"
  /\ \E reply \in Reply : receipt' = executedOfReply(reply)
  /\ UNCHANGED <<before, now, governs, commands>>

-----------------------------------------------------------------------------
(* The accessors.                                                           *)

Untyped == <<>>

(* A bare tag matches every instance of a generic, one with arguments only  *)
(* itself.                                                                  *)
typeMatches(expected, actual) ==
  IF Len(expected) > 1 THEN expected = actual
  ELSE actual # Untyped /\ Head(expected) = Head(actual)

typeOf(id) == IF id \in receipt.objectTypes THEN typeNameOf[id] ELSE Untyped

refOf(change, side) ==
  [id |-> change.id, type |-> typeOf(change.id),
   version |-> IF side = "output" THEN change.outputVersion ELSE change.inputVersion,
   owner |-> IF side = "output" THEN change.outputOwner ELSE change.inputOwner]

(* Never of an address balance that moved.                                  *)
select(changes, side) ==
  {refOf(c, side) : c \in {d \in changes : d.outputState # "AccumulatorWriteV1"}}

byType(refs, type) == {r \in refs : typeMatches(type, r.type)}

wroteAnObject(change) == change.outputState \in {"ObjectWrite", "Unknown"}

isWrapped(change) ==
  /\ change.idOperation = "None"
  /\ change.inputState = "Exists" /\ change.outputState = "DoesNotExist"

(* Who it is, whatever the version: nobody known when the envelope left it  *)
(* out.                                                                     *)
ownerKey(owner) == <<owner.kind, owner.party>>

isTransferred(change) ==
  /\ change.idOperation = "None"
  /\ change.inputState = "Exists" /\ wroteAnObject(change)
  /\ change.inputOwner # NoOwner /\ change.outputOwner # NoOwner
  /\ ownerKey(change.inputOwner) # ownerKey(change.outputOwner)

created ==
  select({c \in receipt.changes : c.idOperation = "Created" /\ wroteAnObject(c)}, "output")

mutated ==
  select({c \in receipt.changes : /\ c.idOperation = "None" /\ wroteAnObject(c)
                                  /\ c.inputState \in {"Exists", "Unknown"}}, "output")

(* As they went in: gone, or gone into another object.                      *)
deleted ==
  select({c \in receipt.changes : c.idOperation = "Deleted" \/ isWrapped(c)}, "input")

wrapped == select({c \in receipt.changes : isWrapped(c)}, "input")

transferred == select({c \in receipt.changes : isTransferred(c)}, "output")

packagesPublished ==
  select({c \in receipt.changes : c.outputState = "PackageWrite" /\ c.idOperation = "Created"},
         "output")

expectCreated(type) ==
  LET found == byType(created, type)
  IN IF Cardinality(found) = 1 THEN found ELSE {}

(* Mutant: a mutated cap before a created one.                              *)
capsMutatedFirst ==
  LET caps == byType(mutated, <<"UpgradeCap">>)
  IN IF caps # {} THEN caps ELSE byType(created, <<"UpgradeCap">>)

(* A publish creates a cap, an upgrade mutates the one it was allowed by.   *)
capsSeen ==
  LET caps == byType(created, <<"UpgradeCap">>)
  IN IF caps # {} THEN caps ELSE byType(mutated, <<"UpgradeCap">>)

expectPublished ==
  IF Cardinality(packagesPublished) = 1 /\ Cardinality(capsSeen) = 1
  THEN {<<p.id, cap.id>> : p \in packagesPublished, cap \in capsSeen} ELSE {}

-----------------------------------------------------------------------------
(* Events, decoded.                                                         *)

(* A layout, the type it was built with if any, and the words its mapping   *)
(* refuses.                                                                 *)
Codec == [of : {Untyped, <<"T">>, <<"T", "SUI">>}, words : 0..2, refuses : {{}, {"b"}}]

Fails1(kind) == [failed |-> kind, values |-> <<>>]

Decodes(values) == [failed |-> "no", values |-> values]

(* Mutant: what follows the layout is ignored.                              *)
parsesPrefix(codec, bytes) == Len(bytes) >= codec.words

(* The whole of the bytes, and no less.                                     *)
parses(codec, bytes) == Len(bytes) = codec.words

(* Its mapping may throw.                                                   *)
decodeWith(codec, bytes) ==
  LET parsed == SubSeq(bytes, 1, codec.words)
  IN IF parses(codec, bytes) /\ \A i \in DOMAIN parsed : parsed[i] \notin codec.refuses
     THEN Decodes(<<parsed>>) ELSE Fails1("bytes")

decodeContent(codec, event) ==
  IF ~typeMatches(codec.of, event.type) THEN Fails1("type") ELSE decodeWith(codec, event.bcs)

(* In the order they were emitted.                                          *)
ofType(type, events) ==
  LET found[n \in 0..Len(events)] ==
        IF n = 0 THEN <<>>
        ELSE IF typeMatches(type, events[n].type) THEN Append(found[n - 1], events[n])
        ELSE found[n - 1]
  IN found[Len(events)]

eventsOfType(type) == ofType(type, receipt.events)

(* All of them or none: the first that does not decode fails.               *)
eventsOf(codec) ==
  LET matching == eventsOfType(codec.of)
      read == [i \in DOMAIN matching |-> decodeContent(codec, matching[i])]
  IN IF codec.of = Untyped THEN Fails1("type")
     ELSE IF \E i \in DOMAIN read : read[i].failed # "no" THEN Fails1("bytes")
     ELSE Decodes([i \in DOMAIN read |-> Head(read[i].values)])

expectEvent(codec) ==
  IF codec.of # Untyped /\ Len(eventsOfType(codec.of)) # 1 THEN Fails1("UnexpectedEffects")
  ELSE eventsOf(codec)

ReceiptsNext ==
  \/ \E id \in Thing : \E to \in Place : Moves1(id, to)
  \/ \E p \in Package, cap \in Cap : Publishes(p, cap) \/ Upgrades(p, cap)
  \/ \E event \in Event : Emits(event)
  \/ Aborts2
  \/ reads
  \/ relayed
  \/ replied

ReceiptsSpec == ReceiptsInit /\ [][ReceiptsNext]_receiptVars

-----------------------------------------------------------------------------
RefNow(id) == [id |-> id, type |-> typeNameOf[id], version |-> New, owner |-> now[id]]

RefBefore(id) ==
  [id |-> id, type |-> typeNameOf[id], version |-> IF Live(before[id]) THEN Old ELSE NotSaid,
   owner |-> IF Live(before[id]) THEN before[id] ELSE NoOwner]

Ids(refs) == {r.id : r \in refs}

AlikeOwner(a, b) == a.kind = b.kind /\ a.party = b.party

Changed == {id \in Thing : id \in commands.touched /\ Live(before[id]) /\ Live(now[id])}

(* Where, among the events that were emitted, are those of a type.          *)
EmittedOf(type) ==
  {i \in DOMAIN commands.events : typeMatches(type, commands.events[i].type)}

(* A full answer: each accessor lists exactly the objects with that history, *)
(* as they are for the next transaction, or as they went in when they are    *)
(* gone; the cap it names for a package governs it, if the package's own was *)
(* created or mutated; and an event decodes into all that was emitted of its *)
(* type, in order and whole, whenever the layout is its own.                 *)
TellsTheTransaction ==
  receipt.tag = "Executed" /\ receipt.left = {} =>
    /\ created = {RefNow(id) : id \in {i \in Thing : before[i] = Out("absent") /\ Live(now[i])}}
    /\ mutated = {RefNow(id) : id \in Changed}
    /\ transferred = {RefNow(id) : id \in {i \in Changed : ~AlikeOwner(before[i], now[i])}}
    /\ deleted = {RefBefore(id) : id \in {i \in Thing :
                    \/ Live(before[i]) /\ ~Live(now[i])
                    \/ before[i] = Out("wrapped") /\ now[i] = Out("deleted")}}
    /\ wrapped = {RefBefore(id) : id \in {i \in Thing :
                    Live(before[i]) /\ now[i] = Out("wrapped")}}
    /\ \A type \in {<<"T">>, <<"T", "SUI">>} :
         LET made == {i \in Thing : before[i] = Out("absent") /\ Live(now[i])
                                     /\ typeMatches(type, typeNameOf[i])}
         IN expectCreated(type) = IF Cardinality(made) = 1 THEN {RefNow(i) : i \in made} ELSE {}
    /\ \A pair \in expectPublished : \A cap \in governs[pair[1]] :
         cap \in Ids(created \cup mutated) => pair[2] = cap
    /\ \A codec \in {c \in Codec : c.of # Untyped} :
         LET emitted == EmittedOf(codec.of)
             BytesOf(i) == commands.events[i].bcs
             own == \A i \in emitted : /\ Len(BytesOf(i)) = codec.words
                                       /\ "b" \in codec.refuses => codec.words < 2
         IN /\ own => \E at \in [1..Cardinality(emitted) -> emitted] :
                        /\ \A k \in DOMAIN at : \A j \in 1..(k - 1) : at[j] < at[k]
                        /\ eventsOf(codec) = Decodes([k \in DOMAIN at |-> BytesOf(at[k])])
            /\ ~own => eventsOf(codec).failed # "no"
            /\ expectEvent(codec).failed = "no" => Cardinality(emitted) = 1

(* A reduced envelope invents nothing: it never tells of an object as gone  *)
(* or as transferred that is not, or gives it a version or an owner it does *)
(* not have, or a value to an event that has none; and what was created or  *)
(* deleted is still told from the id operation alone.  But where it leaves  *)
(* the states out nobody can tell an object from a package or from one      *)
(* inside another, nor an address balance that moved from an object.        *)
ReducedInventsNothing ==
  receipt.tag = "Executed" =>
    /\ \A r \in created \cup mutated \cup transferred :
         /\ r.version \in {New, NotSaid}
         /\ r.owner # NoOwner => r.id \in Thing \cup Package /\ r.owner = now[r.id]
    /\ \A id \in Ids(created) :
         /\ id \in Thing \cup Package
         /\ before[id] = Out("absent") /\ now[id] # Out("deleted")
    /\ \A id \in Ids(mutated) \ {"accumulator"} :
         /\ id \in Thing
         /\ before[id] # Out("absent") /\ now[id] # Out("deleted")
    /\ "states" \notin receipt.left => \A id \in Ids(created \cup mutated) :
                                         id \in Thing /\ Live(now[id])
    /\ \A id \in Ids(packagesPublished) : id \in Package /\ Live(now[id])
    /\ \A id \in Ids(deleted) : id \in Thing /\ ~Live(now[id])
    /\ \A id \in Ids(transferred) : id \in Thing /\ ~AlikeOwner(before[id], now[id])
    /\ "idOperation" \notin receipt.left =>
         /\ \A id \in Thing : before[id] = Out("absent") /\ Live(now[id]) => id \in Ids(created)
         /\ \A id \in Thing :
              before[id] # Out("absent") /\ now[id] = Out("deleted") => id \in Ids(deleted)
    /\ "bcs" \in receipt.left => \A codec \in {c \in Codec : c.words > 0} :
                                   eventsOf(codec).values = <<>>

(* The receipts of a transaction are true, whoever handed them on: it is    *)
(* answered as executed only if it succeeded (or the relay left its status  *)
(* out), as failed only if it failed, never on another transaction's word;  *)
(* and what is read of it is what it did.                                   *)
ReceiptIsTrue ==
  /\ receipt.tag = "Executed" /\ "status" \notin receipt.left => ~commands.aborted
  /\ receipt.tag = "ExecutionFailed" => commands.aborted
  /\ TellsTheTransaction
  /\ ReducedInventsNothing
=============================================================================
