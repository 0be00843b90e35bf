------------------------------ MODULE SuiReads ------------------------------
(***************************************************************************)
(* The single-answer reads of services/Sui.ts over the read tier: objects   *)
(* by the batch (getObjects: chunks in flight at once) and one at a time,   *)
(* the reads that answer none for what is not there, an object as it was,   *)
(* simulations, the read of the chain identifier a layer is built on; and   *)
(* the streams of what an owner holds, page after page.                     *)
(*                                                                         *)
(* What an answer says is reduced to which object it is about and what      *)
(* became of it; objects come and go, so two answers need not agree.        *)
(***************************************************************************)
EXTENDS ReadTier, SequencesExt

CONSTANTS
  Spelling,   \* object ids as they are written
  keyOf,      \* the object each names
  Batches,    \* the id lists getObjects is called with
  CHUNK,
  CHUNK_CONCURRENCY,
  ChainId, KNOWN_CHAIN_ID, \* chains, and the one the program's network names, or NoChain
  NoChain,
  LayerRetries, \* what the schedule of layerNoDepsWith allows
  MaxHeld      \* bound: things an owner may hold, numbered in a node's order

Object == {keyOf[id] : id \in Spelling}

ASSUME KeysAreKeys == keyOf \in [Spelling -> Object]
ASSUME BatchesAreLists == Batches \subseteq Seq(Spelling)
ASSUME RoomForChunks == 1..CHUNK_CONCURRENCY \subseteq Slot
ASSUME ChunkLimitsPositive == {CHUNK, CHUNK_CONCURRENCY} \subseteq Nat \ {0}
ASSUME HoldingsAreCounted == MaxHeld \in Nat
ASSUME SdkThrows ==
  [class : {"object"}, ours : {TRUE}, reason : {"notFound", "deleted", "unknown"}]
    \cup [class : {"transport"}, cause : {"NOT_FOUND"}] \subseteq Thrown

VARIABLES
  read,     \* the read in progress
  told,     \* history: what the node has told of each object during it
  holding   \* what the owner holds; history: since the stream began, and ever

readVars == <<read, told, holding, request>>

Is == {"live", "otherType", "undecodable", "notFound", "deleted", "unknown"}

Present == {"live", "otherType", "undecodable"}

-----------------------------------------------------------------------------
(* The reads, the method each calls.                                        *)

Read1 ==
  [getObject |-> "getObject", getObjectOption |-> "getObject",
   getDynamicFieldOption |-> "getDynamicField",
   getDynamicObjectFieldOption |-> "getDynamicObjectField",
   chainTime |-> "getObject", getBalance |-> "getBalance",
   getTransaction |-> "getTransaction", getCoinMetadataOption |-> "getCoinMetadata",
   resolveNameServiceAddressOption |-> "resolveNameServiceAddress",
   defaultNameServiceNameOption |-> "defaultNameServiceName",
   getObjectAtVersion |-> "getObjectAtVersion", getServiceInfo |-> "getServiceInfo",
   simulate |-> "simulateTransaction", view |-> "simulateTransaction",
   layer |-> "getChainIdentifier"]

Stream1 ==
  [streamOwnedObjects |-> "listOwnedObjects", streamDynamicFields |-> "listDynamicFields",
   streamBalances |-> "listBalances", streamCoins |-> "listCoins"]

Op == DOMAIN Read1 \cup DOMAIN Stream1 \cup {"getObjects", "getObjectsStrict"}

Batch == {"getObjects", "getObjectsStrict"}

ObjectReads1 ==
  {"getObject", "getObjectOption", "getDynamicFieldOption",
   "getDynamicObjectFieldOption", "chainTime"}

NodeReads1 == {"getObjectAtVersion", "getServiceInfo"}

(* What the client is: of gRPC, of JSON-RPC, or something else.             *)
Client == {"grpc", "jsonRpc", "other"}

(* What a read's caller gets: a value, none, or a failure by its tag.       *)
Result == {"value", "none", "DecodeError", "ObjectNotFound", "ObjectDeleted",
           "ObjectUnavailable", "Absent", "TransportError", "TransactionNotFound",
           "ExecutionFailed", "SimulationFailed", "NetworkMismatch", "defect"}

Item == [about : Object, is : Is]

NoRead == [op |-> "getObject", pc |-> "idle", ids |-> <<>>, asked |-> 0,
           at |-> [s \in Slot |-> 0], answers |-> {}, results |-> <<>>,
           result |-> "value", client |-> "grpc", cursor |-> 0, emitted |-> <<>>]

ReadsTypeOK ==
  /\ ReadTypeOK
  /\ read.op \in Op /\ read.pc \in {"idle", "asking", "done"}
  /\ read.ids \in Seq(Spelling)
  /\ \A s \in Slot : read.at[s] \in 0..Len(read.ids)
  /\ read.answers \subseteq Item /\ read.results \in Seq(Item)
  /\ read.result \in Result
  /\ read.client \in Client
  /\ read.cursor \in 0..MaxHeld /\ read.emitted \in Seq(1..MaxHeld)
  /\ told \in [Object -> SUBSET (Is \cup {"version", "noVersion"})]
  /\ holding.since \subseteq holding.held /\ holding.held \subseteq holding.ever
  /\ holding.ever \subseteq 1..MaxHeld

ReadsInit ==
  /\ ReadInit
  /\ read = NoRead
  /\ told = [o \in Object |-> {}]
  /\ holding = [held |-> {}, since |-> {}, ever |-> {}]

Finish(result, results) ==
  /\ read' = [read EXCEPT !.pc = "done", !.result = result, !.results = results,
                          !.at = [s \in Slot |-> 0]]
  /\ request' = [s \in Slot |-> Idle]

-----------------------------------------------------------------------------
(* getObjects: one id per object, in chunks, a few in flight.               *)

(* Some numbers, in their order.                                            *)
ascending(numbers) ==
  CHOOSE f \in [1..Cardinality(numbers) -> numbers] :
    ToSet(f) = numbers /\ \A i, j \in DOMAIN f : i < j => f[i] < f[j]

(* The first spelling of each object.                                       *)
unique(ids) ==
  ascending({i \in DOMAIN ids : \A j \in 1..(i - 1) : keyOf[ids[j]] # keyOf[ids[i]]})

chunksOf(ids) ==
  LET firsts == unique(ids)
      n == (Len(firsts) + CHUNK - 1) \div CHUNK
  IN [c \in 1..n |->
        LET last == IF c = n THEN Len(firsts) ELSE c * CHUNK
        IN [i \in 1..(last - (c - 1) * CHUNK) |-> ids[firsts[(c - 1) * CHUNK + i]]]]

getObjects(op, ids) ==
  /\ read.pc = "idle"
  /\ read' = [NoRead EXCEPT !.op = op, !.pc = "asking", !.ids = ids]
  /\ UNCHANGED <<told, holding, request>>

askChunk(s) ==
  /\ read.pc = "asking" /\ read.op \in Batch
  /\ read.asked < Len(chunksOf(read.ids))
  /\ s \in 1..CHUNK_CONCURRENCY /\ \A t \in 1..(s - 1) : request[t].pc # "idle"
  /\ Ask(s, "getObjects")
  /\ read' = [read EXCEPT !.asked = @ + 1, !.at[s] = read.asked + 1]
  /\ UNCHANGED <<told, holding>>

(* What the node may answer for a page: each object as it is; or too few,   *)
(* or one entry missing, or entries about other objects than those asked.   *)
Missing == "undefined"

Pages(page) ==
  LET Of(objects) == {[i \in DOMAIN page |-> [about |-> objects[i], is |-> is[i]]] :
                        is \in [DOMAIN page -> Is]}
      exact == [i \in DOMAIN page |-> keyOf[page[i]]]
  IN Of(exact) \cup Of(Reverse(exact)) \cup Of([exact EXCEPT ![1] = Missing])
       \cup {Tail(items) : items \in Of(exact)}

(* Mutant: the entries are taken in the order they come.                    *)
answersPageByOrder(page, items) ==
  /\ Len(items) = Len(page)
  /\ \A i \in DOMAIN page : items[i].about # Missing

(* An entry that is an error says nothing of which object it is about.      *)
answersPage(page, items) ==
  /\ Len(items) = Len(page)
  /\ \A i \in DOMAIN page :
       /\ items[i].about # Missing
       /\ items[i].is \in Present => items[i].about = keyOf[page[i]]

(* Which object an entry tells of: an error, that of its place.             *)
SaidOf(page, items, i) ==
  IF items[i].is \in Present THEN items[i].about ELSE keyOf[page[i]]

entriesOf(page, items) ==
  {[about |-> keyOf[page[i]], is |-> items[i].is] : i \in DOMAIN page}

chunkRead(s) ==
  /\ read.pc = "asking" /\ read.op \in Batch /\ request[s].pc = "asked"
  /\ \E page \in {chunksOf(read.ids)[read.at[s]]} : \E items \in Pages(page) :
       /\ told' = [o \in Object |-> told[o] \cup
                     {items[i].is : i \in {j \in DOMAIN items : SaidOf(page, items, j) = o}}]
       /\ IF answersPage(page, items)
          THEN /\ Release(s)
               /\ read' = [read EXCEPT !.at[s] = 0,
                                       !.answers = @ \cup entriesOf(page, items)]
          ELSE Finish("TransportError", <<>>)
  /\ UNCHANGED holding

(* The first chunk that fails fails the read, and the others are given up.  *)
chunkFailed(s) ==
  /\ read.pc = "asking" /\ read.op \in Batch /\ request[s].pc = "done"
  /\ Finish(request[s].answer.tag, <<>>)
  /\ UNCHANGED <<told, holding>>

failureOf(is) ==
  CASE is = "live" -> "value"
    [] is = "notFound" -> "ObjectNotFound"
    [] is = "deleted" -> "ObjectDeleted"
    [] is = "unknown" -> "ObjectUnavailable"
    [] OTHER -> "DecodeError"

(* Every chunk has answered: the answers by id, in the order asked; the     *)
(* strict read fails with the first that is a failure.                      *)
batchRead ==
  LET results == [i \in DOMAIN read.ids |->
                    CHOOSE item \in read.answers : item.about = keyOf[read.ids[i]]]
      failed == {i \in DOMAIN results : results[i].is # "live"}
  IN /\ read.pc = "asking" /\ read.op \in Batch
     /\ read.asked = Len(chunksOf(read.ids))
     /\ \A s \in Slot : request[s].pc = "idle"
     /\ IF read.op = "getObjects" \/ failed = {} THEN Finish("value", results)
        ELSE Finish(failureOf(results[CHOOSE i \in failed : \A j \in failed : i <= j].is),
                    <<>>)
     /\ UNCHANGED <<told, holding>>

-----------------------------------------------------------------------------
(* One answer.                                                              *)

ask(op, id) ==
  /\ read.pc = "idle"
  /\ read' = [NoRead EXCEPT !.op = op, !.pc = "asking", !.ids = <<id>>]
  /\ Ask(1, Read1[op])
  /\ UNCHANGED <<told, holding>>

Asked == keyOf[read.ids[1]]

asking1 == read.pc = "asking" /\ read.op \notin Batch

Streaming == read.pc = "asking" /\ read.op \in DOMAIN Stream1

(* The SDK throws for an object it has not got; an object of another type   *)
(* than expected, or one whose content does not decode, is a DecodeError,   *)
(* which chainTime reports as a TransportError.                             *)
objectRead ==
  /\ asking1 /\ read.op \in ObjectReads1 /\ request[1].pc = "asked"
  /\ \E is \in Is :
       /\ told' = [told EXCEPT ![Asked] = @ \cup {is}]
       /\ IF is \in Present
          THEN Finish(IF is = "live" THEN "value"
                      ELSE IF read.op = "chainTime" THEN "TransportError" ELSE "DecodeError",
                      <<>>)
          ELSE /\ Throws(1, [class |-> "object", ours |-> TRUE, reason |-> is])
               /\ UNCHANGED read
  /\ UNCHANGED holding

(* What the other reads make of an answer: a value, a null, or one that does *)
(* not have the shape this version reads; a transaction may have failed, and *)
(* the node may be on another chain than the program's.                     *)
Answer(op) ==
  CASE op = "layer" -> ChainId
    [] op \in {"getTransaction", "simulate", "view"} -> {"value", "failed", "shapeless"}
    [] OTHER -> {"value", "null", "shapeless"}

decoded(op, answer) ==
  IF op = "layer" THEN IF KNOWN_CHAIN_ID \in {NoChain, answer} THEN "value" ELSE "NetworkMismatch"
  ELSE CASE answer = "null" /\ op # "getBalance" -> "none"
         [] answer = "failed" ->
              IF op = "getTransaction" THEN "ExecutionFailed" ELSE "SimulationFailed"
         [] answer = "value" -> "value"
         [] answer = "shapeless" /\ op = "view" -> "DecodeError"
         [] OTHER -> "TransportError"

answerRead ==
  /\ asking1 /\ read.op \notin ObjectReads1 \cup NodeReads1 \cup DOMAIN Stream1 /\ request[1].pc = "asked"
  /\ \E answer \in Answer(read.op) : Finish(decoded(read.op, answer), <<>>)
  /\ UNCHANGED <<told, holding>>

(* Mutant: whatever failed about the object, it is not there.               *)
caughtAll(op, error) ==
  CASE op \in {"getObjectOption", "getDynamicFieldOption", "getDynamicObjectFieldOption"}
         /\ error.tag \in {"ObjectNotFound", "ObjectDeleted", "ObjectUnavailable"} -> "none"
    [] OTHER -> error.tag

(* What becomes of a failure: what is not there is none to the reads that    *)
(* say so; a name the node does not know, or a node without the name        *)
(* service, is none; what cannot be told stays a failure.                   *)
caught(op, error) ==
  CASE op \in {"getObjectOption", "getDynamicFieldOption", "getDynamicObjectFieldOption"}
         /\ error.tag \in {"ObjectNotFound", "ObjectDeleted"} -> "none"
    [] op = "resolveNameServiceAddressOption" /\ error.status = "UNIMPLEMENTED" -> "none"
    [] op = "defaultNameServiceNameOption"
         /\ error.status \in {"UNIMPLEMENTED", "NOT_FOUND"} -> "none"
    [] op \in {"getDynamicFieldOption", "getDynamicObjectFieldOption"}
         /\ error.tag = "ObjectUnavailable" -> "TransportError"
    [] op = "chainTime" /\ error.tag \in {"ObjectNotFound", "ObjectDeleted", "ObjectUnavailable"}
         -> "TransportError"
    [] OTHER -> error.tag

(* layerNoDepsWith: the chain identifier is asked for again on the schedule *)
(* its options give.                                                        *)
layerAgain ==
  /\ asking1 /\ read.op = "layer" /\ request[1].pc = "done"
  /\ request[1].answer.retryable /\ read.asked < LayerRetries
  /\ request' = [request EXCEPT ![1] = [Idle EXCEPT !.method = "getChainIdentifier",
                                                   !.pc = "asked", !.attempt = 1]]
  /\ read' = [read EXCEPT !.asked = @ + 1]
  /\ UNCHANGED <<told, holding>>

readFails ==
  /\ asking1 /\ request[1].pc = "done"
  /\ ~(read.op = "layer" /\ request[1].answer.retryable /\ read.asked < LayerRetries)
  /\ Finish(caught(read.op, request[1].answer), <<>>)
  /\ UNCHANGED <<told, holding>>

-----------------------------------------------------------------------------
(* What the node and its client can tell of themselves and of the past.     *)

askNode(op, id, client) ==
  /\ read.pc = "idle"
  /\ read' = [NoRead EXCEPT !.op = op, !.pc = "asking", !.ids = <<id>>, !.client = client]
  /\ Ask(1, op)
  /\ UNCHANGED <<told, holding>>

(* An object at a version: the node has it or says it has not.  A client    *)
(* that reads no history answers without a request.                         *)
readObjectAtVersion ==
  /\ asking1 /\ read.op = "getObjectAtVersion" /\ request[1].pc = "asked"
  /\ IF read.client = "other" THEN Finish("Absent", <<>>) /\ UNCHANGED told
     ELSE \E is \in {"version", "noVersion"} :
            /\ told' = [told EXCEPT ![Asked] = @ \cup {is}]
            /\ Finish(IF is = "version" THEN "value" ELSE "Absent", <<>>)
  /\ UNCHANGED holding

(* Over gRPC a node may also throw that it does not serve the version.      *)
versionNotFound ==
  /\ asking1 /\ read.op = "getObjectAtVersion" /\ read.client = "grpc"
  /\ Throws(1, [class |-> "transport", cause |-> "NOT_FOUND"])
  /\ told' = [told EXCEPT ![Asked] = @ \cup {"noVersion"}]
  /\ UNCHANGED <<read, holding>>

(* Without the call in the client, its absence is the answer.               *)
readServiceInfo ==
  /\ asking1 /\ read.op = "getServiceInfo" /\ request[1].pc = "asked"
  /\ IF read.client = "grpc" THEN Finish("value", <<>>)
     ELSE /\ Fails(1, Failure("TransportError", FALSE, "UNIMPLEMENTED"), NoThrow)
          /\ UNCHANGED read
  /\ UNCHANGED <<told, holding>>

-----------------------------------------------------------------------------
(* Streams of what an owner holds, which changes meanwhile.                 *)

openStream(op) ==
  /\ read.pc = "idle"
  /\ read' = [NoRead EXCEPT !.op = op, !.pc = "asking"]
  /\ holding' \in {[held |-> h, since |-> h, ever |-> h] : h \in SUBSET (1..MaxHeld)}
  /\ UNCHANGED <<told, request>>

moves(i) ==
  /\ Streaming
  /\ holding' = [held |-> IF i \in holding.held THEN holding.held \ {i}
                          ELSE holding.held \cup {i},
                 since |-> holding.since \ {i}, ever |-> holding.ever \cup {i}]
  /\ UNCHANGED <<read, told, request>>

askPage ==
  /\ Streaming /\ request[1].pc = "idle"
  /\ Ask(1, Stream1[read.op])
  /\ UNCHANGED <<read, told, holding>>

(* What is held from the cursor to where the node stopped looking, which     *)
(* may be short of anything; a node that says there is more says from where. *)
PagesHeld(cursor) ==
  {[items |-> ascending(holding.held \cap (cursor + 1)..to), endCursor |-> to,
    hasNextPage |-> to < MaxHeld] : to \in (cursor + 1)..MaxHeld}

(* Mutant: a page with nothing on it is the last.                            *)
goesOnWithItems(page) == page.hasNextPage /\ page.items # <<>>

(* Never by how much there is on the page.                                   *)
goesOn(page) == page.hasNextPage

(* All of a page is decoded before any of it is given out.                   *)
pageRead1 ==
  /\ Streaming /\ request[1].pc = "asked"
  /\ \E page \in PagesHeld(read.cursor), decodes \in BOOLEAN :
       IF ~decodes THEN page.items # <<>> /\ Finish("TransportError", <<>>)
       ELSE /\ read' = [read EXCEPT !.emitted = @ \o page.items, !.cursor = page.endCursor,
                                    !.pc = IF goesOn(page) THEN "asking" ELSE "done"]
            /\ Release(1)
  /\ UNCHANGED <<told, holding>>

-----------------------------------------------------------------------------
(* The SDK's errors beside those of objectRead.                             *)
ThrownBy(op) ==
  CASE op = "getTransaction" -> {"transport", "transaction"}
    [] op \in {"simulate", "view"} -> {"transport", "simulation", "argument"}
    [] OTHER -> {"transport"}

NotServed == [class : {"transport"}, cause : {"NOT_FOUND", "5"}]

(* What a client that makes no request cannot meet.                         *)
requests ==
  CASE read.op = "getObjectAtVersion" -> read.client # "other"
    [] read.op = "getServiceInfo" -> read.client = "grpc"
    [] OTHER -> TRUE

(* The transport throws, an attempt is cut off, the schedule goes on.       *)
transportFails(s) ==
  /\ read.pc = "asking" /\ requests
  /\ \/ \E thrown \in {t \in Thrown : t.class \in ThrownBy(read.op)} :
          /\ read.op = "getObjectAtVersion" => thrown \notin NotServed
          /\ Throws(s, thrown)
     \/ TimesOut(s)
     \/ Again(s)
  /\ UNCHANGED <<read, told, holding>>

ReadsNext ==
  \/ \E op \in Batch, ids \in Batches : getObjects(op, ids)
  \/ \E op \in DOMAIN Read1 \ NodeReads1, id \in Spelling : ask(op, id)
  \/ \E op \in NodeReads1, id \in Spelling, client \in Client : askNode(op, id, client)
  \/ readObjectAtVersion \/ versionNotFound \/ readServiceInfo
  \/ \E op \in DOMAIN Stream1 : openStream(op)
  \/ \E i \in 1..MaxHeld : moves(i)
  \/ askPage \/ pageRead1
  \/ \E s \in Slot : askChunk(s) \/ chunkRead(s) \/ chunkFailed(s) \/ transportFails(s)
  \/ batchRead \/ objectRead \/ answerRead \/ readFails \/ layerAgain

ReadsSpec == ReadsInit /\ [][ReadsNext]_readVars

-----------------------------------------------------------------------------
(* Properties.                                                              *)

(* Every entry of a batch is about the id at its place, and says what the    *)
(* node said of that object during this read; one object is never given two  *)
(* answers, however often and however it was written.  A node whose answer   *)
(* does not line up fails the whole read.                                    *)
EachIdItsOwnAnswer ==
  read.pc = "done" /\ read.op \in Batch /\ read.result = "value" =>
    /\ Len(read.results) = Len(read.ids)
    /\ \A i \in DOMAIN read.ids :
         /\ read.results[i].about = keyOf[read.ids[i]]
         /\ read.results[i].is \in told[keyOf[read.ids[i]]]
         /\ read.op = "getObjectsStrict" => read.results[i].is = "live"
    /\ \A o \in Object : Cardinality({r \in ToSet(read.results) : r.about = o}) <= 1

(* None means that the node said there is nothing, and Absent that a node    *)
(* that reads history said it has not this version: an object it could not   *)
(* tell about, a transport failure or an answer of another shape is never    *)
(* reported as an absence.                                                   *)
NoneIsAnAnswer ==
  read.pc = "done" =>
    /\ read.result = "none" /\ read.op \in ObjectReads1 =>
         told[Asked] \cap {"notFound", "deleted"} # {}
    /\ read.result = "Absent" /\ read.client # "other" => "noVersion" \in told[Asked]
    /\ read.result = "value" /\ read.op = "getObjectAtVersion" => "version" \in told[Asked]

(* A stream gives out nothing twice and nothing that was never held; one     *)
(* that ended by itself has given out all that was held throughout, however  *)
(* short its pages were and whatever came and went behind its cursor.        *)
HeldIsListed ==
  read.op \in DOMAIN Stream1 =>
    /\ \A i, j \in DOMAIN read.emitted : i < j => read.emitted[i] < read.emitted[j]
    /\ ToSet(read.emitted) \subseteq holding.ever
    /\ read.pc = "done" /\ read.result = "value" => holding.since \subseteq ToSet(read.emitted)

(* What a read answers is what the node told it.                             *)
AnswersAreTheNodes == EachIdItsOwnAnswer /\ NoneIsAnAnswer /\ HeldIsListed
=============================================================================
