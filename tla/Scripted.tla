------------------------------ MODULE Scripted ------------------------------
(***************************************************************************)
(* The ScriptedClient of sui-effect/testing: objects and address balances a *)
(* test puts, one at a time, and lists of answers for the simulations and   *)
(* executions, consumed in order by whatever calls, the last repeating.     *)
(* SuiCore runs over it as over a node: a simulation is retried, an execute *)
(* is not, and what hangs is aborted.                                       *)
(***************************************************************************)
EXTENDS Naturals, FiniteSets, SequencesExt

CONSTANTS
  Caller,      \* fibers of a test
  Bytes,       \* built transactions, which are their digests too
  Scripts,     \* lists of answers a test may script
  FakeId,      \* spellings of object ids
  idOf,        \* the id each is normalized to
  Clock,       \* the id of the Clock object
  Fields,      \* the dynamic fields of a script, by parent: lists of [name, child]
  NoChild,
  Holder,
  TypeArg,     \* spellings of coin types
  coinOf,      \* the type each is normalized to
  MaxSimulates,\* of one simulation, by SuiCore
  MaxLog       \* bound: things the test puts, and answers it is given

(* What is normalized is its own spelling.                                  *)
ASSUME SpellingsNormalize ==
  /\ idOf \in [FakeId -> FakeId] /\ \A id \in FakeId : idOf[idOf[id]] = idOf[id]
  /\ Clock \in FakeId /\ idOf[Clock] = Clock
  /\ TypeArg = DOMAIN coinOf /\ "any" \notin TypeArg
ASSUME SpellingsAreCounted == IsFiniteSet(FakeId)

Field == [name : STRING, child : FakeId \cup {NoChild}]

Outcome == [tag : {"succeed", "failWith", "transportError", "hang"}, value : Nat]

ASSUME ListsAreLists ==
  /\ \A parent \in DOMAIN Fields : Fields[parent] \in Seq(Field)
  /\ Scripts \subseteq Seq(Outcome)
ASSUME MaxSimulatesPositive == MaxSimulates \in Nat \ {0}

VARIABLES
  objects,   \* by normalized id
  clock,     \* the time the Clock object tells
  deposits,  \* address balances, by holder and normalized type
  outcomes,  \* of each method: a list, and how many of it were taken
  answered,  \* by digest: the value of an execute, for getTransaction
  callers,   \* what each fiber is waiting for
  log        \* history: what the test put and scripted, and was answered

scriptedVars == <<objects, clock, deposits, outcomes, answered, callers, log>>

Scripting == {"simulate", "execute"}

NoAnswer == "none"

Idle == [pc |-> "idle", method |-> "none", of |-> "none", attempt |-> 0]

Entry(kind, key, value) == [kind |-> kind, key |-> key, value |-> value]

Logs(entry) == Len(log) < MaxLog /\ log' = Append(log, entry)

ScriptedInit ==
  /\ objects = << >> /\ clock = 0 /\ deposits = [h \in Holder |-> << >>]
  /\ \E s \in Scripts :
       /\ outcomes = [m \in Scripting |-> [list |-> s, next |-> 0]]
       /\ log = <<Entry("script", "simulate", s), Entry("script", "execute", s)>>
  /\ answered = [b \in Bytes |-> NoAnswer]
  /\ callers = [c \in Caller |-> Idle]

-----------------------------------------------------------------------------
(* What a test puts.                                                        *)

CoinType1 == [kind : {"coin"}, of : TypeArg]

FakeObject == [owner : Holder, type : CoinType1 \cup {[kind |-> "other", of |-> "none"]}]

(* Mutant: kept under the id as the test spells it.                         *)
asSpelled(id) == id

normalized(id) == idOf[id]

Put(key, value, map) == [k \in DOMAIN map \cup {key} |-> IF k = key THEN value ELSE map[k]]

putObject(id, put) ==
  /\ objects' = Put(normalized(id), put, objects)
  /\ Logs(Entry("object", id, put))
  /\ UNCHANGED <<clock, deposits, outcomes, answered, callers>>

setClock(time) ==
  /\ clock' = time
  /\ Logs(Entry("clock", Clock, time))
  /\ UNCHANGED <<objects, deposits, outcomes, answered, callers>>

setAddressBalance(holder, type, amount) ==
  /\ deposits' = [deposits EXCEPT ![holder] = Put(coinOf[type], amount, @)]
  /\ Logs(Entry("deposit", <<holder, type>>, amount))
  /\ UNCHANGED <<objects, clock, outcomes, answered, callers>>

(* Replaces what is left of a script, also while a call hangs.              *)
setOutcomes(method, list) ==
  /\ outcomes' = [outcomes EXCEPT ![method] = [list |-> list, next |-> 0]]
  /\ Logs(Entry("script", method, list))
  /\ UNCHANGED <<objects, clock, deposits, answered, callers>>

-----------------------------------------------------------------------------
(* What the reads serve.  Every coin is worth one.                          *)

(* At most one.                                                             *)
object(id) ==
  CASE normalized(id) = Clock -> {[owner |-> "shared", type |-> [kind |-> "clock", of |-> clock]]}
    [] normalized(id) \in DOMAIN objects \ {Clock} -> {objects[normalized(id)]}
    [] OTHER -> {}

(* Each at its place, found or not.                                         *)
getObjects1(ids) == [i \in DOMAIN ids |-> object(ids[i])]

coinTypeOf(type) == IF type.kind = "coin" THEN {coinOf[type.of]} ELSE {}

owned(holder) == {id \in DOMAIN objects : objects[id].owner = holder}

coins(holder, type) == {id \in owned(holder) : coinTypeOf(objects[id].type) = {coinOf[type]}}

(* By type, where a coin without its type argument is any coin.             *)
AnyType == [kind |-> "any", of |-> "any"]

listOwnedObjects(holder, type) ==
  {id \in owned(holder) :
     \/ type = AnyType
     \/ type.kind = objects[id].type.kind
        /\ (type.of = "any" \/ coinTypeOf(type) = coinTypeOf(objects[id].type))}

getBalance(holder, type) ==
  [addressBalance |-> IF coinOf[type] \in DOMAIN deposits[holder]
                      THEN deposits[holder][coinOf[type]] ELSE 0,
   coinBalance |-> Cardinality(coins(holder, type))]

listBalances(holder) ==
  DOMAIN deposits[holder] \cup UNION {coinTypeOf(objects[id].type) : id \in owned(holder)}

(* The fields scripted under the parent's normalized id, and no other        *)
(* spelling of it.                                                          *)
listDynamicFields(parent) ==
  IF idOf[parent] \in DOMAIN Fields THEN Fields[idOf[parent]] ELSE <<>>

FirstOf(entries, Is(_)) ==
  {entries[i] : i \in {k \in DOMAIN entries :
                        Is(entries[k]) /\ \A j \in 1..(k - 1) : ~Is(entries[j])}}

getDynamicField(parent, name) ==
  LET Is(entry) == entry.name = name IN FirstOf(listDynamicFields(parent), Is)

(* The child as it is now, found or not.                                    *)
getDynamicObjectField(parent, name) ==
  LET Is(entry) == entry.name = name /\ entry.child # NoChild
  IN UNION {object(entry.child) : entry \in FirstOf(listDynamicFields(parent), Is)}

-----------------------------------------------------------------------------
(* The scripted answers.                                                    *)

(* Mutant: a call that fails on the way has not had its answer.             *)
takenWhenServed(script, outcome) ==
  IF outcome.tag \in {"succeed", "failWith"} THEN script.next + 1 ELSE script.next

taken(script, outcome) == script.next + 1

scripted(script) ==
  script.list[IF script.next < Len(script.list) THEN script.next + 1 ELSE Len(script.list)]

Served(outcome) == outcome.tag \in {"succeed", "failWith"}

answer(c, call) ==
  LET script == outcomes[call.method]
      outcome == scripted(script)
      Becomes(pc) == callers' = [callers EXCEPT ![c] = [call EXCEPT !.pc = pc]]
  IN IF script.list = <<>>
     THEN Becomes("died") /\ UNCHANGED <<outcomes, answered, log>>   \* Unscripted
     ELSE /\ outcomes' = [outcomes EXCEPT ![call.method].next = taken(script, outcome)]
          /\ Logs(Entry("answer", <<call.method, call.of>>, outcome))
          /\ Becomes(CASE outcome.tag = "transportError" -> "failing"
                       [] outcome.tag = "hang" -> "hanging" [] OTHER -> "idle")
          /\ answered' = IF call.method = "execute" /\ Served(outcome)
                         THEN [answered EXCEPT ![call.of] = outcome] ELSE answered

(* Of bytes, or the simulation of a recipe that has none.                   *)
asks(c, method, transaction) ==
  /\ callers[c].pc = "idle"
  /\ answer(c, [pc |-> "idle", method |-> method, of |-> transaction, attempt |-> 1])
  /\ UNCHANGED <<objects, clock, deposits>>

(* The caller's timeout aborts it.                                          *)
untilAborted(c) ==
  /\ callers[c].pc = "hanging"
  /\ callers' = [callers EXCEPT ![c].pc = "failing"]
  /\ UNCHANGED <<objects, clock, deposits, outcomes, answered, log>>

(* A simulation that may yet pass is asked again, of whatever the script    *)
(* has come to.                                                             *)
asksAgain(c) ==
  /\ callers[c].pc = "failing"
  /\ \/ /\ callers[c].method = "simulate" /\ callers[c].attempt < MaxSimulates
        /\ answer(c, [callers[c] EXCEPT !.attempt = @ + 1])
     \/ /\ callers' = [callers EXCEPT ![c] = Idle]
        /\ UNCHANGED <<outcomes, answered, log>>
  /\ UNCHANGED <<objects, clock, deposits>>

(* No test puts an object of its own at the Clock's id, where getObjects     *)
(* would not serve it and listOwnedObjects would.                           *)
Holdings ==
  \/ \E id \in FakeId, o \in FakeObject : idOf[id] # Clock /\ putObject(id, o)
  \/ \E time \in 1..2 : setClock(time)
  \/ \E h \in Holder, t \in TypeArg, amount \in 0..1 : setAddressBalance(h, t, amount)

Answering ==
  \/ \E m \in Scripting, s \in Scripts : setOutcomes(m, s)
  \/ \E c \in Caller :
       \/ \E b \in Bytes : asks(c, "execute", b)
       \/ asks(c, "simulate", "recipe")
       \/ untilAborted(c) \/ asksAgain(c)

ScriptedSpec == ScriptedInit /\ [][Holdings \/ Answering]_scriptedVars

-----------------------------------------------------------------------------
(* Every call is answered as the test wrote: the n-th call of a method      *)
(* since its script was put in force has the script's n-th answer, or its   *)
(* last, whoever asked and whatever became of the calls before it; and what *)
(* is read of a transaction is the last that an execute of it was served.   *)
Before(i, Is(_)) == {j \in 1..i : Is(log[j])}

Latest(indices) == CHOOSE i \in indices : \A j \in indices : j <= i

AnswersAsWritten ==
  /\ \A i \in DOMAIN log : log[i].kind = "answer" =>
       LET method == log[i].key[1]
           IsScript(e) == e.kind = "script" /\ e.key = method
           IsAnswer(e) == e.kind = "answer" /\ e.key[1] = method
           from == Latest(Before(i, IsScript))
           list == log[from].value
           n == Cardinality(Before(i, IsAnswer) \ 1..from)
       IN log[i].value = list[IF n < Len(list) THEN n ELSE Len(list)]
  /\ \A b \in Bytes :
       LET IsServed(e) == e.kind = "answer" /\ e.key = <<"execute", b>> /\ Served(e.value)
           executed == Before(Len(log), IsServed)
       IN answered[b] = IF executed = {} THEN NoAnswer ELSE log[Latest(executed)].value

(* What a test put is what is read, however ids and types are spelled: each  *)
(* object of a batch as it was last put, and the Clock as it was last set;   *)
(* of an owner's objects those of the type; and what a holder has adds up:   *)
(* the latest deposit and every coin, each once, and a type with anything to *)
(* it listed.  The fields a script has under its parent's normalized id are  *)
(* read through any spelling of it, the first of a name and the first child  *)
(* of one; those under another spelling are read through none.               *)
LastOf(Is(_)) ==
  LET found == Before(Len(log), Is) IN IF found = {} THEN {} ELSE {log[Latest(found)].value}

PutLast(id) ==
  LET IsPut(e) == e.kind = "object" /\ idOf[e.key] = idOf[id]
      IsClock(e) == e.kind = "clock"
  IN IF idOf[id] # Clock THEN LastOf(IsPut)
     ELSE {[owner |-> "shared", type |-> [kind |-> "clock", of |-> t]] :
             t \in IF LastOf(IsClock) = {} THEN {0} ELSE LastOf(IsClock)}

HeldBy(holder, type) ==
  {id \in {idOf[f] : f \in FakeId} \ {Clock} :
     \E o \in PutLast(id) : /\ o.owner = holder /\ o.type.kind = "coin"
                           /\ coinOf[o.type.of] = coinOf[type]}

(* The fields of a parent, read through a spelling of it.                    *)
FieldsRead(id, fields) ==
  /\ listDynamicFields(id) = fields
  /\ \A i \in DOMAIN fields :
       LET name == fields[i].name
           Child(j) == fields[j].name = name /\ fields[j].child # NoChild
       IN /\ (\A j \in 1..(i - 1) : fields[j].name # name) =>
               getDynamicField(id, name) = {fields[i]}
          /\ Child(i) /\ (\A j \in 1..(i - 1) : ~Child(j)) =>
               getDynamicObjectField(id, name) = PutLast(fields[i].child)
          /\ (\A j \in DOMAIN fields : ~Child(j)) => getDynamicObjectField(id, name) = {}

ReadAsPut ==
  /\ LET ids == SetToSeq(FakeId)
     IN getObjects1(ids) = [i \in DOMAIN ids |-> PutLast(ids[i])]
  /\ \A parent \in DOMAIN Fields, id \in FakeId :
       idOf[parent] = parent /\ idOf[id] = parent => FieldsRead(id, Fields[parent])
  /\ \A parent \in DOMAIN Fields, id \in FakeId :
       idOf[id] \notin DOMAIN Fields =>
         \A i \in DOMAIN Fields[parent] :
           /\ getDynamicField(id, Fields[parent][i].name) = {}
           /\ getDynamicObjectField(id, Fields[parent][i].name) = {}

HoldingsAddUp ==
  \A h \in Holder, t \in TypeArg :
    LET IsDeposit(e) == e.kind = "deposit" /\ e.key[1] = h /\ coinOf[e.key[2]] = coinOf[t]
        held == HeldBy(h, t)
        balance == getBalance(h, t)
    IN /\ balance.addressBalance = IF LastOf(IsDeposit) = {} THEN 0
                                   ELSE CHOOSE amount \in LastOf(IsDeposit) : TRUE
       /\ balance.coinBalance = Cardinality(held)
       /\ listOwnedObjects(h, [kind |-> "coin", of |-> t]) = held
       /\ held \subseteq listOwnedObjects(h, [kind |-> "coin", of |-> "any"])
       /\ balance.addressBalance + balance.coinBalance > 0 => coinOf[t] \in listBalances(h)

(* A test is answered as it was written.                                     *)
ServesAsWritten == log # <<>> => AnswersAsWritten /\ ReadAsPut /\ HoldingsAddUp
=============================================================================
