-------------------------------- MODULE Chain --------------------------------
(***************************************************************************)
(* The network as services/Tx.ts relies on it: epochs, transactions that   *)
(* execute at most once per digest inside their validity window, owned     *)
(* objects whose version a transaction pins and consumes, and full nodes   *)
(* that answer reads from a past state of the chain and may prune it.      *)
(*                                                                         *)
(* A transaction of Txs is one the library signed; a Rival is any other    *)
(* transaction of the same owner that touches an object of Objects.        *)
(* Versions are Lamport versions: all that the library relies on is that a *)
(* transaction writes a version above every version it read, so one        *)
(* counter (lamport) hands them out.                                       *)
(***************************************************************************)
EXTENDS Naturals, FiniteSets

CONSTANTS
  Txs,          \* digests of the library's transactions, in the order signed
  Rivals,       \* digests of other transactions
  Objects,      \* owned objects and gas coins
  Pins,         \* the objects the bytes of each transaction pin
  Nodes,        \* the full nodes reads are answered by
  MaxEpoch,     \* bound: the last epoch
  NodesPrune    \* whether nodes forget old transactions

NoTx == 0

ASSUME TxsAreDigests == Txs \subseteq Nat \ {NoTx}
ASSUME RivalsAreOthers == Rivals \subseteq Nat \ (Txs \cup {NoTx})
ASSUME PinsAreObjects == Pins \in [Txs -> SUBSET Objects]
ASSUME ObjectsExist == Objects # {}
ASSUME MaxEpochIsNatural == MaxEpoch \in Nat
ASSUME NodesPruneIsBoolean == NodesPrune \in BOOLEAN

VARIABLES
  epoch,    \* the current epoch
  wire,     \* signed bytes the network may still act on
  bytes,    \* what each signed transaction pins, and its validity window
  ran,      \* digests that executed
  failed,   \* those that executed and failed (gas charged, inputs consumed)
  ranAt,    \* the epoch each executed in
  took,     \* effects: the version of each object it consumed, 0 for none
  object,   \* the live objects: version, previousTransaction, not deleted
  lamport,  \* the last version handed out
  view,     \* what each node has indexed: a past state of the chain
  dropped,  \* transactions a node has pruned
  covers    \* the first epoch a node still holds all of

chain == <<epoch, ran, failed, ranAt, took, object, lamport>>
nodes == <<view, dropped, covers>>

Digest == Txs \cup Rivals

Unsigned == [from |-> 0, until |-> 0, pinned |-> [o \in Objects |-> 0]]

ChainTypeOK ==
  /\ epoch \in 0..MaxEpoch
  /\ wire \subseteq Txs
  /\ bytes \in [Txs -> [from : Nat, until : Nat, pinned : [Objects -> Nat]]]
  /\ ran \subseteq Digest
  /\ failed \subseteq ran
  /\ ranAt \in [Digest -> 0..MaxEpoch]
  /\ took \in [Digest -> [Objects -> Nat]]
  /\ object \in [Objects -> [version : Nat, by : Digest \cup {NoTx}, live : BOOLEAN]]
  /\ lamport \in Nat
  /\ view \in [Nodes -> [epoch : 0..MaxEpoch, ran : SUBSET Digest,
                         object : [Objects -> [version : Nat,
                                               by : Digest \cup {NoTx},
                                               live : BOOLEAN]]]]
  /\ dropped \in [Nodes -> SUBSET Digest]
  /\ covers \in [Nodes -> 0..MaxEpoch]

Now == [epoch |-> epoch, ran |-> ran, object |-> object]

ChainInit ==
  /\ epoch = 0
  /\ wire = {}
  /\ bytes = [t \in Txs |-> Unsigned]
  /\ ran = {}
  /\ failed = {}
  /\ ranAt = [t \in Digest |-> 0]
  /\ took = [t \in Digest |-> [o \in Objects |-> 0]]
  /\ object = [o \in Objects |-> [version |-> 1, by |-> NoTx, live |-> TRUE]]
  /\ lamport = 1
  /\ view = [n \in Nodes |-> Now]
  /\ dropped = [n \in Nodes |-> {}]
  /\ covers = [n \in Nodes |-> 0]

-----------------------------------------------------------------------------
(* Digest t executes: it consumes the objects of ins and deletes gone.      *)
Consume(t, ins, gone) ==
  /\ ran' = ran \cup {t}
  /\ ranAt' = [ranAt EXCEPT ![t] = epoch]
  /\ took' = [took EXCEPT ![t] = [o \in Objects |->
                IF o \in ins THEN object[o].version ELSE 0]]
  /\ lamport' = lamport + 1
  /\ object' = [o \in Objects |->
                  IF o \in ins
                    THEN [version |-> lamport + 1, by |-> t, live |-> o \notin gone]
                    ELSE object[o]]
  /\ UNCHANGED <<epoch, wire, bytes, nodes>>

(* Validators execute the bytes of t once, inside their window, and only    *)
(* while every pinned object is live at exactly the pinned version.         *)
Execute(t) ==
  /\ t \in wire \ ran
  /\ bytes[t].from <= epoch /\ epoch <= bytes[t].until
  /\ \A o \in Pins[t] : object[o].live /\ object[o].version = bytes[t].pinned[o]
  /\ failed' \in {failed, failed \cup {t}}
  /\ \E gone \in SUBSET Pins[t] : Consume(t, Pins[t], gone)

(* Another transaction takes a live object at its current version.          *)
RivalRuns(r) ==
  /\ r \in Rivals \ ran
  /\ \E o \in Objects, gone \in SUBSET Objects :
       /\ object[o].live
       /\ gone \subseteq {o}
       /\ Consume(r, {o}, gone)
  /\ UNCHANGED failed

NextEpoch ==
  /\ epoch < MaxEpoch
  /\ epoch' = epoch + 1
  /\ UNCHANGED <<wire, bytes, ran, failed, ranAt, took, object, lamport, nodes>>

(* A node indexes what it lacks.  Between two of these steps it answers     *)
(* from the past; its epoch view and its transaction index move together.   *)
CatchUp(n) ==
  /\ view[n] # Now
  /\ view' = [view EXCEPT ![n] = Now]
  /\ UNCHANGED <<chain, wire, bytes, dropped, covers>>

(* A node forgets transactions of epochs before e.                          *)
Prune(n) ==
  /\ NodesPrune
  /\ \E e \in covers[n] + 1 .. view[n].epoch :
       /\ covers' = [covers EXCEPT ![n] = e]
       /\ \E old \in SUBSET {t \in view[n].ran : ranAt[t] < e} :
            dropped' = [dropped EXCEPT ![n] = @ \cup old]
  /\ UNCHANGED <<chain, wire, bytes, view>>

ChainNext ==
  \/ \E t \in Txs : Execute(t)
  \/ \E r \in Rivals : RivalRuns(r)
  \/ NextEpoch
  \/ \E n \in Nodes : CatchUp(n) \/ Prune(n)

(* What getTransaction finds on node n.                                     *)
Served(n) == view[n].ran \ dropped[n]
=============================================================================
