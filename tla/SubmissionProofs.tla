-------------------------- MODULE SubmissionProofs --------------------------
(***************************************************************************)
(* What holds of Submission for every value of its constants: type         *)
(* correctness, that bytes which may be on the wire have an entry, and,    *)
(* for every value that meets Trusted, that the lifecycle tells the truth: *)
(* nobody is misled, an intent runs at most once, and the lifecycle        *)
(* implements Intent.                                                      *)
(*                                                                         *)
(* The first two follow from one inductive invariant, Sound.  It says of a *)
(* process what its program counter promises: a busy one works for a       *)
(* transaction, one about to send has an attempt left and its Signed entry *)
(* written, one about to record has an answer the journal can hold.        *)
(*                                                                         *)
(* The others from Honest, which has four parts: what the network promises *)
(* of executed transactions and of its nodes (ChainSane, NodesSane), what  *)
(* has been handed over (Recorded), what each process in the middle of a   *)
(* call stands for (Word), and what has been recorded and answered         *)
(* (ToldTruly).  The chain only ever moves Forward, so evidence that a     *)
(* transaction cannot run any more (Dead) does not wear off between the    *)
(* read that found it and the answer that rests on it.                     *)
(***************************************************************************)
EXTENDS Submission, TLAPS


(* What a process may hold, by where it is.                                 *)
Promises(r) ==
  /\ r.pc # "idle" => r.tx \in Txs
  /\ r.pc \in {"journal", "execute", "relay"} => r.attempts < ResubmitAttempts
  /\ r.pc \in {"held", "settled"} => r.answer \in JournalTag

Good == {r \in Local : Promises(r)}

(* No send is under way.                                                    *)
Quiet == {r \in Good : r.pc \notin {"execute", "answer", "relay"}}

Journalled ==
  /\ \A p \in Procs :
       st[p].pc \in {"execute", "answer", "relay"} => journal[st[p].tx] # "Absent"
  /\ SentIsJournalled

Typed ==
  /\ ChainTypeOK
  /\ journal \in [Txs -> JournalTag]
  /\ st \in [Procs -> Good]
  /\ handed \subseteq Txs
  /\ released \subseteq Txs
  /\ faults \in 0..MaxFaults

Sound == Typed /\ Journalled

-----------------------------------------------------------------------------
(* Records a process moves to.                                              *)

LEMMA GoodFields ==
  ASSUME NEW r \in Good
  PROVE  /\ r \in Local
         /\ r.pc \in Pc /\ r.op \in Operations \cup {"none"} /\ r.tx \in Txs \cup {NoTx}
         /\ r.queue \in SUBSET Txs /\ r.resent \in BOOLEAN
         /\ r.attempts \in 0..ResubmitAttempts /\ r.reached \in BOOLEAN
         /\ r.rechecks \in 0..LockConflictRechecks /\ r.expired \in BOOLEAN
         /\ r.todo \in SUBSET Objects /\ r.asked \in SUBSET Objects
         /\ r.by \in Digest \cup {NoTx} /\ r.consumed \in BOOLEAN /\ r.answer \in Answer
         /\ r.pc # "idle" => r.tx \in Txs
         /\ r.pc \in {"journal", "execute", "relay"} => r.attempts < ResubmitAttempts
         /\ r.pc \in {"held", "settled"} => r.answer \in JournalTag
  BY DEF Good, Promises, Local

LEMMA IdleIsQuiet == Idle \in Quiet
  BY CountsAreNatural DEF Idle, Quiet, Good, Promises, Local, Pc, Reading, Answer, NoTx

(* A call that ends keeps its transaction.                                  *)
LEMMA EndsIsQuiet ==
  ASSUME NEW r \in Good, r.tx \in Txs, NEW pc \in {"held", "settled", "return"},
         NEW answer \in Answer, pc # "return" => answer \in JournalTag
  PROVE  Ends(r, pc, answer) \in Quiet
<1>1. Idle \in Local
  BY IdleIsQuiet, GoodFields DEF Quiet
<1>2. pc \in Pc
  BY DEF Pc
<1>3. Ends(r, pc, answer) \in Local
  BY <1>1, <1>2, GoodFields DEF Ends, Local
<1>4. /\ Ends(r, pc, answer).pc = pc
      /\ Ends(r, pc, answer).tx = r.tx
      /\ Ends(r, pc, answer).answer = answer
  BY <1>1 DEF Ends, Local
<1>5. QED
  BY <1>3, <1>4 DEF Quiet, Good, Promises

LEMMA RecoverIsQuiet ==
  ASSUME NEW r \in Local, r.tx \in Txs
  PROVE  Recover(r) \in Quiet
<1>1. Idle \in Local
  BY IdleIsQuiet, GoodFields DEF Quiet
<1>2. "recover" \in Pc
  BY DEF Pc, Reading
<1>3. Recover(r) \in Local
  BY <1>1, <1>2 DEF Recover, Local
<1>4. Recover(r).pc = "recover" /\ Recover(r).tx = r.tx
  BY <1>1 DEF Recover, Local
<1>5. QED
  BY <1>3, <1>4 DEF Quiet, Good, Promises

LEMMA ConcludeIsQuiet ==
  ASSUME NEW r \in Good, r.tx \in Txs,
         NEW answer \in Answer \cap JournalTag
  PROVE  Conclude(r, answer) \in Quiet
<1>1. CASE answer = "Unknown" /\ r.rechecks > 0
  <2> DEFINE again == [r EXCEPT !.rechecks = @ - 1]
  <2>1. r.rechecks - 1 \in 0..LockConflictRechecks
    BY <1>1, GoodFields, CountsAreNatural
  <2>2. again \in Local /\ again.tx = r.tx
    BY <2>1, GoodFields DEF Local
  <2>3. Recover(again) \in Quiet
    BY <2>2, RecoverIsQuiet
  <2>4. QED
    BY <1>1, <2>3 DEF Conclude
<1>2. CASE ~(answer = "Unknown" /\ r.rechecks > 0)
  BY <1>2, EndsIsQuiet DEF Conclude
<1>3. QED
  BY <1>1, <1>2

(* A read that leads on to another read, whatever it remembers.             *)
LEMMA ReadingIsQuiet ==
  ASSUME NEW r \in Local, r.pc \in Reading, r.tx \in Txs
  PROVE  r \in Quiet
  BY DEF Quiet, Good, Promises, Reading

LEMMA InputsIsQuiet ==
  ASSUME NEW r \in Local, r.tx \in Txs
  PROVE  Inputs(r) \in Quiet
<1>1. "inputs" \in Pc /\ "inputs" \in Reading
  BY DEF Pc, Reading
<1>2. Pins[r.tx] \in SUBSET Objects
  BY PinsAreObjects
<1>3. Inputs(r) \in Local
  BY <1>1, <1>2 DEF Inputs, Local
<1>4. Inputs(r).pc = "inputs" /\ Inputs(r).tx = r.tx
  BY DEF Inputs, Local
<1>5. QED
  BY <1>1, <1>3, <1>4, ReadingIsQuiet

(* Only the program counter moves.                                          *)
LEMMA PcMoves ==
  ASSUME NEW r \in Local, NEW pc \in Pc
  PROVE  /\ [r EXCEPT !.pc = pc] \in Local
         /\ [r EXCEPT !.pc = pc].pc = pc
         /\ [r EXCEPT !.pc = pc].tx = r.tx
         /\ [r EXCEPT !.pc = pc].attempts = r.attempts
         /\ [r EXCEPT !.pc = pc].answer = r.answer
  BY DEF Local

LEMMA GoesOn ==
  ASSUME NEW r \in Good, r.tx \in Txs,
         NEW pc \in Pc \ {"journal", "execute", "answer", "relay", "held", "settled"}
  PROVE  [r EXCEPT !.pc = pc] \in Quiet
<1>1. r \in Local
  BY GoodFields
<1>2. QED
  BY <1>1, PcMoves DEF Quiet, Good, Promises

-----------------------------------------------------------------------------
(* One process moves; nothing else changes.                                 *)

LEMMA FaultIsTyped ==
  ASSUME Typed, NEW kind, NoFault \/ Fault(kind)
  PROVE  faults' \in 0..MaxFaults
  BY CountsAreNatural DEF Typed, NoFault, Fault

LEMMA Moves ==
  ASSUME Sound, NEW p \in Procs, NEW r \in Good, NEW kind,
         NoFault \/ Fault(kind), Only(p, r),
         r.pc \in {"execute", "answer", "relay"} => journal[r.tx] # "Absent"
  PROVE  Sound'
<1>1. faults' \in 0..MaxFaults
  BY FaultIsTyped DEF Sound
<1>2. st' \in [Procs -> Good]
  BY DEF Sound, Typed, Only, Move
<1>3. UNCHANGED <<network, journal, handed, released>>
  BY DEF Only
<1>4. Typed'
  BY <1>1, <1>2, <1>3 DEF Sound, Typed, ChainTypeOK, network, chain, nodes
<1>5. \A q \in Procs : st'[q] = IF q = p THEN r ELSE st[q]
  BY DEF Sound, Typed, Only, Move
<1>6. Journalled'
  BY <1>3, <1>5 DEF Sound, Journalled, SentIsJournalled, network
<1>7. QED
  BY <1>4, <1>6 DEF Sound

LEMMA QuietMoves ==
  ASSUME Sound, NEW p \in Procs, NEW r \in Quiet, NEW kind,
         NoFault \/ Fault(kind), Only(p, r)
  PROVE  Sound'
  BY Moves DEF Quiet

-----------------------------------------------------------------------------
(* The network moves.                                                       *)

ObjectState == [Objects -> [version : Nat, by : Digest \cup {NoTx}, live : BOOLEAN]]

LEMMA ConsumeTypes ==
  ASSUME ChainTypeOK, NEW t \in Digest, NEW ins \in SUBSET Objects,
         NEW gone \in SUBSET Objects, Consume(t, ins, gone),
         failed' \subseteq ran'
  PROVE  ChainTypeOK'
<1>1. lamport' \in Nat
  BY DEF ChainTypeOK, Consume
<1>2. object' \in ObjectState
  BY DEF ChainTypeOK, Consume, ObjectState
<1>3. took' \in [Digest -> [Objects -> Nat]]
  <2>1. [o \in Objects |-> IF o \in ins THEN object[o].version ELSE 0]
          \in [Objects -> Nat]
    BY DEF ChainTypeOK
  <2>2. QED
    BY <2>1 DEF ChainTypeOK, Consume
<1>4. ran' \subseteq Digest /\ ranAt' \in [Digest -> 0..MaxEpoch]
  BY DEF ChainTypeOK, Consume
<1>5. QED
  BY <1>1, <1>2, <1>3, <1>4 DEF ChainTypeOK, Consume, nodes, ObjectState

LEMMA ChainTypes ==
  ASSUME ChainTypeOK, ChainNext
  PROVE  ChainTypeOK'
<1>1. ASSUME NEW t \in Txs, Execute(t)
      PROVE  ChainTypeOK'
  <2>1. PICK gone \in SUBSET Pins[t] : Consume(t, Pins[t], gone)
    BY <1>1 DEF Execute
  <2>2. t \in Digest /\ Pins[t] \subseteq Objects
    BY PinsAreObjects DEF Digest
  <2>3. failed' \subseteq ran'
    BY <1>1, <2>1 DEF Execute, Consume, ChainTypeOK
  <2>4. QED
    BY <2>1, <2>2, <2>3, ConsumeTypes
<1>2. ASSUME NEW r \in Rivals, RivalRuns(r)
      PROVE  ChainTypeOK'
  <2>1. PICK o \in Objects, gone \in SUBSET Objects : Consume(r, {o}, gone)
    BY <1>2 DEF RivalRuns
  <2>2. failed' \subseteq ran'
    BY <1>2, <2>1 DEF RivalRuns, Consume, ChainTypeOK
  <2>3. QED
    BY <2>1, <2>2, ConsumeTypes DEF Digest
<1>3. CASE NextEpoch
  BY <1>3, MaxEpochIsNatural DEF NextEpoch, ChainTypeOK, nodes
<1>4. ASSUME NEW n \in Nodes, CatchUp(n)
      PROVE  ChainTypeOK'
  <2>1. Now \in [epoch : 0..MaxEpoch, ran : SUBSET Digest, object : ObjectState]
    BY DEF Now, ChainTypeOK, ObjectState
  <2>2. view' \in [Nodes -> [epoch : 0..MaxEpoch, ran : SUBSET Digest,
                             object : ObjectState]]
    BY <1>4, <2>1 DEF CatchUp, ChainTypeOK, ObjectState
  <2>3. QED
    BY <1>4, <2>2 DEF CatchUp, ChainTypeOK, chain, ObjectState
<1>5. ASSUME NEW n \in Nodes, Prune(n)
      PROVE  ChainTypeOK'
  <2>1. PICK e \in covers[n] + 1 .. view[n].epoch :
          /\ covers' = [covers EXCEPT ![n] = e]
          /\ \E old \in SUBSET {t \in view[n].ran : ranAt[t] < e} :
               dropped' = [dropped EXCEPT ![n] = @ \cup old]
    BY <1>5 DEF Prune
  <2>2. PICK old \in SUBSET {t \in view[n].ran : ranAt[t] < e} :
          dropped' = [dropped EXCEPT ![n] = @ \cup old]
    BY <2>1
  <2>3. view[n].epoch \in 0..MaxEpoch /\ view[n].ran \subseteq Digest
    BY DEF ChainTypeOK
  <2>4. e \in 0..MaxEpoch
    BY <2>3, MaxEpochIsNatural DEF ChainTypeOK
  <2>5. covers' \in [Nodes -> 0..MaxEpoch]
    BY <2>1, <2>4 DEF ChainTypeOK
  <2>6. dropped' \in [Nodes -> SUBSET Digest]
    BY <2>2, <2>3 DEF ChainTypeOK
  <2>7. QED
    BY <1>5, <2>5, <2>6 DEF Prune, ChainTypeOK, chain
<1>6. QED
  BY <1>1, <1>2, <1>3, <1>4, <1>5 DEF ChainNext

LEMMA NetworkStep ==
  ASSUME Sound, Network
  PROVE  Sound'
<1>1. UNCHANGED <<wire, journal, st, handed, released, faults>>
  BY DEF Network, ChainNext, Execute, RivalRuns, NextEpoch, CatchUp, Prune, Consume
<1>2. ChainTypeOK'
  BY ChainTypes DEF Sound, Typed, Network
<1>3. QED
  BY <1>1, <1>2 DEF Sound, Typed, Journalled, SentIsJournalled

-----------------------------------------------------------------------------
(* send and submitVia.                                                      *)

(* A busy process.                                                          *)
LEMMA BusyHasTx ==
  ASSUME Sound, NEW p \in Procs, st[p].pc # "idle"
  PROVE  st[p] \in Good /\ st[p] \in Local /\ st[p].tx \in Txs
  BY GoodFields DEF Sound, Typed

LEMMA AnswersAreTags ==
  /\ {"Executed", "Failed", "Unknown"} \subseteq Answer \cap JournalTag
  /\ NotAppliedEvidence \subseteq Answer \cap JournalTag
  /\ "JournalError" \in Answer
  /\ "Absent" \notin Answer
  BY DEF Answer, JournalTag, UnresolvedTags, NotAppliedEvidence

LEMMA JournalSignedStep ==
  ASSUME Sound, NEW p \in Procs, journalSigned(p)
  PROVE  Sound'
<1> DEFINE pc == IF st[p].op = "submitVia" THEN "relay" ELSE "execute"
           r  == [st[p] EXCEPT !.pc = pc]
<1>0. pc \in {"execute", "relay"} /\ pc \in Pc
  BY DEF Pc
<1> HIDE DEF pc
<1>1. st[p] \in Good /\ st[p] \in Local /\ st[p].tx \in Txs /\ st[p].pc = "journal"
  BY BusyHasTx DEF journalSigned
<1>2. /\ r \in Local /\ r.pc = pc
      /\ r.tx = st[p].tx /\ r.attempts = st[p].attempts
  BY <1>0, <1>1, PcMoves
<1>3. r \in Good
  BY <1>0, <1>1, <1>2, GoodFields DEF Good, Promises
<1>4. /\ st' = [st EXCEPT ![p] = r]
      /\ journal' = [journal EXCEPT ![st[p].tx] = "Signed"]
      /\ UNCHANGED <<network, handed, released, faults>>
  BY DEF journalSigned, Move, NoFault, pc
<1>5. Typed'
  BY <1>1, <1>3, <1>4
     DEF Sound, Typed, ChainTypeOK, network, chain, nodes, JournalTag, UnresolvedTags
<1>6. \A t \in Txs : journal[t] # "Absent" \/ t = st[p].tx => journal'[t] # "Absent"
  BY <1>1, <1>4 DEF Sound, Typed
<1>7. Journalled'
  BY <1>1, <1>2, <1>4, <1>6, GoodFields
     DEF Sound, Typed, Journalled, SentIsJournalled, network, ChainTypeOK
<1>8. QED
  BY <1>5, <1>7 DEF Sound

LEMMA SendStep ==
  ASSUME Sound, NEW p \in Procs,
         NEW from \in {"execute", "relay"}, NEW to \in {"answer", "reply"},
         Send(p, from, to)
  PROVE  Sound'
<1>1. /\ st[p] \in Good /\ st[p] \in Local /\ st[p].tx \in Txs
      /\ st[p].pc = from
  BY BusyHasTx DEF Send
<1>2. journal[st[p].tx] # "Absent" /\ st[p].attempts < ResubmitAttempts
  BY <1>1, GoodFields DEF Sound, Journalled
<1>3. PICK reached \in BOOLEAN :
        /\ wire' = IF reached THEN wire \cup {st[p].tx} ELSE wire
        /\ st' = [st EXCEPT ![p] = [st[p] EXCEPT !.pc = to, !.attempts = @ + 1,
                                                 !.reached = reached]]
  BY DEF Send, Move
<1> DEFINE r == [st[p] EXCEPT !.pc = to, !.attempts = @ + 1, !.reached = reached]
<1>4. st[p].attempts + 1 \in 0..ResubmitAttempts /\ to \in Pc
  BY <1>1, <1>2, GoodFields, CountsAreNatural DEF Pc
<1>5. r \in Local /\ r.pc = to /\ r.tx = st[p].tx
  BY <1>1, <1>4 DEF Local
<1>6. r \in Good
  BY <1>1, <1>5 DEF Good, Promises
<1>7. UNCHANGED <<chain, bytes, nodes, journal, handed, released, faults>>
  BY DEF Send, NoFault
<1>8. wire' \subseteq Txs /\ wire' \subseteq wire \cup {st[p].tx}
  BY <1>1, <1>3 DEF Sound, Typed, ChainTypeOK
<1>9. Typed'
  BY <1>3, <1>6, <1>7, <1>8 DEF Sound, Typed, ChainTypeOK, chain, nodes
<1>10. Journalled'
  BY <1>1, <1>2, <1>3, <1>5, <1>7, <1>8
     DEF Sound, Typed, Journalled, SentIsJournalled, ChainTypeOK
<1>11. QED
  BY <1>9, <1>10 DEF Sound

(* What a process that has an answer to its send does next.                 *)
LEMMA AnswerStep ==
  ASSUME Sound, NEW p \in Procs,
         \/ journalSignedFails(p) \/ answered(p) \/ retried(p) \/ refused(p)
         \/ lockConflict(p) \/ unanswered(p)
  PROVE  Sound'
<1>1. st[p] \in Good /\ st[p] \in Local /\ st[p].tx \in Txs
  BY BusyHasTx
     DEF journalSignedFails, answered, retried, refused, lockConflict, unanswered
<1>2. Recover(st[p]) \in Quiet
  BY <1>1, RecoverIsQuiet
<1>3. CASE journalSignedFails(p)
  <2>1. Ends(st[p], "return", "JournalError") \in Quiet
    BY <1>1, EndsIsQuiet, AnswersAreTags
  <2>2. QED
    BY <1>3, <2>1, QuietMoves DEF journalSignedFails
<1>4. CASE answered(p)
  <2>1. Receipt(st[p].tx) \in Answer \cap JournalTag
    BY AnswersAreTags DEF Receipt
  <2>2. Ends(st[p], "settled", Receipt(st[p].tx)) \in Quiet
    BY <1>1, <2>1, EndsIsQuiet
  <2>3. QED
    BY <1>4, <2>2, QuietMoves DEF answered
<1>5. CASE retried(p)
  <2> DEFINE r == [st[p] EXCEPT !.pc = "execute"]
  <2>1. "execute" \in Pc
    BY DEF Pc
  <2>2. /\ r \in Local /\ r.pc = "execute"
        /\ r.tx = st[p].tx /\ r.attempts = st[p].attempts
    BY <1>1, <2>1, PcMoves
  <2>3. r \in Good
    BY <1>1, <1>5, <2>2 DEF retried, Good, Promises
  <2>4. journal[r.tx] # "Absent"
    BY <1>5, <2>2 DEF retried, Sound, Journalled
  <2>5. QED
    BY <1>5, <2>3, <2>4, Moves DEF retried
<1>6. CASE refused(p)
  <2>1. Ends(st[p], "settled", "refused") \in Quiet
    BY <1>1, EndsIsQuiet, AnswersAreTags DEF NotAppliedEvidence
  <2>2. QED
    BY <1>2, <1>6, <2>1, QuietMoves DEF refused
<1>7. CASE lockConflict(p)
  <2> DEFINE r == [st[p] EXCEPT !.rechecks = LockConflictRechecks]
  <2>1. LockConflictRechecks \in 0..LockConflictRechecks
    BY CountsAreNatural
  <2>2. r \in Local /\ r.tx = st[p].tx
    BY <1>1, <2>1 DEF Local
  <2>3. Recover(r) \in Quiet
    BY <1>1, <2>2, RecoverIsQuiet
  <2>4. QED
    BY <1>7, <2>3, QuietMoves DEF lockConflict
<1>8. CASE unanswered(p)
  BY <1>2, <1>8, QuietMoves DEF unanswered
<1>9. QED
  BY <1>3, <1>4, <1>5, <1>6, <1>7, <1>8

-----------------------------------------------------------------------------
(* resubmit and resend.                                                     *)

LEMMA ResubmitStep ==
  ASSUME Sound, NEW p \in Procs,
         consult(p) \/ consultFails(p) \/ resend(p) \/ resendFails(p)
  PROVE  Sound'
<1>1. st[p] \in Good /\ st[p] \in Local /\ st[p].tx \in Txs
  BY BusyHasTx DEF consult, consultFails, resend, resendFails
<1> DEFINE held == journal[st[p].tx]
           over == [st[p] EXCEPT !.op = "reconcile"]
           sends == [st[p] EXCEPT !.pc = "journal", !.resent = TRUE, !.attempts = 0]
<1>2. Recover(st[p]) \in Quiet
  BY <1>1, RecoverIsQuiet
<1>3. sends \in Quiet
  <2>1. "journal" \in Pc /\ 0 \in 0..ResubmitAttempts /\ 0 < ResubmitAttempts
    BY CountsAreNatural DEF Pc
  <2>2. /\ sends \in Local /\ sends.pc = "journal"
        /\ sends.tx = st[p].tx /\ sends.attempts = 0
    BY <1>1, <2>1 DEF Local
  <2>3. QED
    BY <1>1, <2>1, <2>2 DEF Quiet, Good, Promises
<1>4. CASE consult(p)
  <2>1. over \in Local /\ over.tx = st[p].tx
    BY <1>1 DEF Local, Operations
  <2>2. Recover(over) \in Quiet
    BY <1>1, <2>1, RecoverIsQuiet
  <2>3. ASSUME held \in NotAppliedEvidence
        PROVE  Ends(st[p], "return", held) \in Quiet
    BY <1>1, <2>3, EndsIsQuiet, AnswersAreTags
  <2>4. "window" \in Pc
    BY DEF Pc
  <2>5. [st[p] EXCEPT !.pc = "window"] \in Quiet
    BY <1>1, <2>4, GoesOn
  <2>6. CASE held \in {"Executed", "Failed"}
    <3>1. Only(p, Recover(over)) /\ NoFault
      BY <1>4, <2>6 DEF consult, NotAppliedEvidence
    <3>2. QED
      BY <2>2, <3>1, QuietMoves
  <2>7. CASE held \in NotAppliedEvidence
    <3>1. held \notin {"Executed", "Failed"}
      BY <2>7 DEF NotAppliedEvidence
    <3>2. Only(p, Ends(st[p], "return", held)) /\ NoFault
      BY <1>4, <2>7, <3>1 DEF consult
    <3>3. QED
      BY <2>3, <2>7, <3>2, QuietMoves
  <2>8. CASE held \notin {"Executed", "Failed"} \cup NotAppliedEvidence
    <3>1. Only(p, [st[p] EXCEPT !.pc = "window"]) /\ NoFault
      BY <1>4, <2>8 DEF consult
    <3>2. QED
      BY <2>5, <3>1, QuietMoves
  <2>9. QED
    BY <2>6, <2>7, <2>8
<1>5. CASE consultFails(p)
  <2>1. Ends(st[p], "return", "JournalError") \in Quiet
    BY <1>1, EndsIsQuiet, AnswersAreTags
  <2>2. QED
    BY <1>5, <2>1, QuietMoves DEF consultFails
<1>6. CASE resend(p)
  <2>1. Only(p, Recover(st[p])) \/ Only(p, sends)
    BY <1>6 DEF resend
  <2>2. NoFault
    BY <1>6 DEF resend
  <2>3. QED
    BY <1>2, <1>3, <2>1, <2>2, QuietMoves
<1>7. CASE resendFails(p)
  <2>1. Only(p, sends) /\ Fault("read")
    BY <1>7 DEF resendFails
  <2>2. QED
    BY <1>3, <2>1, QuietMoves
<1>8. QED
  BY <1>4, <1>5, <1>6, <1>7

-----------------------------------------------------------------------------
(* recover.                                                                 *)

LEMMA MissIsQuiet ==
  ASSUME NEW p \in Procs, st[p] \in Good, st[p] \in Local, st[p].tx \in Txs
  PROVE  Miss(p) \in Quiet
<1>1. Conclude(st[p], "Unknown") \in Quiet
  BY ConcludeIsQuiet, AnswersAreTags
<1>2. Inputs(st[p]) \in Quiet
  BY InputsIsQuiet
<1>3. Inputs([st[p] EXCEPT !.expired = TRUE]) \in Quiet
  <2>1. /\ [st[p] EXCEPT !.expired = TRUE] \in Local
        /\ [st[p] EXCEPT !.expired = TRUE].tx = st[p].tx
    BY DEF Local
  <2>2. QED
    BY <2>1, InputsIsQuiet
<1>4. "closed1" \in Pc /\ "closed2" \in Pc
  BY DEF Pc, Reading
<1>5. [st[p] EXCEPT !.pc = "closed1"] \in Quiet
  BY <1>4, GoesOn
<1>6. [st[p] EXCEPT !.pc = "closed2"] \in Quiet
  BY <1>4, GoesOn
<1>7. CASE st[p].pc = "recover"
  BY <1>1, <1>2, <1>5, <1>7 DEF Miss
<1>8. CASE st[p].pc = "lookup2"
  BY <1>6, <1>8 DEF Miss
<1>9. CASE st[p].pc = "lookup3"
  BY <1>3, <1>9 DEF Miss
<1>10. CASE st[p].pc \notin {"recover", "lookup2", "lookup3"}
  BY <1>1, <1>10 DEF Miss
<1>11. QED
  BY <1>7, <1>8, <1>9, <1>10

(* Lookups, the window, a failed read.                                      *)
LEMMA LookupStep ==
  ASSUME Sound, NEW p \in Procs,
         chainMismatch(p) \/ lookup(p) \/ windowClosed(p) \/ readFails(p)
  PROVE  Sound'
<1>1. st[p] \in Good /\ st[p] \in Local /\ st[p].tx \in Txs
  BY BusyHasTx DEF chainMismatch, lookup, windowClosed, readFails, Reading
<1>2. Conclude(st[p], "Unknown") \in Quiet
  BY <1>1, ConcludeIsQuiet, AnswersAreTags
<1>3. CASE chainMismatch(p)
  BY <1>2, <1>3, QuietMoves DEF chainMismatch
<1>4. CASE lookup(p)
  <2>1. Receipt(st[p].tx) \in Answer \cap JournalTag
    BY AnswersAreTags DEF Receipt
  <2>2. Conclude(st[p], Receipt(st[p].tx)) \in Quiet
    BY <1>1, <2>1, ConcludeIsQuiet
  <2>3. Miss(p) \in Quiet
    BY <1>1, MissIsQuiet
  <2>4. NoFault /\ (Only(p, Conclude(st[p], Receipt(st[p].tx))) \/ Only(p, Miss(p)))
    BY <1>4 DEF lookup
  <2>5. QED
    BY <2>2, <2>3, <2>4, QuietMoves
<1>5. CASE windowClosed(p)
  <2> DEFINE next == IF st[p].pc = "closed1" THEN "lookup2" ELSE "lookup3"
  <2>1. next \in Pc \ {"journal", "execute", "answer", "relay", "held", "settled"}
    BY DEF Pc, Reading
  <2>2. [st[p] EXCEPT !.pc = next] \in Quiet
    <3> HIDE DEF next
    <3> QED
      BY <1>1, <2>1, GoesOn
  <2>3. Inputs(st[p]) \in Quiet
    BY <1>1, InputsIsQuiet
  <2>4. /\ NoFault
        /\ Only(p, Inputs(st[p])) \/ Only(p, [st[p] EXCEPT !.pc = next])
    BY <1>5 DEF windowClosed
  <2>5. QED
    BY <2>2, <2>3, <2>4, QuietMoves
<1>6. CASE readFails(p)
  BY <1>2, <1>6, QuietMoves DEF readFails
<1>7. QED
  BY <1>3, <1>4, <1>5, <1>6

(* The evidence of the pinned inputs, and the verdict.                      *)
LEMMA EvidenceStep ==
  ASSUME Sound, NEW p \in Procs,
         inputState(p) \/ consumedVersionOf(p) \/ noEvidence(p) \/ weigh(p)
  PROVE  Sound'
<1>1. st[p] \in Good /\ st[p] \in Local /\ st[p].tx \in Txs
  BY BusyHasTx DEF inputState, consumedVersionOf, noEvidence, weigh
<1>2. {"inputs", "lookup4", "effects", "weigh"} \subseteq Pc \cap Reading
  BY DEF Pc, Reading
<1>3. CASE inputState(p)
  <2>1. PICK o \in st[p].todo, n \in Nodes :
          LET seen == ObjectAt(p, n, o)
              rest == [st[p] EXCEPT !.todo = @ \ {o}]
          IN Only(p,
               IF ~seen.live \/ seen.version <= bytes[st[p].tx].pinned[o]
                 THEN rest
               ELSE IF seen.by = st[p].tx THEN [rest EXCEPT !.pc = "lookup4", !.todo = {}]
               ELSE [rest EXCEPT !.pc = "effects", !.asked = {o}, !.by = seen.by])
    BY <1>3 DEF inputState
  <2> DEFINE by == ObjectAt(p, n, o).by
             rest == [st[p] EXCEPT !.todo = @ \ {o}]
             found == [rest EXCEPT !.pc = "lookup4", !.todo = {}]
             ask == [rest EXCEPT !.pc = "effects", !.asked = {o}, !.by = by]
  <2>2. o \in Objects /\ st[p].pc = "inputs"
    BY <1>1, <1>3, GoodFields DEF inputState
  <2>3. by \in Digest \cup {NoTx}
    <3>1. view[n].object[o].by \in Digest \cup {NoTx}
      <4>1. view[n].object \in ObjectState
        BY DEF Sound, Typed, ChainTypeOK, ObjectState
      <4>2. QED
        BY <2>2, <4>1 DEF ObjectState
    <3>2. QED
      BY <3>1 DEF ObjectAt
  <2>4. rest \in Local /\ rest.pc = "inputs" /\ rest.tx = st[p].tx
    BY <1>1, <2>2 DEF Local
  <2>5. rest \in Quiet
    BY <1>1, <1>2, <2>4, ReadingIsQuiet
  <2>6. found \in Quiet
    <3>1. found \in Local /\ found.pc = "lookup4" /\ found.tx = rest.tx
      BY <1>2, <2>4 DEF Local
    <3>2. QED
      BY <1>1, <1>2, <2>4, <3>1, ReadingIsQuiet
  <2>7. ask \in Quiet
    <3> HIDE DEF by, rest
    <3>1. ask \in Local /\ ask.pc = "effects" /\ ask.tx = rest.tx
      BY <1>2, <2>2, <2>3, <2>4 DEF Local
    <3>2. QED
      BY <1>1, <1>2, <2>4, <3>1, ReadingIsQuiet
  <2>8. Only(p, rest) \/ Only(p, found) \/ Only(p, ask)
    BY <2>1
  <2>9. NoFault
    BY <1>3 DEF inputState
  <2>10. QED
    <3> HIDE DEF rest, found, ask
    <3> QED
      BY <2>5, <2>6, <2>7, <2>8, <2>9, QuietMoves
<1>4. CASE consumedVersionOf(p)
  <2> DEFINE r(spent) == [st[p] EXCEPT !.pc = IF spent THEN "weigh" ELSE "inputs",
                                       !.consumed = spent, !.asked = {}, !.by = NoTx,
                                       !.todo = IF spent THEN {} ELSE @]
  <2>1. \E spent \in BOOLEAN : Only(p, r(spent))
    BY <1>4 DEF consumedVersionOf
  <2>2. ASSUME NEW spent \in BOOLEAN
        PROVE  r(spent) \in Quiet
    <3>1. /\ r(spent) \in Local /\ r(spent).pc \in {"weigh", "inputs"}
          /\ r(spent).tx = st[p].tx
      BY <1>1, <1>2 DEF Local
    <3>2. QED
      BY <1>1, <1>2, <3>1, ReadingIsQuiet
  <2>3. NoFault
    BY <1>4 DEF consumedVersionOf
  <2>4. QED
    <3> HIDE DEF r
    <3> QED
      BY <2>1, <2>2, <2>3, QuietMoves
<1>5. CASE noEvidence(p)
  <2>1. [st[p] EXCEPT !.pc = "weigh"] \in Quiet
    BY <1>1, <1>2, GoesOn
  <2>2. QED
    BY <1>5, <2>1, QuietMoves DEF noEvidence
<1>6. CASE weigh(p)
  <2>1. \A answer \in {"expired", "inputConsumed", "Unknown"} :
          Conclude(st[p], answer) \in Quiet
    BY <1>1, ConcludeIsQuiet, AnswersAreTags DEF NotAppliedEvidence
  <2>2. /\ NoFault
        /\ \E answer \in {"expired", "inputConsumed", "Unknown"} :
             Only(p, Conclude(st[p], answer))
    BY <1>6 DEF weigh
  <2>3. QED
    BY <2>1, <2>2, QuietMoves
<1>7. QED
  BY <1>3, <1>4, <1>5, <1>6

-----------------------------------------------------------------------------
(* Recording.                                                               *)

LEMMA RecordStep ==
  ASSUME Sound, NEW p \in Procs,
         \/ recordIfHeld(p) \/ recordIfHeldFails(p)
         \/ journalSettled(p) \/ journalSettledFails(p)
  PROVE  Sound'
<1> DEFINE to(pc) == [st[p] EXCEPT !.pc = pc]
<1>1. st[p] \in Good /\ st[p] \in Local /\ st[p].tx \in Txs
  BY BusyHasTx DEF recordIfHeld, recordIfHeldFails, journalSettled, journalSettledFails
<1>2. {"return", "settled"} \subseteq Pc
  BY DEF Pc
<1>3. to("return") \in Quiet
  BY <1>1, <1>2, GoesOn
<1>4. CASE recordIfHeld(p)
  <2>1. st[p].answer \in JournalTag
    BY <1>1, <1>4, GoodFields DEF recordIfHeld
  <2>2. to("settled") \in Quiet
    <3>1. /\ to("settled") \in Local /\ to("settled").pc = "settled"
          /\ to("settled").tx = st[p].tx /\ to("settled").answer = st[p].answer
      BY <1>1, <1>2, PcMoves
    <3> HIDE DEF to
    <3>2. QED
      BY <1>1, <2>1, <3>1 DEF Quiet, Good, Promises
  <2>3. NoFault /\ (Only(p, to("settled")) \/ Only(p, to("return")))
    BY <1>4 DEF recordIfHeld
  <2>4. QED
    <3> HIDE DEF to
    <3> QED
      BY <1>3, <2>2, <2>3, QuietMoves
<1>5. CASE recordIfHeldFails(p)
  BY <1>3, <1>5, QuietMoves DEF recordIfHeldFails
<1>6. CASE journalSettledFails(p)
  BY <1>3, <1>6, QuietMoves DEF journalSettledFails
<1>7. CASE journalSettled(p)
  <2>1. st[p].answer \in JournalTag /\ st[p].answer # "Absent"
    BY <1>1, <1>7, GoodFields, AnswersAreTags DEF journalSettled
  <2>2. /\ st' = [st EXCEPT ![p] = to("return")]
        /\ journal' = [journal EXCEPT ![st[p].tx] = st[p].answer]
        /\ UNCHANGED <<network, handed, released, faults>>
    BY <1>7 DEF journalSettled, Move, NoFault
  <2>3. to("return") \in Good /\ to("return").pc = "return"
    BY <1>1, <1>2, <1>3, PcMoves DEF Quiet
  <2> HIDE DEF to
  <2>4. Typed'
    BY <1>1, <2>1, <2>2, <2>3 DEF Sound, Typed, ChainTypeOK, network, chain, nodes
  <2>5. \A t \in Txs : journal[t] # "Absent" => journal'[t] # "Absent"
    BY <1>1, <2>1, <2>2 DEF Sound, Typed
  <2>6. Journalled'
    <3>1. \A t \in wire : journal'[t] # "Absent"
      BY <2>5 DEF Sound, Typed, ChainTypeOK, Journalled, SentIsJournalled
    <3>2. ASSUME NEW q \in Procs, st'[q].pc \in {"execute", "answer", "relay"}
          PROVE  journal'[st'[q].tx] # "Absent"
      <4>1. q # p
        BY <2>2, <2>3, <3>2 DEF Sound, Typed
      <4>2. st'[q] = st[q]
        BY <2>2, <4>1 DEF Sound, Typed
      <4>3. st[q].tx \in Txs
        BY <3>2, <4>2, BusyHasTx
      <4>4. QED
        BY <2>5, <3>2, <4>2, <4>3 DEF Sound, Journalled
    <3>3. QED
      BY <2>2, <3>1, <3>2 DEF Journalled, SentIsJournalled, network
  <2>7. QED
    BY <2>4, <2>6 DEF Sound
<1>8. QED
  BY <1>4, <1>5, <1>6, <1>7

-----------------------------------------------------------------------------
(* Calls begin and return.                                                  *)

LEMMA Advances ==
  ASSUME Sound, NEW p \in Procs, NEW r \in Quiet, Move(p, r),
         UNCHANGED <<network, journal, faults>>,
         handed' \subseteq Txs, released' \subseteq Txs
  PROVE  Sound'
<1>1. \A q \in Procs : st'[q] = IF q = p THEN r ELSE st[q]
  BY DEF Sound, Typed, Move
<1>2. Typed'
  BY DEF Sound, Typed, ChainTypeOK, Move, network, chain, nodes, Quiet
<1>3. Journalled'
  BY <1>1 DEF Sound, Journalled, SentIsJournalled, network, Quiet
<1>4. QED
  BY <1>2, <1>3 DEF Sound

(* A sweep takes its next transaction, or ends.                             *)
LEMMA NextEntryIsQuiet ==
  ASSUME NEW r \in Local, NEW e \in NextEntry(r)
  PROVE  e \in Quiet
<1>1. CASE r.queue = {}
  BY <1>1, IdleIsQuiet DEF NextEntry
<1>2. CASE r.queue # {}
  <2>1. PICK t \in r.queue :
          e = [Idle EXCEPT !.pc = "recover", !.op = r.op, !.tx = t,
                           !.queue = r.queue \ {t}]
    BY <1>2 DEF NextEntry
  <2>2. "recover" \in Pc /\ "recover" \in Reading
    BY DEF Pc, Reading
  <2>3. Idle \in Local
    BY IdleIsQuiet, GoodFields DEF Quiet
  <2>4. e \in Local /\ e.pc = "recover" /\ e.tx = t /\ t \in Txs
    BY <2>1, <2>2, <2>3 DEF Local
  <2>5. QED
    BY <2>2, <2>4, ReadingIsQuiet
<1>3. QED
  BY <1>1, <1>2

LEMMA ReturnStep ==
  ASSUME Sound, NEW p \in Procs, Return(p) \/ Crash(p)
  PROVE  Sound'
<1>1. CASE Crash(p)
  BY <1>1, IdleIsQuiet, QuietMoves DEF Crash
<1>2. CASE Return(p)
  <2>1. st[p] \in Good /\ st[p] \in Local /\ st[p].tx \in Txs
    BY <1>2, BusyHasTx DEF Return
  <2> DEFINE again == [st[p] EXCEPT !.pc = "window", !.resent = TRUE]
  <2>2. "window" \in Pc
    BY DEF Pc
  <2>3. again \in Local /\ again.pc = "window" /\ again.tx = st[p].tx
    BY <2>1, <2>2 DEF Local
  <2>4. again \in Quiet
    BY <2>1, <2>3 DEF Quiet, Good, Promises
  <2>5. \A e \in NextEntry(st[p]) : e \in Quiet
    BY <2>1, NextEntryIsQuiet
  <2>6. \E r \in Quiet : Move(p, r)
    <3>1. Move(p, again) \/ \E e \in NextEntry(st[p]) : Move(p, e)
      BY <1>2 DEF Return
    <3>2. QED
      BY <2>4, <2>5, <3>1
  <2>7. handed' \subseteq Txs /\ released' \subseteq Txs
    <3>1. released' \subseteq released \cup {st[p].tx}
      BY <1>2 DEF Return
    <3>2. QED
      BY <1>2, <2>1, <3>1 DEF Return, Sound, Typed
  <2>8. QED
    BY <1>2, <2>6, <2>7, Advances DEF Return, NoFault
<1>3. QED
  BY <1>1, <1>2

LEMMA BuildStep ==
  ASSUME Sound, NEW t \in Txs, Build(t)
  PROVE  Sound'
<1>1. PICK n \in Nodes :
        bytes' = [bytes EXCEPT ![t] =
                    [from |-> Window(view[n].epoch).from,
                     until |-> Window(view[n].epoch).until,
                     pinned |-> [o \in Objects |-> view[n].object[o].version]]]
  BY DEF Build
<1>2. view[n].epoch \in Nat /\ view[n].object \in ObjectState
  BY MaxEpochIsNatural DEF Sound, Typed, ChainTypeOK, ObjectState
<1>3. /\ Window(view[n].epoch).from \in Nat
      /\ Window(view[n].epoch).until \in Nat
  BY <1>2, MaxEpochIsNatural, ExpirationIsOne DEF Window
<1>4. [o \in Objects |-> view[n].object[o].version] \in [Objects -> Nat]
  BY <1>2 DEF ObjectState
<1>5. bytes' \in [Txs -> [from : Nat, until : Nat, pinned : [Objects -> Nat]]]
  BY <1>1, <1>3, <1>4 DEF Sound, Typed, ChainTypeOK
<1>6. UNCHANGED <<chain, wire, nodes, journal, st, handed, released, faults>>
  BY DEF Build, NoFault
<1>7. QED
  BY <1>5, <1>6
     DEF Sound, Typed, ChainTypeOK, Journalled, SentIsJournalled, chain, nodes

(* The first step of each function.                                         *)
LEMMA CallStep ==
  ASSUME Sound, NEW p \in Procs, Call(p)
  PROVE  Sound'
<1>1. Idle \in Local /\ Idle.queue = {} /\ Idle.attempts = 0
  BY IdleIsQuiet, GoodFields DEF Quiet, Idle
<1>2. {"journal", "consult", "recover"} \subseteq Pc \ {"execute", "answer", "relay"}
  BY DEF Pc, Reading
<1>3. ASSUME NEW t \in Txs, NEW pc \in {"journal", "consult", "recover"},
             NEW name \in Operations
      PROVE  [[Idle EXCEPT !.pc = pc, !.tx = t] EXCEPT !.op = name] \in Quiet
  <2> DEFINE r == [[Idle EXCEPT !.pc = pc, !.tx = t] EXCEPT !.op = name]
  <2>1. r \in Local /\ r.pc = pc /\ r.tx = t /\ r.attempts = 0
    BY <1>1, <1>2 DEF Local
  <2>2. 0 < ResubmitAttempts
    BY CountsAreNatural
  <2>3. r \in Quiet
    <3> HIDE DEF r
    <3> QED
      BY <1>2, <2>1, <2>2 DEF Quiet, Good, Promises
  <2>4. QED
    BY <2>3
<1>4. ASSUME NEW t \in Txs, Submit(p, t) \/ Resubmit(p, t) \/ Reconcile(p, t)
      PROVE  Sound'
  <2>1. \E r \in Quiet : Move(p, r)
    BY <1>3, <1>4 DEF Submit, Resubmit, Reconcile, Begin, Operations
  <2>2. UNCHANGED <<network, journal, faults>>
    BY <1>4 DEF Submit, Resubmit, Reconcile, Begin, NoFault
  <2>3. handed' \subseteq Txs /\ released' \subseteq Txs
    BY <1>4 DEF Submit, Resubmit, Reconcile, Begin, Sound, Typed
  <2>4. QED
    BY <2>1, <2>2, <2>3, Advances
<1>5. CASE ReconcileAll(p)
  <2> DEFINE owed == {t \in Txs : journal[t] \in UnresolvedTags}
             sweep(name) == [Idle EXCEPT !.op = name, !.queue = owed]
  <2>1. PICK name \in Operations :
          \E r \in NextEntry(sweep(name)) : Begin(p, name, r)
    BY <1>5 DEF ReconcileAll, Operations
  <2>2. PICK r \in NextEntry(sweep(name)) : Begin(p, name, r)
    BY <2>1
  <2>3. sweep(name) \in Local
    BY <1>1 DEF Local
  <2>4. r \in Quiet
    BY <2>2, <2>3, NextEntryIsQuiet
  <2>5. [r EXCEPT !.op = name] \in Quiet
    BY <2>4 DEF Quiet, Good, Promises, Local
  <2>6. handed' \subseteq Txs /\ released' \subseteq Txs
    BY <1>5 DEF ReconcileAll, Begin, Sound, Typed
  <2>7. QED
    BY <2>2, <2>5, <2>6, Advances DEF Begin, NoFault
<1>6. QED
  BY <1>4, <1>5 DEF Call

-----------------------------------------------------------------------------
(* The invariant, and what follows from it.                                 *)

LEMMA InitSound ==
  ASSUME Init
  PROVE  Sound
<1>1. Idle \in Good
  BY IdleIsQuiet DEF Quiet
<1>2. ChainTypeOK
  BY TxsAreDigests, MaxEpochIsNatural
     DEF Init, ChainInit, ChainTypeOK, Now, Unsigned, Digest
<1>3. Typed
  BY <1>1, <1>2, CountsAreNatural DEF Init, Typed, JournalTag
<1>4. Journalled
  BY DEF Init, ChainInit, Journalled, SentIsJournalled, Idle
<1>5. QED
  BY <1>3, <1>4 DEF Sound

LEMMA SoundIsInductive ==
  ASSUME Sound, [Next]_vars
  PROVE  Sound'
<1>1. CASE Network
  BY <1>1, NetworkStep
<1>2. ASSUME NEW t \in Txs, Build(t)
      PROVE  Sound'
  BY <1>2, BuildStep
<1>3. ASSUME NEW p \in Procs, Call(p)
      PROVE  Sound'
  BY <1>3, CallStep
<1>4. ASSUME NEW p \in Procs, Work(p) \/ Fails(p)
      PROVE  Sound'
  BY <1>4, JournalSignedStep, SendStep, AnswerStep, ResubmitStep, LookupStep,
     EvidenceStep, RecordStep, ReturnStep
     DEF Work, Fails, executeTransaction, relay
<1>5. CASE UNCHANGED vars
  BY <1>5 DEF vars, Sound, Typed, ChainTypeOK, Journalled, SentIsJournalled
<1>6. QED
  BY <1>1, <1>2, <1>3, <1>4, <1>5 DEF Next

LEMMA SoundAlways == Spec => []Sound
<1>1. Init => Sound
  BY InitSound
<1>2. Sound /\ [Next]_vars => Sound'
  BY SoundIsInductive
<1>3. QED
  BY <1>1, <1>2, PTL DEF Spec

(* Every state of the lifecycle is well-typed, for any number of processes, *)
(* transactions, nodes, attempts and faults: in particular no call sends    *)
(* more than resubmitAttempts times before it asks the chain, and what a    *)
(* call records is always an answer the journal has a tag for.              *)
THEOREM TypeCorrect == Spec => []TypeOK
<1>1. Sound => TypeOK
  BY GoodFields DEF Sound, Typed, TypeOK
<1>2. QED
  BY <1>1, SoundAlways, PTL

(* Bytes the network may act on always have an entry, whichever of send,    *)
(* submitVia and resubmit put them there and wherever a process died since: *)
(* the Signed write comes first, and no later write takes the entry away.   *)
THEOREM SentBytesAreJournalled == Spec => []SentIsJournalled
<1>1. Sound => SentIsJournalled
  BY DEF Sound, Journalled
<1>2. QED
  BY <1>1, SoundAlways, PTL

-----------------------------------------------------------------------------
(* The truth.                                                              *)

(* The window of the bytes is over.                                         *)
Lapsed(t) == epoch > bytes[t].until

(* An object the bytes pin has moved on.                                    *)
Spent(t) == \E o \in Pins[t] : object[o].version > bytes[t].pinned[o]

(* Signed, not executed, and never to execute.                              *)
Dead(t) == t \notin ran /\ bytes[t] # Unsigned /\ (Lapsed(t) \/ Spent(t))

(* Versions only grow, an executed transaction took every version it took   *)
(* alone, was on the wire, and ran inside its window on what it pins.       *)
ChainSane ==
  /\ \A o \in Objects : 1 <= object[o].version /\ object[o].version <= lamport
  /\ \A t \in ran, o \in Objects : took[t][o] < object[o].version
  /\ \A r, s \in ran, o \in Objects : took[r][o] = took[s][o] /\ took[r][o] # 0 => r = s
  /\ \A t \in ran \cap Txs :
       /\ t \in wire
       /\ bytes[t].from <= ranAt[t] /\ ranAt[t] <= bytes[t].until
       /\ \A o \in Pins[t] : took[t][o] = bytes[t].pinned[o]
  /\ \A t \in Txs : bytes[t] # Unsigned => \A o \in Objects : bytes[t].pinned[o] >= 1

(* A node shows a past of the chain: what it has not indexed ran in an      *)
(* epoch it shows or a later one, and what it dropped ran before what it    *)
(* covers.                                                                  *)
NodesSane ==
  \A n \in Nodes :
    /\ view[n].ran \subseteq ran /\ view[n].epoch <= epoch
    /\ \A t \in ran \ view[n].ran : ranAt[t] >= view[n].epoch
    /\ \A o \in Objects : 1 <= view[n].object[o].version
    /\ \A t \in dropped[n] : t \in view[n].ran /\ ranAt[t] < covers[n]
    /\ ~NodesPrune => dropped[n] = {}

(* What is on the wire, in the journal or released was handed to the        *)
(* library, and what was handed over was signed.                            *)
Recorded ==
  /\ wire \subseteq handed /\ released \subseteq handed
  /\ \A t \in Txs : journal[t] # "Absent" => t \in handed
  /\ \A t \in handed : bytes[t] # Unsigned

-----------------------------------------------------------------------------
(* What a busy process stands for, by where it is.                          *)

Sending == {"submit", "submitVia", "resubmit", "sweepResend"}

First == {"submit", "submitVia"}

Reconciling == {"reconcile", "reconcileDigest"}

(* A call is for transactions that were handed over.                        *)
Knows(r) == r.tx \in handed /\ r.queue \subseteq handed

(* Which function can be where, and with what.                              *)
Roles(p, r) ==
  /\ r.op \in Operations
  /\ r.op \in Sending => r.op \in Calls[p]
  /\ r.pc \in {"journal", "execute", "answer"} => r.op \in Sending
  /\ r.pc \in {"journal", "execute", "answer"} /\ ~r.resent => r.op \in First
  /\ r.resent => r.op \in {"resubmit", "sweepResend"}
  /\ r.pc \in {"relay", "reply"} => r.op = "submitVia"
  /\ r.pc \in {"execute", "answer"} => r.op # "submitVia"
  /\ r.pc = "consult" => r.op = "resubmit" /\ ~r.resent
  /\ r.pc = "window" => r.op \in {"resubmit", "sweepResend"}
  /\ r.pc = "held" => r.op \in Reconciling
  /\ r.op \in First /\ r.pc \in {"journal", "relay"} => r.attempts = 0
  /\ r.pc = "answer" => r.attempts >= 1
  /\ r.pc = "reply" => r.attempts = 1
  /\ r.pc = "return" => r.answer # "none"
  /\ r.answer = "JournalError" /\ r.op = "sweepResend" => r.resent
  /\ r.queue # {} => r.op \in {"sweep", "sweepResend"}

(* What the reads of a round have shown so far.                             *)
Evidence(p, r) ==
  /\ r.pc \in {"closed1", "lookup2", "closed2", "lookup3"} => ExpiryEvidence = "epochThenMiss"
  /\ r.pc \in Reading \ {"recover"} => p \notin Foreign
  /\ r.pc = "lookup3" => \A n \in Nodes : view[n].epoch > bytes[r.tx].until
  /\ r.expired => /\ Lapsed(r.tx)
                  /\ r.tx \notin ran \/ \A n \in Nodes : r.tx \in dropped[n]
  /\ r.pc \in {"inputs", "effects"} => r.todo \subseteq Pins[r.tx]
  /\ r.pc = "effects" => r.by # r.tx /\ \E o \in Pins[r.tx] : r.asked = {o}
  /\ r.consumed => Dead(r.tx)

(* Nothing of this call can be on the wire yet.                             *)
Fresh(r) ==
  /\ r.op \in First
  /\ \/ r.pc = "journal"
     \/ r.pc \in {"execute", "relay"} /\ r.attempts = 0
     \/ r.pc \in {"answer", "reply"} /\ r.attempts = 1 /\ ~r.reached
     \/ r.answer \in {"refused", "JournalError"}

(* An answer holds, from the read it rests on until the caller has it.      *)
Answers(r) ==
  /\ r.answer = "Executed" => r.tx \in ran \ failed
  /\ r.answer = "Failed" => r.tx \in failed
  /\ r.answer \in {"expired", "inputConsumed"} => Dead(r.tx)
  /\ r.answer = "refused" =>
       /\ r.op \in First \cup {"resubmit"} /\ r.pc \in {"settled", "return"}
       /\ r.tx \notin wire \/ Dead(r.tx)
  /\ r.answer = "JournalError" =>
       r.op \in Sending /\ r.pc = "return" /\ "journal" \in FaultKinds
  /\ Fresh(r) => r.tx \notin wire

(* What the journal holds around a refusal, where one process does          *)
(* everything.                                                              *)
Serial(r) ==
  /\ r.op \in {"sweep", "sweepResend"} =>
       \A t \in r.queue \cup {r.tx} : journal[t] \notin {"refused", "Absent"}
  /\ r.op \in Reconciling /\ r.pc = "settled" => journal[r.tx] \in UnresolvedTags
  /\ r.pc = "return" /\ r.answer = "refused" => journal[r.tx] = "refused"
  /\ r.op \in First \cup {"resubmit"} => r.tx \notin released
  /\ r.op \in First /\ (r.pc = "journal" \/ r.answer = "JournalError") => journal[r.tx] = "Absent"

(* The journal has no settled entry.                                        *)
Open(t) == journal[t] \in UnresolvedTags \cup {"Absent"}

(* A process that has the journal to itself works on open entries.          *)
Stays(r) ==
  /\ r.pc \notin {"consult", "return", "held"} /\ r.op \notin Reconciling => Open(r.tx)
  /\ r.pc = "settled" => Open(r.tx)
  /\ r.pc = "return" /\ r.op = "sweepResend" /\ ~r.resent /\ r.answer = "Unknown" => Open(r.tx)
  /\ \A t \in r.queue : Open(t) /\ t # r.tx

-----------------------------------------------------------------------------
(* What the callers and the deployment have to guarantee.                   *)

(* At most one process sends: the others reconcile.                         *)
OneSender ==
  \A p, q \in Procs : Calls[p] \cap Sending # {} /\ Calls[q] \cap Sending # {} => p = q

(* No bytes are handed to submit a second time; resubmit is for that.       *)
SentOnce == ~SubmitAgain

(* Where a miss after the window closed is evidence, one node answers the   *)
(* reads: a miss on a lagging node says nothing about another's epoch.      *)
ReadsAgree == ExpiryEvidence = "never" \/ \A n, m \in Nodes : n = m

(* A node that prunes says so.                                              *)
MissesMean == HistoryReported \/ ~NodesPrune

(* A caller whose resubmit fails on the journal does not sign again: the    *)
(* bytes it meant to re-send may be on the wire already.                    *)
ResubmitNotRetried == "resubmit" \notin RetriedAfter \/ "journal" \notin FaultKinds

(* reconcileAll is not asked to re-send.                                    *)
NoneResends == \A p \in Procs : "sweepResend" \notin Calls[p]

(* One process.                                                             *)
Alone == \A p, q \in Procs : p = q

(* Where reconcileAll re-sends, an entry that was refused is recorded so:   *)
(* otherwise the sweep sends what the caller was told to forget.            *)
RefusalsLast == NoneResends \/ (Alone /\ "settled" \notin FaultKinds)

Trusted ==
  OneSender /\ SentOnce /\ ReadsAgree /\ MissesMean /\ ResubmitNotRetried /\ RefusalsLast

-----------------------------------------------------------------------------

(* All that a process in the middle of a call stands for.                   *)
Word(p, r) ==
  r.pc # "idle" =>
    /\ Knows(r) /\ Roles(p, r)
    /\ Trusted => Evidence(p, r) /\ Answers(r) /\ (~NoneResends => Serial(r))
    /\ Alone /\ SentOnce => Stays(r)

(* On the way to a send, or in one.                                         *)
Aims == {"window", "journal", "execute", "answer", "relay"}

(* What is recorded is so, and stays so: a refused transaction is not on    *)
(* the wire and nobody is about to put it there.                            *)
JournalOk ==
  \A t \in Txs :
    /\ journal[t] = "Executed" => t \in ran \ failed
    /\ journal[t] = "Failed" => t \in failed
    /\ journal[t] \in {"expired", "inputConsumed"} => Dead(t)
    /\ journal[t] = "refused" =>
         Dead(t) \/ (t \notin wire /\ \A p \in Procs : st[p].tx = t => st[p].pc \notin Aims)

(* What a caller was told to forget cannot run.                             *)
ReleasedOk ==
  \A t \in released :
    \/ Dead(t)
    \/ /\ t \notin wire /\ \A p \in Procs : st[p].tx = t => st[p].pc \notin Aims \cup {"consult"}
       /\ ~NoneResends => journal[t] \in {"refused", "Absent"}

(* The caller signs the next transaction once all before it are released.   *)
InTurn == \A t, u \in Txs : u < t /\ bytes[t] # Unsigned => u \in released

ToldTruly == JournalOk /\ ReleasedOk /\ InTurn

Honest ==
  /\ ChainSane /\ NodesSane /\ Recorded
  /\ \A p \in Procs : Word(p, st[p])
  /\ Trusted => ToldTruly

-----------------------------------------------------------------------------
(* What ChainTypeOK says of each number the proofs compare.                 *)
LEMMA ChainTyped ==
  ASSUME ChainTypeOK
  PROVE  /\ epoch \in Nat /\ lamport \in Nat
         /\ \A o \in Objects : object[o].version \in Nat
         /\ \A t \in Digest : ranAt[t] \in Nat
         /\ \A t \in Digest, o \in Objects : took[t][o] \in Nat
         /\ \A t \in Txs : bytes[t].from \in Nat /\ bytes[t].until \in Nat
         /\ \A t \in Txs, o \in Objects : bytes[t].pinned[o] \in Nat
         /\ \A n \in Nodes : /\ view[n].epoch \in Nat /\ covers[n] \in Nat
                             /\ view[n].ran \subseteq Digest
         /\ \A n \in Nodes, o \in Objects : view[n].object[o].version \in Nat
<1>1. object \in ObjectState /\ \A n \in Nodes : view[n].object \in ObjectState
  BY DEF ChainTypeOK, ObjectState
<1>2. /\ \A o \in Objects : object[o].version \in Nat
      /\ \A n \in Nodes, o \in Objects : view[n].object[o].version \in Nat
  BY <1>1 DEF ObjectState
<1>3. \A t \in Txs : bytes[t] \in [from : Nat, until : Nat, pinned : [Objects -> Nat]]
  BY DEF ChainTypeOK
<1>4. epoch \in Nat /\ lamport \in Nat /\ \A t \in Digest : ranAt[t] \in Nat
  BY MaxEpochIsNatural DEF ChainTypeOK
<1>5. \A n \in Nodes : /\ view[n].epoch \in Nat /\ covers[n] \in Nat
                       /\ view[n].ran \subseteq Digest
  BY MaxEpochIsNatural DEF ChainTypeOK
<1>6. QED
  BY <1>2, <1>3, <1>4, <1>5 DEF ChainTypeOK

(* The library's transactions and the rivals' are different digests.        *)
LEMMA RivalsApart == Txs \subseteq Digest /\ Rivals \subseteq Digest /\ Txs \cap Rivals = {}
  BY RivalsAreOthers DEF Digest

(* A digest executes.                                                       *)
LEMMA ConsumeKeepsChain ==
  ASSUME ChainTypeOK, ChainSane, NodesSane,
         NEW t \in Digest \ ran, NEW ins \in SUBSET Objects, NEW gone,
         Consume(t, ins, gone),
         t \in Txs => /\ t \in wire /\ bytes[t].from <= epoch /\ epoch <= bytes[t].until
                      /\ ins = Pins[t]
                      /\ \A o \in ins : object[o].version = bytes[t].pinned[o]
  PROVE  ChainSane' /\ NodesSane' /\ \A o \in Objects : object[o].version <= object'[o].version
<1>1. /\ ran' = ran \cup {t} /\ lamport' = lamport + 1
      /\ ranAt' = [ranAt EXCEPT ![t] = epoch]
      /\ took' = [took EXCEPT ![t] = [o \in Objects |->
                    IF o \in ins THEN object[o].version ELSE 0]]
      /\ \A o \in Objects : object'[o].version =
                    IF o \in ins THEN lamport + 1 ELSE object[o].version
      /\ UNCHANGED <<epoch, wire, bytes, view, dropped, covers>>
  BY DEF Consume, nodes
<1>2. /\ ran \subseteq Digest /\ ranAt'[t] = epoch
      /\ \A u \in ran : ranAt'[u] = ranAt[u] /\ took'[u] = took[u]
      /\ \A o \in Objects : took'[t][o] = IF o \in ins THEN object[o].version ELSE 0
  BY <1>1 DEF ChainTypeOK
<1>3. \A o \in Objects : /\ object[o].version \in Nat /\ lamport \in Nat
                         /\ \A u \in ran : took[u][o] \in Nat
  BY <1>2, ChainTyped
<1>4. \A o \in Objects : 1 <= object'[o].version /\ object'[o].version <= lamport'
  BY <1>1, <1>3 DEF ChainSane
<1>5. \A u \in ran', o \in Objects : took'[u][o] < object'[o].version
  BY <1>1, <1>2, <1>3 DEF ChainSane
<1>6. \A r, s \in ran', o \in Objects : took'[r][o] = took'[s][o] /\ took'[r][o] # 0 => r = s
  BY <1>1, <1>2, <1>3 DEF ChainSane
<1>7. \A u \in ran' \cap Txs : /\ u \in wire'
                               /\ bytes'[u].from <= ranAt'[u] /\ ranAt'[u] <= bytes'[u].until
                               /\ \A o \in Pins[u] : took'[u][o] = bytes'[u].pinned[o]
  BY <1>1, <1>2, PinsAreObjects DEF ChainSane
<1>8. ChainSane'
  BY <1>1, <1>4, <1>5, <1>6, <1>7 DEF ChainSane
<1>9. NodesSane'
  <2> SUFFICES ASSUME NEW n \in Nodes
               PROVE  /\ view'[n].ran \subseteq ran' /\ view'[n].epoch <= epoch'
                      /\ \A u \in ran' \ view'[n].ran : ranAt'[u] >= view'[n].epoch
                      /\ \A o \in Objects : 1 <= view'[n].object[o].version
                      /\ \A u \in dropped'[n] : u \in view'[n].ran /\ ranAt'[u] < covers'[n]
                      /\ ~NodesPrune => dropped'[n] = {}
    BY DEF NodesSane
  <2>1. view'[n] = view[n] /\ dropped'[n] = dropped[n] /\ covers'[n] = covers[n]
    BY <1>1
  <2>2. epoch \in Nat /\ view[n].epoch \in Nat
    BY ChainTyped
  <2>3. QED
    BY <1>1, <1>2, <2>1, <2>2 DEF NodesSane
<1>10. \A o \in Objects : object[o].version <= object'[o].version
  BY <1>1, <1>3 DEF ChainSane
<1>11. QED
  BY <1>8, <1>9, <1>10

(* What has happened stays so, and what can no longer happen stays so.      *)
Forward ==
  /\ ran \subseteq ran' /\ \A t \in ran : t \in failed' <=> t \in failed
  /\ \A t \in Txs : bytes[t] # Unsigned =>
       /\ bytes'[t] = bytes[t]
       /\ Lapsed(t) => epoch' > bytes'[t].until /\ (t \notin ran => t \notin ran')
       /\ Dead(t) => Dead(t)'
  /\ \A n \in Nodes : view[n].epoch <= view'[n].epoch /\ dropped[n] \subseteq dropped'[n]

(* An execution takes nothing back: a transaction that had lapsed or lost   *)
(* an input cannot be the one that executes.                                *)
LEMMA ConsumeIsForward ==
  ASSUME ChainTypeOK, ChainSane, NodesSane,
         NEW t \in Digest \ ran, NEW ins \in SUBSET Objects, NEW gone,
         Consume(t, ins, gone), failed' \in {failed, failed \cup {t}},
         t \in Txs => /\ t \in wire /\ bytes[t].from <= epoch /\ epoch <= bytes[t].until
                      /\ ins = Pins[t]
                      /\ \A o \in ins : object[o].version = bytes[t].pinned[o]
  PROVE  ChainSane' /\ NodesSane' /\ Forward
<1>1. /\ ChainSane' /\ NodesSane'
      /\ \A o \in Objects : object[o].version <= object'[o].version
  BY ConsumeKeepsChain
<1>2. /\ ran' = ran \cup {t} /\ UNCHANGED <<epoch, bytes, view, dropped>>
  BY DEF Consume, nodes
<1>3. /\ epoch \in Nat /\ \A o \in Objects : object[o].version \in Nat /\ object'[o].version \in Nat
      /\ \A u \in Txs : bytes[u].until \in Nat
      /\ \A u \in Txs, o \in Objects : bytes[u].pinned[o] \in Nat
      /\ \A n \in Nodes : view[n].epoch \in Nat
  <2>1. \A o \in Objects : object'[o].version =
                    IF o \in ins THEN lamport + 1 ELSE object[o].version
    BY DEF Consume
  <2>2. QED
    BY <2>1, ChainTyped
<1>4. ASSUME NEW u \in Txs, bytes[u] # Unsigned
      PROVE  /\ bytes'[u] = bytes[u]
             /\ Lapsed(u) => epoch' > bytes'[u].until /\ (u \notin ran => u \notin ran')
             /\ Dead(u) => Dead(u)'
  <2>1. bytes'[u] = bytes[u] /\ epoch' = epoch
    BY <1>2
  <2>2. Lapsed(u) => u # t
    BY <1>3 DEF Lapsed
  <2>3. Spent(u) => u # t
    BY <1>3, PinsAreObjects DEF Spent
  <2>4. Lapsed(u) => epoch' > bytes'[u].until /\ (u \notin ran => u \notin ran')
    BY <1>2, <2>1, <2>2 DEF Lapsed
  <2>5. Lapsed(u) => Lapsed(u)'
    BY <2>1 DEF Lapsed
  <2>6. Spent(u) => Spent(u)'
    BY <1>1, <1>3, <2>1, PinsAreObjects DEF Spent
  <2>7. QED
    BY <1>2, <1>4, <2>1, <2>2, <2>3, <2>4, <2>5, <2>6 DEF Dead
<1>5. QED
  BY <1>1, <1>2, <1>3, <1>4 DEF Forward

(* Whatever the network does, its promises hold and nothing is taken back.  *)
LEMMA ChainKeepsWorld ==
  ASSUME ChainTypeOK, ChainSane, NodesSane, ChainNext
  PROVE  ChainSane' /\ NodesSane' /\ Forward
<1>1. ASSUME NEW t \in Txs, Execute(t)
      PROVE  ChainSane' /\ NodesSane' /\ Forward
  <2>1. PICK gone \in SUBSET Pins[t] : Consume(t, Pins[t], gone)
    BY <1>1 DEF Execute
  <2>2. t \in Digest \ ran /\ Pins[t] \in SUBSET Objects
    BY <1>1, PinsAreObjects, RivalsApart DEF Execute
  <2>3. /\ t \in wire /\ bytes[t].from <= epoch /\ epoch <= bytes[t].until
        /\ \A o \in Pins[t] : object[o].version = bytes[t].pinned[o]
        /\ failed' \in {failed, failed \cup {t}}
    BY <1>1 DEF Execute
  <2>4. QED
    BY <2>1, <2>2, <2>3, ConsumeIsForward
<1>2. ASSUME NEW r \in Rivals, RivalRuns(r)
      PROVE  ChainSane' /\ NodesSane' /\ Forward
  <2>1. PICK o \in Objects, gone \in SUBSET Objects : Consume(r, {o}, gone)
    BY <1>2 DEF RivalRuns
  <2>2. r \in Digest \ ran /\ r \notin Txs /\ failed' = failed /\ {o} \in SUBSET Objects
    BY <1>2, RivalsApart DEF RivalRuns
  <2>3. QED
    BY <2>1, <2>2, ConsumeIsForward
<1>3. ASSUME UNCHANGED <<bytes, ran, failed, ranAt, object>>, epoch <= epoch',
             \A n \in Nodes : view[n].epoch <= view'[n].epoch /\ dropped[n] \subseteq dropped'[n]
      PROVE  Forward
  <2>1. \A t \in Txs : Lapsed(t) => epoch' > bytes'[t].until
    <3>1. \A t \in Txs : bytes[t].until \in Nat /\ epoch \in Nat /\ epoch' \in Nat
      BY ChainTypes, ChainTyped, MaxEpochIsNatural DEF ChainTypeOK
    <3>2. QED
      BY <1>3, <3>1 DEF Lapsed
  <2>2. \A t \in Txs : Dead(t) => Dead(t)'
    BY <1>3, <2>1 DEF Dead, Lapsed, Spent
  <2>3. QED
    BY <1>3, <2>1, <2>2 DEF Forward
<1>4. CASE NextEpoch
  <2>1. /\ epoch' = epoch + 1
        /\ UNCHANGED <<wire, bytes, ran, failed, ranAt, took, object, lamport, view,
                       dropped, covers>>
    BY <1>4 DEF NextEpoch, nodes
  <2>2. epoch \in Nat /\ \A n \in Nodes : view[n].epoch \in Nat
    BY ChainTyped
  <2>3. ChainSane'
    BY <2>1 DEF ChainSane
  <2>4. NodesSane'
    BY <2>1, <2>2 DEF NodesSane
  <2>5. Forward
    BY <1>3, <2>1, <2>2
  <2>6. QED
    BY <2>3, <2>4, <2>5
<1>5. ASSUME NEW n \in Nodes, CatchUp(n)
      PROVE  ChainSane' /\ NodesSane' /\ Forward
  <2>1. /\ view' = [view EXCEPT ![n] = Now]
        /\ UNCHANGED <<epoch, ran, failed, ranAt, took, object, lamport, wire, bytes,
                       dropped, covers>>
    BY <1>5 DEF CatchUp, chain
  <2>2. \A m \in Nodes : view'[m] = IF m = n THEN Now ELSE view[m]
    BY <2>1 DEF ChainTypeOK
  <2>3. Now.epoch = epoch /\ Now.ran = ran /\ Now.object = object
    BY DEF Now
  <2>4. epoch \in Nat /\ \A m \in Nodes : view[m].epoch \in Nat
    BY ChainTyped
  <2>5. ChainSane'
    BY <2>1 DEF ChainSane
  <2>6. NodesSane'
    BY <2>1, <2>2, <2>3, <2>4 DEF NodesSane, ChainSane
  <2>7. \A m \in Nodes : view[m].epoch <= view'[m].epoch /\ dropped[m] \subseteq dropped'[m]
    BY <2>1, <2>2, <2>3, <2>4 DEF NodesSane
  <2>8. QED
    BY <1>3, <2>1, <2>4, <2>5, <2>6, <2>7
<1>6. ASSUME NEW n \in Nodes, Prune(n)
      PROVE  ChainSane' /\ NodesSane' /\ Forward
  <2>1. /\ UNCHANGED <<epoch, ran, failed, ranAt, took, object, lamport, wire, bytes, view>>
        /\ NodesPrune
    BY <1>6 DEF Prune, chain
  <2>2. PICK e \in covers[n] + 1 .. view[n].epoch :
          /\ covers' = [covers EXCEPT ![n] = e]
          /\ \E old \in SUBSET {t \in view[n].ran : ranAt[t] < e} :
               dropped' = [dropped EXCEPT ![n] = @ \cup old]
    BY <1>6 DEF Prune
  <2>3. PICK old \in SUBSET {t \in view[n].ran : ranAt[t] < e} :
          dropped' = [dropped EXCEPT ![n] = @ \cup old]
    BY <2>2
  <2>4. /\ \A m \in Nodes : covers'[m] = IF m = n THEN e ELSE covers[m]
        /\ \A m \in Nodes : dropped'[m] = IF m = n THEN dropped[n] \cup old ELSE dropped[m]
    <3>1. covers \in [Nodes -> 0..MaxEpoch] /\ dropped \in [Nodes -> SUBSET Digest]
      BY DEF ChainTypeOK
    <3>2. QED
      BY <2>2, <2>3, <3>1
  <2>5. /\ covers[n] \in Nat /\ epoch \in Nat /\ view[n].ran \subseteq Digest
        /\ \A m \in Nodes : view[m].epoch \in Nat
        /\ \A t \in Digest : ranAt[t] \in Nat
    BY ChainTyped
  <2>6. covers[n] < e /\ e \in Nat
    BY <2>5
  <2>7. ChainSane'
    BY <2>1 DEF ChainSane
  <2>8. ASSUME NEW m \in Nodes, NEW t \in dropped'[m]
        PROVE  t \in view[m].ran /\ ranAt[t] < covers'[m]
    <3>1. CASE t \in dropped[m]
      <4>1. t \in view[m].ran /\ ranAt[t] < covers[m]
        BY <3>1 DEF NodesSane
      <4>2. QED
        <5>1. CASE m = n
          <6>1. covers'[m] = e
            BY <2>4, <5>1
          <6>2. ranAt[t] \in Nat
            BY <2>5, <4>1, <5>1
          <6>3. QED
            BY <2>5, <2>6, <4>1, <5>1, <6>1, <6>2
        <5>2. CASE m # n
          BY <2>4, <4>1, <5>2
        <5>3. QED
          BY <5>1, <5>2
    <3>2. CASE t \notin dropped[m]
      BY <2>3, <2>4, <2>8, <3>2
    <3>3. QED
      BY <3>1, <3>2
  <2>9. NodesSane'
    BY <2>1, <2>8 DEF NodesSane
  <2>10. QED
    BY <1>3, <2>1, <2>4, <2>5, <2>7, <2>9
<1>7. QED
  BY <1>1, <1>2, <1>4, <1>5, <1>6 DEF ChainNext

-----------------------------------------------------------------------------
(* One process moves: what is left to show of its new record.               *)

(* A process that does not move keeps its word: what is said only where one *)
(* process does everything is not said of two.                              *)
LEMMA OthersKeep ==
  ASSUME Sound, Honest, NEW p \in Procs, NEW q \in Procs, q # p,
         UNCHANGED network, handed \subseteq handed', st'[q] = st[q]
  PROVE  Word(q, st[q])'
<1>1. UNCHANGED <<epoch, ran, failed, object, wire, bytes, view, dropped>>
  BY DEF network, chain, nodes
<1>2. \A t : /\ Lapsed(t)' <=> Lapsed(t)
             /\ Dead(t)' <=> Dead(t)
  BY <1>1 DEF Lapsed, Dead, Spent
<1>3. ~Alone /\ Word(q, st[q])
  BY DEF Alone, Honest
<1>4. CASE st[q].pc # "idle"
  <2>1. Knows(st[q])' /\ Roles(q, st[q])'
    BY <1>1, <1>3, <1>4 DEF Word, Knows, Roles
  <2>2. Trusted => Evidence(q, st[q])'
    BY <1>1, <1>2, <1>3, <1>4 DEF Word, Evidence
  <2>3. Trusted => Answers(st[q])'
    BY <1>1, <1>2, <1>3, <1>4 DEF Word, Answers, Fresh
  <2>4. Trusted => NoneResends
    BY <1>3 DEF Trusted, RefusalsLast
  <2>5. QED
    BY <1>3, <2>1, <2>2, <2>3, <2>4 DEF Word
<1>5. QED
  BY <1>4 DEF Word

(* The case of a call that begins, which may hand over a transaction.       *)
LEMMA MoveKeeps ==
  ASSUME Sound, Honest, NEW p \in Procs, NEW e, Move(p, e), Word(p, st[p])',
         UNCHANGED <<network, journal, released>>,
         handed \subseteq handed', \A t \in handed' : bytes[t] # Unsigned,
         e.pc \in Aims \cup {"consult"} =>
            \/ st[p].pc \in Aims \cup {"consult"} /\ e.tx = st[p].tx
            \/ Trusted /\ e.tx \in released => Dead(e.tx),
         e.pc \in Aims =>
            \/ st[p].pc \in Aims /\ e.tx = st[p].tx
            \/ Trusted => journal[e.tx] # "refused"
  PROVE  Honest'
<1>1. /\ UNCHANGED <<epoch, ran, failed, ranAt, took, object, lamport, wire, bytes,
                     view, dropped, covers, journal, released>>
      /\ \A q \in Procs : st'[q] = IF q = p THEN e ELSE st[q]
  BY DEF Sound, Typed, Move, network, chain, nodes
<1>2. ChainSane' /\ NodesSane' /\ Recorded'
  BY <1>1 DEF Honest, ChainSane, NodesSane, Recorded
<1>3. \A q \in Procs : Word(q, st[q])'
  BY <1>1, OthersKeep
<1>4. ASSUME Trusted
      PROVE  ToldTruly'
  <2>1. JournalOk /\ ReleasedOk /\ InTurn
    BY <1>4 DEF Honest, ToldTruly
  <2>2. \A t : Dead(t)' <=> Dead(t)
    BY <1>1 DEF Lapsed, Dead, Spent
  <2>3. JournalOk'
    BY <1>1, <1>4, <2>1, <2>2 DEF JournalOk
  <2>4. ReleasedOk'
    BY <1>1, <1>4, <2>1, <2>2 DEF ReleasedOk
  <2>5. InTurn'
    BY <1>1, <2>1 DEF InTurn
  <2>6. QED
    BY <2>3, <2>4, <2>5 DEF ToldTruly
<1>5. QED
  BY <1>2, <1>3, <1>4 DEF Honest

(* The case of a step that changes nothing but the process.                 *)
LEMMA OnlyKeeps ==
  ASSUME Sound, Honest, NEW p \in Procs, NEW e, Only(p, e), Word(p, e),
         e.pc \in Aims \cup {"consult"} =>
            \/ st[p].pc \in Aims \cup {"consult"} /\ e.tx = st[p].tx
            \/ Trusted /\ e.tx \in released => Dead(e.tx),
         e.pc \in Aims =>
            \/ st[p].pc \in Aims /\ e.tx = st[p].tx
            \/ Trusted => journal[e.tx] # "refused"
  PROVE  Honest'
<1>1. /\ UNCHANGED <<epoch, ran, failed, object, wire, bytes, view, dropped,
                     journal, handed, released>>
      /\ st'[p] = e
  BY DEF Sound, Typed, Only, Move, network, chain, nodes
<1>2. \A t : /\ Lapsed(t)' <=> Lapsed(t)
             /\ Dead(t)' <=> Dead(t)
             /\ Open(t)' <=> Open(t)
  BY <1>1 DEF Lapsed, Dead, Spent, Open
<1>3. Word(p, st[p])'
  <2>1. CASE e.pc = "idle"
    BY <1>1, <2>1 DEF Word
  <2>2. CASE e.pc # "idle"
    <3>1. Knows(st[p])' /\ Roles(p, st[p])'
      BY <1>1, <2>2 DEF Word, Knows, Roles
    <3>2. Trusted => Evidence(p, st[p])'
      BY <1>1, <1>2, <2>2 DEF Word, Evidence
    <3>3. Trusted => Answers(st[p])'
      BY <1>1, <1>2, <2>2 DEF Word, Answers, Fresh
    <3>4. Trusted /\ ~NoneResends => Serial(st[p])'
      BY <1>1, <2>2 DEF Word, Serial
    <3>5. Alone /\ SentOnce => Stays(st[p])'
      BY <1>1, <1>2, <2>2 DEF Word, Stays
    <3>6. QED
      BY <3>1, <3>2, <3>3, <3>4, <3>5 DEF Word
  <2>3. QED
    BY <2>1, <2>2
<1>4. /\ Move(p, e) /\ UNCHANGED <<network, journal, released>> /\ handed \subseteq handed'
      /\ \A t \in handed' : bytes[t] # Unsigned
  BY DEF Only, Honest, Recorded
<1>5. QED
  BY <1>3, <1>4, MoveKeeps

-----------------------------------------------------------------------------
(* The records a process moves to.                                          *)

(* A round of recover has forgotten everything but the call.                *)
LEMMA RecoverFields ==
  ASSUME NEW r
  PROVE  /\ Recover(r).pc = "recover" /\ Recover(r).answer = "none"
         /\ Recover(r).op = r.op /\ Recover(r).tx = r.tx
         /\ Recover(r).queue = r.queue /\ Recover(r).resent = r.resent
         /\ Recover(r).expired = FALSE /\ Recover(r).consumed = FALSE
  BY DEF Recover, Idle

(* An answer is as good as the state it was read from.                      *)
Holds(r, answer) ==
  /\ answer = "Executed" => r.tx \in ran \ failed
  /\ answer = "Failed" => r.tx \in failed
  /\ answer \in {"expired", "inputConsumed"} => Dead(r.tx)
  /\ answer = "refused" => r.op \in First \cup {"resubmit"} /\ (r.tx \notin wire \/ Dead(r.tx))
  /\ answer = "JournalError" => r.op \in Sending /\ "journal" \in FaultKinds
  /\ r.op \in First /\ answer \in {"refused", "JournalError"} => r.tx \notin wire

(* A call may end with an answer that holds in this state.                  *)
LEMMA EndsWord ==
  ASSUME NEW p \in Procs, NEW r, r.pc # "idle", Word(p, r),
         NEW pc \in {"held", "settled", "return"}, NEW answer \in Answer \ {"none"},
         pc = "held" => r.op \in Reconciling /\ answer # "refused",
         pc = "settled" => r.op \notin Reconciling,
         answer = "JournalError" => pc = "return" /\ (r.op = "sweepResend" => r.resent),
         Trusted => Holds(r, answer),
         Trusted /\ ~NoneResends =>
           /\ pc = "return" /\ answer = "refused" => journal[r.tx] = "refused"
           /\ r.op \in First /\ answer = "JournalError" => journal[r.tx] = "Absent",
         Alone /\ SentOnce =>
           /\ pc = "settled" => Open(r.tx)
           /\ pc = "return" => r.op # "sweepResend" \/ answer # "Unknown"
  PROVE  Word(p, Ends(r, pc, answer))
<1> DEFINE e == Ends(r, pc, answer)
<1>1. /\ e.pc = pc /\ e.answer = answer /\ e.op = r.op /\ e.tx = r.tx
      /\ e.queue = r.queue /\ e.resent = r.resent
      /\ e.expired = FALSE /\ e.consumed = FALSE
  BY DEF Ends, Idle
<1> HIDE DEF e
<1>2. Knows(e)
  BY <1>1 DEF Word, Knows
<1>3. Roles(p, e)
  BY <1>1 DEF Word, Roles, First, Sending, Reconciling
<1>4. Trusted => Evidence(p, e)
  BY <1>1 DEF Evidence, Reading
<1>5. Trusted => Answers(e)
  BY <1>1 DEF Answers, Fresh, Holds
<1>6. Trusted /\ ~NoneResends => Serial(e)
  BY <1>1 DEF Word, Serial
<1>7. Alone /\ SentOnce => Stays(e)
  BY <1>1 DEF Word, Stays
<1>8. Word(p, e)
  BY <1>2, <1>3, <1>4, <1>5, <1>6, <1>7 DEF Word
<1>9. QED
  BY <1>8 DEF e

(* A round of recover claims nothing yet, wherever it starts from.          *)
LEMMA RecoverWord ==
  ASSUME NEW p \in Procs, NEW r, r.pc \in Reading \cup {"answer", "reply", "window", "consult"},
         Word(p, r), NEW s, s.tx = r.tx, s.queue = r.queue, s.resent = r.resent,
         IF r.pc = "consult" THEN s.op = "reconcile" ELSE s.op = r.op
  PROVE  Word(p, Recover(s))
<1> DEFINE e == Recover(s)
<1>1. /\ e.pc = "recover" /\ e.answer = "none" /\ e.op = s.op /\ e.tx = r.tx
      /\ e.queue = r.queue /\ e.resent = r.resent
      /\ e.expired = FALSE /\ e.consumed = FALSE
  BY RecoverFields
<1> HIDE DEF e
<1>0. r.pc # "idle"
  BY DEF Reading
<1>2. Knows(e)
  BY <1>0, <1>1 DEF Word, Knows
<1>3. Roles(p, e)
  BY <1>0, <1>1 DEF Word, Roles, First, Sending, Reconciling, Operations
<1>4. Trusted => Evidence(p, e)
  BY <1>1 DEF Evidence, Reading
<1>5. Trusted => Answers(e)
  BY <1>1 DEF Answers, Fresh
<1>6. Trusted /\ ~NoneResends => Serial(e)
  BY <1>0, <1>1 DEF Word, Serial, First, Reconciling
<1>7. Alone /\ SentOnce => Stays(e)
  BY <1>0, <1>1 DEF Word, Stays, Reading, Reconciling
<1>8. Word(p, e)
  BY <1>2, <1>3, <1>4, <1>5, <1>6, <1>7 DEF Word
<1>9. QED
  BY <1>8 DEF e

(* A reconcile round may conclude what holds in this state.                 *)
LEMMA ConcludeWord ==
  ASSUME NEW p \in Procs, NEW r \in Local, r.pc \in Reading, Word(p, r),
         NEW answer \in {"Executed", "Failed", "Unknown", "expired", "inputConsumed"},
         Trusted => Holds(r, answer)
  PROVE  /\ Word(p, Conclude(r, answer))
         /\ Conclude(r, answer).pc \in {"recover", "held", "settled"}
<1>1. r.pc \notin {"idle", "consult", "return", "held"} /\ answer \in Answer \ {"none"}
  BY DEF Reading, Answer, NotAppliedEvidence
<1>2. CASE answer = "Unknown" /\ r.rechecks > 0
  <2> DEFINE s == [r EXCEPT !.rechecks = @ - 1]
  <2>1. s.tx = r.tx /\ s.queue = r.queue /\ s.resent = r.resent /\ s.op = r.op
    BY DEF Local
  <2> HIDE DEF s
  <2>2. Word(p, Recover(s)) /\ Recover(s).pc = "recover"
    BY <1>1, <2>1, RecoverWord, RecoverFields
  <2>3. Conclude(r, answer) = Recover(s)
    BY <1>2 DEF Conclude, s
  <2>4. QED
    BY <2>2, <2>3
<1>3. CASE ~(answer = "Unknown" /\ r.rechecks > 0)
  <2> DEFINE pc == IF r.op \in {"reconcile", "reconcileDigest"} THEN "held" ELSE "settled"
  <2>1. /\ pc \in {"held", "settled"}
        /\ pc = "held" => r.op \in Reconciling
        /\ pc = "settled" => r.op \notin Reconciling
    BY DEF Reconciling
  <2>2. Conclude(r, answer) = Ends(r, pc, answer)
    BY <1>3 DEF Conclude
  <2> HIDE DEF pc
  <2>3. Alone /\ SentOnce => (pc = "settled" => Open(r.tx))
    BY <1>1, <2>1 DEF Word, Stays
  <2>4. Word(p, Ends(r, pc, answer))
    <3>1. /\ answer # "refused" /\ answer # "JournalError" /\ pc # "return"
          /\ pc \in {"held", "settled", "return"} /\ answer \in Answer \ {"none"}
      BY <1>1, <2>1
    <3>2. QED
      BY <1>1, <2>1, <2>3, <3>1, EndsWord
  <2>5. Ends(r, pc, answer).pc = pc
    BY DEF Ends, Idle
  <2>6. QED
    BY <2>1, <2>2, <2>4, <2>5
<1>4. QED
  BY <1>2, <1>3

(* From one read to the next: the evidence is what changes.                 *)
LEMMA ReadsOn ==
  ASSUME NEW p \in Procs, NEW r, r.pc \in Reading, Word(p, r),
         NEW e, e.pc \in Reading, e.answer = r.answer, e.op = r.op, e.tx = r.tx,
         e.queue = r.queue, e.resent = r.resent,
         Trusted => Evidence(p, e)
  PROVE  Word(p, e)
<1>0. r.pc # "idle"
  BY DEF Reading
<1>1. Knows(e)
  BY <1>0 DEF Word, Knows
<1>2. Roles(p, e)
  BY <1>0 DEF Word, Roles, Reading
<1>3. Trusted => Answers(e)
  BY <1>0 DEF Word, Answers, Fresh, Reading
<1>4. Trusted /\ ~NoneResends => Serial(e)
  BY <1>0 DEF Word, Serial, Reading
<1>5. Alone /\ SentOnce => Stays(e)
  BY <1>0 DEF Word, Stays, Reading
<1>6. QED
  BY <1>1, <1>2, <1>3, <1>4, <1>5 DEF Word

-----------------------------------------------------------------------------
(* Reads.                                                                   *)

(* A process that reads works for a signed transaction.                     *)
LEMMA Reader ==
  ASSUME Sound, Honest, NEW p \in Procs, st[p].pc \in Reading
  PROVE  /\ st[p] \in Local /\ st[p].tx \in Txs /\ Word(p, st[p])
         /\ bytes[st[p].tx] # Unsigned
         /\ Trusted => Evidence(p, st[p])
<1>1. st[p].pc # "idle"
  BY DEF Reading
<1>2. QED
  BY <1>1, BusyHasTx DEF Honest, Word, Knows, Recorded

(* Reading, recording and ending do not aim at a send.                      *)
LEMMA ReadMoves ==
  ASSUME Sound, Honest, NEW p \in Procs, NEW e, Only(p, e), Word(p, e),
         e.pc \in Reading \cup {"held", "settled", "return", "idle"}
  PROVE  Honest'
<1>1. e.pc \notin Aims \cup {"consult"}
  BY DEF Aims, Reading
<1>2. QED
  BY <1>1, OnlyKeeps

(* Unknown claims nothing.                                                  *)
LEMMA KnowsNothing ==
  ASSUME NEW r
  PROVE  Holds(r, "Unknown")
  BY DEF Holds

(* A round may always conclude that it does not know.                       *)
LEMMA UnknownWord ==
  ASSUME Sound, Honest, NEW p \in Procs, st[p].pc \in Reading
  PROVE  /\ Word(p, Conclude(st[p], "Unknown"))
         /\ Conclude(st[p], "Unknown").pc \in {"recover", "held", "settled"}
  BY Reader, KnowsNothing, ConcludeWord

(* A miss on a node that shows the window closed: the transaction has not   *)
(* executed and never will, or the node has forgotten it.                   *)
LEMMA ClosedThenMissed ==
  ASSUME ChainTypeOK, ChainSane, NodesSane, NEW t \in Txs, NEW n \in Nodes,
         view[n].epoch > bytes[t].until, t \notin Served(n)
  PROVE  Lapsed(t) /\ (t \notin ran \/ t \in dropped[n])
<1>1. /\ view[n].epoch \in Nat /\ epoch \in Nat /\ bytes[t].until \in Nat
      /\ ranAt[t] \in Nat
  BY ChainTyped, RivalsApart
<1>2. view[n].epoch <= epoch
  BY DEF NodesSane
<1>3. Lapsed(t)
  BY <1>1, <1>2 DEF Lapsed
<1>4. ASSUME t \in ran, t \notin view[n].ran
      PROVE  FALSE
  <2>1. ranAt[t] >= view[n].epoch
    BY <1>4 DEF NodesSane
  <2>2. ranAt[t] <= bytes[t].until
    BY <1>4 DEF ChainSane
  <2>3. QED
    BY <1>1, <2>1, <2>2
<1>5. QED
  BY <1>3, <1>4 DEF Served

(* Some other transaction took an input at the version these bytes pin.     *)
LEMMA TakenByAnother ==
  ASSUME ChainTypeOK, ChainSane, NEW t \in Txs, bytes[t] # Unsigned,
         NEW o \in Pins[t], NEW by \in ran, by # t, took[by][o] = bytes[t].pinned[o]
  PROVE  Dead(t)
<1>1. o \in Objects /\ by \in Digest /\ t \in Digest
  BY PinsAreObjects, RivalsApart DEF ChainTypeOK
<1>2. /\ took[by][o] \in Nat /\ object[o].version \in Nat
      /\ bytes[t].pinned[o] \in Nat
  BY <1>1, ChainTyped
<1>3. bytes[t].pinned[o] >= 1 /\ took[by][o] < object[o].version
  BY <1>1 DEF ChainSane
<1>4. Spent(t)
  BY <1>2, <1>3 DEF Spent
<1>5. t \notin ran
  <2>1. SUFFICES ASSUME t \in ran PROVE FALSE
    OBVIOUS
  <2>2. took[t][o] = bytes[t].pinned[o]
    BY <2>1 DEF ChainSane
  <2>3. took[t][o] # 0
    BY <1>2, <1>3, <2>2
  <2>4. t = by
    BY <1>1, <2>1, <2>2, <2>3 DEF ChainSane
  <2>5. QED
    BY <2>4
<1>6. QED
  BY <1>4, <1>5 DEF Dead

(* The input check starts with the window's verdict, if there is one.       *)
LEMMA InputsWord ==
  ASSUME Sound, Honest, NEW p \in Procs, st[p].pc \in Reading,
         Trusted => p \notin Foreign,
         NEW s \in {st[p], [st[p] EXCEPT !.expired = TRUE]},
         Trusted /\ s.expired =>
           /\ Lapsed(s.tx)
           /\ s.tx \notin ran \/ \A n \in Nodes : s.tx \in dropped[n]
  PROVE  Word(p, Inputs(s)) /\ Inputs(s).pc \in Reading
<1>1. /\ st[p] \in Local /\ Word(p, st[p])
      /\ Trusted => Evidence(p, st[p])
  BY Reader
<1>2. /\ s \in Local /\ s.tx = st[p].tx /\ s.op = st[p].op /\ s.queue = st[p].queue
      /\ s.resent = st[p].resent /\ s.answer = st[p].answer /\ s.consumed = st[p].consumed
  BY <1>1 DEF Local
<1> DEFINE e == Inputs(s)
<1>3. /\ e.pc = "inputs" /\ e.todo = Pins[s.tx] /\ e.tx = st[p].tx /\ e.op = st[p].op
      /\ e.queue = st[p].queue /\ e.resent = st[p].resent /\ e.answer = st[p].answer
      /\ e.consumed = st[p].consumed /\ e.expired = s.expired
  BY <1>2 DEF Inputs, Local
<1> HIDE DEF e
<1>4. e.pc \in Reading
  BY <1>3 DEF Reading
<1>5. Trusted => Evidence(p, e)
  BY <1>1, <1>2, <1>3 DEF Evidence
<1>6. Word(p, e)
  BY <1>1, <1>3, <1>4, <1>5, ReadsOn
<1>7. QED
  BY <1>4, <1>6 DEF e

(* A miss leads on to the next read and claims no more than it showed;      *)
(* after the window was seen closed it is the verdict that the transaction  *)
(* expired.                                                                 *)
LEMMA MissWord ==
  ASSUME Sound, Honest, NEW p \in Procs,
         st[p].pc \in {"recover", "lookup2", "lookup3", "lookup4"},
         st[p].pc = "recover" => (~HasBytes(p) \/ p \notin Foreign),
         NEW n \in Nodes, ~Finds(p, n, st[p].tx)
  PROVE  Word(p, Miss(p)) /\ Miss(p).pc \in Reading \cup {"held", "settled"}
<1>1. st[p].pc \in Reading
  BY DEF Reading
<1>2. /\ st[p] \in Local /\ st[p].tx \in Txs /\ Word(p, st[p])
      /\ Trusted => Evidence(p, st[p])
  BY <1>1, Reader
<1>3. /\ Word(p, Conclude(st[p], "Unknown"))
      /\ Conclude(st[p], "Unknown").pc \in Reading \cup {"held", "settled"}
  BY <1>1, UnknownWord DEF Reading
<1>4. st[p].pc # "recover" /\ Trusted => p \notin Foreign
  BY <1>1, <1>2 DEF Evidence
<1>5. ASSUME NEW pc \in {"closed1", "closed2"},
             Trusted => p \notin Foreign /\ ExpiryEvidence = "epochThenMiss"
      PROVE  Word(p, [st[p] EXCEPT !.pc = pc]) /\ [st[p] EXCEPT !.pc = pc].pc \in Reading
  <2> DEFINE e == [st[p] EXCEPT !.pc = pc]
  <2>1. /\ e.pc = pc /\ e.tx = st[p].tx /\ e.op = st[p].op /\ e.queue = st[p].queue
        /\ e.resent = st[p].resent /\ e.answer = st[p].answer
        /\ e.consumed = st[p].consumed /\ e.expired = st[p].expired
    BY <1>2 DEF Local
  <2> HIDE DEF e
  <2>2. e.pc \in Reading
    BY <2>1 DEF Reading
  <2>3. Trusted => Evidence(p, e)
    BY <1>2, <1>5, <2>1 DEF Evidence
  <2>4. Word(p, e)
    BY <1>1, <1>2, <2>1, <2>2, <2>3, ReadsOn
  <2>5. QED
    BY <2>2, <2>4 DEF e
<1>6. CASE st[p].pc = "recover"
  <2>1. CASE ~HasBytes(p)
    <3>1. Miss(p) = Conclude(st[p], "Unknown")
      BY <1>6, <2>1 DEF Miss
    <3>2. QED
      BY <1>3, <3>1
  <2>2. CASE HasBytes(p) /\ ExpiryEvidence = "epochThenMiss"
    <3>1. Miss(p) = [st[p] EXCEPT !.pc = "closed1"]
      BY <1>6, <2>2 DEF Miss
    <3>2. QED
      BY <1>5, <1>6, <2>2, <3>1
  <2>3. CASE HasBytes(p) /\ ExpiryEvidence # "epochThenMiss"
    <3>1. Miss(p) = Inputs(st[p])
      BY <1>6, <2>3 DEF Miss
    <3>2. Word(p, Inputs(st[p])) /\ Inputs(st[p]).pc \in Reading
      BY <1>1, <1>2, <1>6, <2>3, InputsWord DEF Evidence
    <3>3. QED
      BY <3>1, <3>2
  <2>4. QED
    BY <2>1, <2>2, <2>3
<1>7. CASE st[p].pc = "lookup2"
  <2>1. Miss(p) = [st[p] EXCEPT !.pc = "closed2"]
    BY <1>7 DEF Miss
  <2>2. Trusted => ExpiryEvidence = "epochThenMiss"
    BY <1>2, <1>7 DEF Evidence
  <2>3. QED
    BY <1>4, <1>5, <1>7, <2>1, <2>2
<1>8. CASE st[p].pc = "lookup3"
  <2> DEFINE s == [st[p] EXCEPT !.expired = TRUE]
  <2>1. Miss(p) = Inputs(s)
    BY <1>8 DEF Miss
  <2>2. s.tx = st[p].tx
    BY <1>2 DEF Local
  <2>3. ASSUME Trusted
        PROVE  /\ Lapsed(st[p].tx)
               /\ st[p].tx \notin ran \/ \A m \in Nodes : st[p].tx \in dropped[m]
    <3>1. /\ \A m \in Nodes : m = n
          /\ view[n].epoch > bytes[st[p].tx].until
      BY <1>2, <1>8, <2>3 DEF Trusted, ReadsAgree, Evidence
    <3>2. st[p].tx \notin Served(n)
      BY <1>4, <1>8, <2>3 DEF Finds
    <3>3. QED
      BY <1>2, <3>1, <3>2, ClosedThenMissed DEF Sound, Typed, Honest
  <2>4. Word(p, Inputs(s)) /\ Inputs(s).pc \in Reading
    BY <1>1, <1>4, <1>8, <2>2, <2>3, InputsWord
  <2>5. QED
    BY <2>1, <2>4
<1>9. CASE st[p].pc = "lookup4"
  <2>1. Miss(p) = Conclude(st[p], "Unknown")
    BY <1>9 DEF Miss
  <2>2. QED
    BY <1>3, <2>1
<1>10. QED
  BY <1>6, <1>7, <1>8, <1>9

(* A node only serves what executed.                                        *)
LEMMA FoundHolds ==
  ASSUME Sound, Honest, NEW p \in Procs, NEW n \in Nodes, st[p].tx \in Txs,
         Finds(p, n, st[p].tx)
  PROVE  /\ Holds(st[p], Receipt(st[p].tx))
         /\ Receipt(st[p].tx) \in {"Executed", "Failed"}
<1>1. st[p].tx \in ran
  BY DEF Finds, Served, Honest, NodesSane
<1>2. QED
  BY <1>1 DEF Holds, Receipt

(* A lookup, its failure, or the guard for another chain keeps the          *)
(* invariant.                                                               *)
LEMMA LookupHonest ==
  ASSUME Sound, Honest, NEW p \in Procs, chainMismatch(p) \/ lookup(p) \/ readFails(p)
  PROVE  Honest'
<1>1. CASE chainMismatch(p)
  <2>1. st[p].pc \in Reading /\ Only(p, Conclude(st[p], "Unknown"))
    BY <1>1 DEF chainMismatch, Reading
  <2>2. QED
    BY <2>1, UnknownWord, ReadMoves DEF Reading
<1>2. CASE readFails(p)
  <2>1. st[p].pc \in Reading /\ Only(p, Conclude(st[p], "Unknown"))
    BY <1>2 DEF readFails
  <2>2. QED
    BY <2>1, UnknownWord, ReadMoves DEF Reading
<1>3. CASE lookup(p)
  <2>1. /\ st[p].pc \in {"recover", "lookup2", "lookup3", "lookup4"}
        /\ st[p].pc = "recover" => (~HasBytes(p) \/ p \notin Foreign)
    BY <1>3 DEF lookup
  <2>2. PICK n \in Nodes :
          Only(p, IF Finds(p, n, st[p].tx)
                    THEN Conclude(st[p], Receipt(st[p].tx)) ELSE Miss(p))
    BY <1>3 DEF lookup
  <2>3. st[p].pc \in Reading
    BY <2>1 DEF Reading
  <2>4. st[p] \in Local /\ st[p].tx \in Txs /\ Word(p, st[p])
    BY <2>3, Reader
  <2>5. CASE Finds(p, n, st[p].tx)
    <3>1. /\ Word(p, Conclude(st[p], Receipt(st[p].tx)))
          /\ Conclude(st[p], Receipt(st[p].tx)).pc \in {"recover", "held", "settled"}
      BY <2>3, <2>4, <2>5, FoundHolds, ConcludeWord
    <3>2. Only(p, Conclude(st[p], Receipt(st[p].tx)))
      BY <2>2, <2>5
    <3>3. QED
      BY <3>1, <3>2, ReadMoves DEF Reading
  <2>6. CASE ~Finds(p, n, st[p].tx)
    <3>1. Word(p, Miss(p)) /\ Miss(p).pc \in Reading \cup {"held", "settled"}
      BY <2>1, <2>6, MissWord
    <3>2. Only(p, Miss(p))
      BY <2>2, <2>6
    <3>3. QED
      BY <3>1, <3>2, ReadMoves
  <2>7. QED
    BY <2>5, <2>6
<1>4. QED
  BY <1>1, <1>2, <1>3

(* So does reading the epoch.                                               *)
LEMMA WindowClosedHonest ==
  ASSUME Sound, Honest, NEW p \in Procs, windowClosed(p)
  PROVE  Honest'
<1>1. st[p].pc \in {"closed1", "closed2"} /\ st[p].pc \in Reading
  BY DEF windowClosed, Reading
<1>2. /\ st[p] \in Local /\ st[p].tx \in Txs /\ Word(p, st[p])
      /\ Trusted => Evidence(p, st[p])
  BY <1>1, Reader
<1>3. Trusted => p \notin Foreign /\ ExpiryEvidence = "epochThenMiss"
  BY <1>1, <1>2 DEF Evidence
<1>4. PICK n \in Nodes :
        Only(p, IF ~expiryClosed(p, n) THEN Inputs(st[p])
                ELSE [st[p] EXCEPT !.pc = IF st[p].pc = "closed1"
                                            THEN "lookup2" ELSE "lookup3"])
  BY DEF windowClosed
<1>5. CASE ~expiryClosed(p, n)
  <2>1. Word(p, Inputs(st[p])) /\ Inputs(st[p]).pc \in Reading
    BY <1>1, <1>2, <1>3, InputsWord DEF Evidence
  <2>2. QED
    BY <1>4, <1>5, <2>1, ReadMoves
<1>6. CASE expiryClosed(p, n)
  <2> DEFINE pc == IF st[p].pc = "closed1" THEN "lookup2" ELSE "lookup3"
             e == [st[p] EXCEPT !.pc = pc]
  <2>1. pc \in {"lookup2", "lookup3"}
    OBVIOUS
  <2> HIDE DEF pc
  <2>2. /\ e.pc = pc /\ e.tx = st[p].tx /\ e.op = st[p].op /\ e.queue = st[p].queue
        /\ e.resent = st[p].resent /\ e.answer = st[p].answer
        /\ e.consumed = st[p].consumed /\ e.expired = st[p].expired
    BY <1>2 DEF Local
  <2>3. Only(p, e)
    BY <1>4, <1>6 DEF pc
  <2> HIDE DEF e
  <2>4. e.pc \in Reading
    BY <2>1, <2>2 DEF Reading
  <2>5. Trusted => \A m \in Nodes : view[m].epoch > bytes[st[p].tx].until
    BY <1>3, <1>6 DEF Trusted, ReadsAgree, expiryClosed, EpochAt
  <2>6. Trusted => Evidence(p, e)
    BY <1>2, <1>3, <2>1, <2>2, <2>5 DEF Evidence
  <2>7. Word(p, e)
    BY <1>1, <1>2, <2>2, <2>4, <2>6, ReadsOn
  <2>8. QED
    BY <2>3, <2>4, <2>7, ReadMoves
<1>7. QED
  BY <1>5, <1>6

(* So does reading the state of a pinned object.                            *)
LEMMA InputStateHonest ==
  ASSUME Sound, Honest, NEW p \in Procs, inputState(p)
  PROVE  Honest'
<1>1. st[p].pc = "inputs" /\ st[p].pc \in Reading
  BY DEF inputState, Reading
<1>2. /\ st[p] \in Local /\ st[p].tx \in Txs /\ Word(p, st[p])
      /\ Trusted => Evidence(p, st[p])
  BY <1>1, Reader
<1>3. PICK o \in st[p].todo, n \in Nodes :
        LET seen == ObjectAt(p, n, o)
            rest == [st[p] EXCEPT !.todo = @ \ {o}]
        IN Only(p,
             IF ~seen.live \/ seen.version <= bytes[st[p].tx].pinned[o]
               THEN rest
             ELSE IF seen.by = st[p].tx THEN [rest EXCEPT !.pc = "lookup4", !.todo = {}]
             ELSE [rest EXCEPT !.pc = "effects", !.asked = {o}, !.by = seen.by])
  BY DEF inputState
<1> DEFINE by == ObjectAt(p, n, o).by
           rest == [st[p] EXCEPT !.todo = @ \ {o}]
           found == [rest EXCEPT !.pc = "lookup4", !.todo = {}]
           ask == [rest EXCEPT !.pc = "effects", !.asked = {o}, !.by = by]
<1>4. Only(p, rest) \/ Only(p, found) \/ (by # st[p].tx /\ Only(p, ask))
  BY <1>3
<1> HIDE DEF by
<1>5. ASSUME NEW e, Only(p, e), e.pc \in {"inputs", "lookup4", "effects"},
             e.pc = "inputs" => e.todo \subseteq st[p].todo,
             e.pc = "effects" => e.todo \subseteq st[p].todo /\ e.asked = {o} /\ e.by # st[p].tx,
             e.tx = st[p].tx, e.op = st[p].op, e.queue = st[p].queue,
             e.resent = st[p].resent, e.answer = st[p].answer,
             e.consumed = st[p].consumed, e.expired = st[p].expired
      PROVE  Honest'
  <2>1. e.pc \in Reading
    BY <1>5 DEF Reading
  <2>2. Trusted => Evidence(p, e)
    BY <1>1, <1>2, <1>5 DEF Evidence
  <2>3. Word(p, e)
    BY <1>1, <1>2, <1>5, <2>1, <2>2, ReadsOn
  <2>4. QED
    BY <1>5, <2>1, <2>3, ReadMoves
<1>6. CASE Only(p, rest)
  <2>1. /\ rest.pc = "inputs" /\ rest.todo \subseteq st[p].todo /\ rest.tx = st[p].tx
        /\ rest.op = st[p].op /\ rest.queue = st[p].queue /\ rest.resent = st[p].resent
        /\ rest.answer = st[p].answer /\ rest.consumed = st[p].consumed
        /\ rest.expired = st[p].expired
    BY <1>1, <1>2 DEF Local
  <2> HIDE DEF rest
  <2>2. QED
    BY <1>5, <1>6, <2>1
<1>7. CASE Only(p, found)
  <2>1. /\ found.pc = "lookup4" /\ found.tx = st[p].tx
        /\ found.op = st[p].op /\ found.queue = st[p].queue /\ found.resent = st[p].resent
        /\ found.answer = st[p].answer /\ found.consumed = st[p].consumed
        /\ found.expired = st[p].expired
    BY <1>1, <1>2 DEF Local
  <2> HIDE DEF found
  <2>2. QED
    BY <1>5, <1>7, <2>1
<1>8. CASE by # st[p].tx /\ Only(p, ask)
  <2>1. /\ ask.pc = "effects" /\ ask.todo \subseteq st[p].todo /\ ask.asked = {o}
        /\ ask.by # st[p].tx /\ ask.tx = st[p].tx
        /\ ask.op = st[p].op /\ ask.queue = st[p].queue /\ ask.resent = st[p].resent
        /\ ask.answer = st[p].answer /\ ask.consumed = st[p].consumed
        /\ ask.expired = st[p].expired
    BY <1>1, <1>2, <1>8 DEF Local
  <2> HIDE DEF ask
  <2>2. QED
    BY <1>5, <1>8, <2>1
<1>9. QED
  BY <1>4, <1>6, <1>7, <1>8

(* So does reading who consumed it.                                         *)
LEMMA ConsumedHonest ==
  ASSUME Sound, Honest, NEW p \in Procs, consumedVersionOf(p)
  PROVE  Honest'
<1>1. st[p].pc = "effects" /\ st[p].pc \in Reading
  BY DEF consumedVersionOf, Reading
<1>2. /\ st[p] \in Local /\ st[p].tx \in Txs /\ Word(p, st[p])
      /\ bytes[st[p].tx] # Unsigned
      /\ Trusted => Evidence(p, st[p])
  BY <1>1, Reader
<1> DEFINE r(spent) == [st[p] EXCEPT !.pc = IF spent THEN "weigh" ELSE "inputs",
                                     !.consumed = spent, !.asked = {}, !.by = NoTx,
                                     !.todo = IF spent THEN {} ELSE @]
           spends(n) == \A o \in st[p].asked :
                          Finds(p, n, st[p].by)
                            /\ took[st[p].by][o] = bytes[st[p].tx].pinned[o]
<1>3. PICK n \in Nodes : Only(p, r(spends(n)))
  BY DEF consumedVersionOf
<1>4. ASSUME Trusted, spends(n)
      PROVE  Dead(st[p].tx)
  <2>1. PICK o \in Pins[st[p].tx] : st[p].asked = {o} /\ st[p].by # st[p].tx
    BY <1>1, <1>2, <1>4 DEF Evidence
  <2>2. Finds(p, n, st[p].by) /\ took[st[p].by][o] = bytes[st[p].tx].pinned[o]
    BY <1>4, <2>1
  <2>3. st[p].by \in ran
    BY <2>2 DEF Finds, Served, Honest, NodesSane
  <2>4. QED
    BY <1>2, <2>1, <2>2, <2>3, TakenByAnother DEF Sound, Typed, Honest
<1> DEFINE e == r(spends(n))
<1>5. /\ e.pc = IF spends(n) THEN "weigh" ELSE "inputs"
      /\ e.consumed <=> spends(n)
      /\ e.todo \subseteq st[p].todo
      /\ e.tx = st[p].tx /\ e.op = st[p].op /\ e.queue = st[p].queue
      /\ e.resent = st[p].resent /\ e.answer = st[p].answer
      /\ e.expired = st[p].expired
  BY <1>2 DEF Local
<1> HIDE DEF e, spends, r
<1>6. e.pc \in Reading /\ e.pc \in {"weigh", "inputs"}
  BY <1>5 DEF Reading
<1>7. Trusted => Evidence(p, e)
  BY <1>1, <1>2, <1>4, <1>5, <1>6 DEF Evidence
<1>8. Word(p, e)
  BY <1>1, <1>2, <1>5, <1>6, <1>7, ReadsOn
<1>9. Only(p, e)
  BY <1>3 DEF e
<1>10. QED
  BY <1>6, <1>8, <1>9, ReadMoves

(* So does weighing the evidence: a miss with the window closed counts only *)
(* where the node still holds the window, and there it is a proof.          *)
LEMMA WeighHonest ==
  ASSUME Sound, Honest, NEW p \in Procs, noEvidence(p) \/ weigh(p)
  PROVE  Honest'
<1>1. st[p].pc \in Reading
  BY DEF noEvidence, weigh, Reading
<1>2. /\ st[p] \in Local /\ st[p].tx \in Txs /\ Word(p, st[p])
      /\ bytes[st[p].tx] # Unsigned
      /\ Trusted => Evidence(p, st[p])
  BY <1>1, Reader
<1>3. CASE noEvidence(p)
  <2> DEFINE e == [st[p] EXCEPT !.pc = "weigh"]
  <2>1. /\ e.pc = "weigh" /\ e.tx = st[p].tx /\ e.op = st[p].op /\ e.queue = st[p].queue
        /\ e.resent = st[p].resent /\ e.answer = st[p].answer
        /\ e.consumed = st[p].consumed /\ e.expired = st[p].expired
    BY <1>2 DEF Local
  <2>2. Only(p, e) /\ st[p].pc = "inputs"
    BY <1>3 DEF noEvidence
  <2> HIDE DEF e
  <2>3. e.pc \in Reading
    BY <2>1 DEF Reading
  <2>4. Trusted => Evidence(p, e)
    BY <1>2, <2>1, <2>2, <1>1 DEF Evidence
  <2>5. Word(p, e)
    BY <1>1, <1>2, <2>1, <2>3, <2>4, ReadsOn
  <2>6. QED
    BY <2>2, <2>3, <2>5, ReadMoves
<1>4. CASE weigh(p)
  <2>1. PICK n \in Nodes :
          Only(p, Conclude(st[p], IF st[p].expired /\ Covered(p, n) THEN "expired"
                                  ELSE IF st[p].consumed THEN "inputConsumed"
                                  ELSE "Unknown"))
    BY <1>4 DEF weigh
  <2> DEFINE answer == IF st[p].expired /\ Covered(p, n) THEN "expired"
                       ELSE IF st[p].consumed THEN "inputConsumed" ELSE "Unknown"
  <2>2. ASSUME Trusted, st[p].expired, Covered(p, n)
        PROVE  Dead(st[p].tx)
    <3> DEFINE t == st[p].tx
    <3>1. Lapsed(t) /\ (t \notin ran \/ t \in dropped[n])
      BY <1>2, <2>2 DEF Evidence
    <3>2. ASSUME t \in ran, t \in dropped[n]
          PROVE  FALSE
      <4>1. NodesPrune /\ ranAt[t] < covers[n]
        BY <3>2 DEF Honest, NodesSane
      <4>2. covers[n] = 0 \/ covers[n] <= bytes[t].from
        BY <2>2, <4>1 DEF Trusted, MissesMean, Covered
      <4>3. bytes[t].from <= ranAt[t]
        BY <1>2, <3>2 DEF Honest, ChainSane
      <4>4. ranAt[t] \in Nat /\ covers[n] \in Nat /\ bytes[t].from \in Nat
        BY <1>2, ChainTyped, RivalsApart DEF Sound, Typed
      <4>5. QED
        BY <4>1, <4>2, <4>3, <4>4
    <3>3. QED
      BY <1>2, <3>1, <3>2 DEF Dead
  <2>3. Trusted /\ st[p].consumed => Dead(st[p].tx)
    BY <1>2 DEF Evidence
  <2>4. Trusted => Holds(st[p], answer)
    BY <2>2, <2>3 DEF Holds
  <2>5. answer \in {"Executed", "Failed", "Unknown", "expired", "inputConsumed"}
    OBVIOUS
  <2>6. Only(p, Conclude(st[p], answer))
    BY <2>1
  <2> HIDE DEF answer
  <2>7. /\ Word(p, Conclude(st[p], answer))
        /\ Conclude(st[p], answer).pc \in {"recover", "held", "settled"}
    BY <1>1, <1>2, <2>4, <2>5, ConcludeWord
  <2>8. QED
    BY <2>6, <2>7, ReadMoves DEF Reading
<1>5. QED
  BY <1>3, <1>4

-----------------------------------------------------------------------------
(* Journal writes and sends.                                                *)

(* The one process whose calls send is the only one that sends.             *)
LEMMA OneSends ==
  ASSUME Honest, Trusted, NEW p \in Procs, NEW q \in Procs,
         st[p].pc # "idle", st[q].pc # "idle", st[p].op \in Sending, st[q].op \in Sending
  PROVE  p = q
  BY DEF Honest, Word, Roles, Trusted, OneSender

(* A process on its way to a send is in a call that sends.                  *)
LEMMA AimersSend ==
  ASSUME Honest, NEW p \in Procs, st[p].pc \in Aims \cup {"consult"}
  PROVE  st[p].op \in Sending /\ st[p].pc # "idle"
<1>1. st[p].pc # "idle"
  BY DEF Aims
<1>2. QED
  BY <1>1 DEF Honest, Word, Roles, Aims, Sending

(* The write before the first send keeps the invariant.                     *)
LEMMA JournalSignedHonest ==
  ASSUME Sound, Honest, NEW p \in Procs, journalSigned(p)
  PROVE  Honest'
<1> DEFINE e == [st[p] EXCEPT !.pc = IF st[p].op = "submitVia" THEN "relay" ELSE "execute"]
           t == st[p].tx
<1>1. /\ st[p].pc = "journal" /\ st[p] \in Local /\ t \in Txs /\ Word(p, st[p])
  BY BusyHasTx DEF journalSigned, Honest
<1>2. /\ UNCHANGED <<epoch, ran, failed, ranAt, took, object, lamport, wire, bytes,
                     view, dropped, covers, handed, released>>
      /\ UNCHANGED network /\ handed \subseteq handed'
      /\ \A q \in Procs : st'[q] = IF q = p THEN e ELSE st[q]
      /\ \A u \in Txs : journal'[u] = IF u = t THEN "Signed" ELSE journal[u]
  BY DEF Sound, Typed, journalSigned, Move, network, chain, nodes
<1>3. /\ e.pc = IF st[p].op = "submitVia" THEN "relay" ELSE "execute"
      /\ e.tx = t /\ e.op = st[p].op /\ e.queue = st[p].queue
      /\ e.resent = st[p].resent /\ e.answer = st[p].answer /\ e.attempts = st[p].attempts
      /\ e.consumed = st[p].consumed /\ e.expired = st[p].expired
  BY <1>1 DEF Local
<1>4. st'[p] = e
  BY <1>2
<1> HIDE DEF e
<1>5. \A u : /\ Lapsed(u)' <=> Lapsed(u)
             /\ Dead(u)' <=> Dead(u)
  BY <1>2 DEF Lapsed, Dead, Spent
<1>6. Word(p, st[p])'
  <2>1. Knows(st[p])' /\ Roles(p, st[p])'
    BY <1>1, <1>2, <1>3, <1>4 DEF Word, Knows, Roles, Sending, First
  <2>2. Trusted => Evidence(p, st[p])'
    BY <1>1, <1>2, <1>3, <1>4, <1>5 DEF Word, Evidence, Reading
  <2>3. Trusted => Answers(st[p])'
    BY <1>1, <1>2, <1>3, <1>4, <1>5 DEF Word, Answers, Fresh
  <2>4. st[p].queue \in SUBSET Txs
    BY <1>1 DEF Local
  <2>5. Trusted /\ ~NoneResends => Serial(st[p])'
    BY <1>1, <1>2, <1>3, <1>4, <2>4 DEF Word, Serial, Answers
  <2>6. Alone /\ SentOnce => Stays(st[p])'
    BY <1>1, <1>2, <1>3, <1>4, <2>4 DEF Word, Stays, Open, UnresolvedTags
  <2>7. QED
    BY <2>1, <2>2, <2>3, <2>5, <2>6 DEF Word
<1>7. \A q \in Procs : Word(q, st[q])'
  BY <1>2, <1>6, OthersKeep
<1>8. ChainSane' /\ NodesSane'
  BY <1>2 DEF Honest, ChainSane, NodesSane
<1>9. Recorded'
  BY <1>1, <1>2 DEF Honest, Word, Knows, Recorded
<1>10. e.pc \in Aims /\ st[p].pc \in Aims
  BY <1>1, <1>3 DEF Aims
<1>11. ASSUME Trusted
       PROVE  ToldTruly'
  <2>1. JournalOk /\ ReleasedOk /\ InTurn
    BY <1>11 DEF Honest, ToldTruly
  <2>2. JournalOk'
    BY <1>1, <1>2, <1>3, <1>5, <2>1 DEF JournalOk
  <2>3. ReleasedOk'
    BY <1>1, <1>2, <1>3, <1>5, <1>10, <2>1 DEF ReleasedOk, Sound, Typed
  <2>4. InTurn'
    BY <1>2, <2>1 DEF InTurn
  <2>5. QED
    BY <2>2, <2>3, <2>4 DEF ToldTruly
<1>12. QED
  BY <1>7, <1>8, <1>9, <1>11 DEF Honest

(* So does the write that records an answer.                                *)
LEMMA JournalSettledHonest ==
  ASSUME Sound, Honest, NEW p \in Procs, journalSettled(p)
  PROVE  Honest'
<1> DEFINE e == [st[p] EXCEPT !.pc = "return"]
           t == st[p].tx
<1>1. /\ st[p].pc = "settled" /\ st[p] \in Local /\ t \in Txs /\ Word(p, st[p])
      /\ st[p].answer \in JournalTag /\ st[p].answer \notin {"none", "Absent"}
  <2>1. st[p] \in Good /\ st[p].pc = "settled" /\ t \in Txs /\ Word(p, st[p])
    BY BusyHasTx DEF journalSettled, Honest
  <2>2. st[p].answer \in JournalTag /\ st[p].answer \in Answer
    BY <2>1, GoodFields
  <2>3. "none" \notin JournalTag /\ "Absent" \notin Answer
    BY DEF JournalTag, UnresolvedTags, NotAppliedEvidence, Answer
  <2>4. QED
    BY <2>1, <2>2, <2>3 DEF Good
<1>2. /\ UNCHANGED <<epoch, ran, failed, ranAt, took, object, lamport, wire, bytes,
                     view, dropped, covers, handed, released>>
      /\ UNCHANGED network /\ handed \subseteq handed'
      /\ \A q \in Procs : st'[q] = IF q = p THEN e ELSE st[q]
      /\ \A u \in Txs : journal'[u] = IF u = t THEN st[p].answer ELSE journal[u]
  BY DEF Sound, Typed, journalSettled, Move, network, chain, nodes
<1>3. /\ e.pc = "return" /\ e.tx = t /\ e.op = st[p].op /\ e.queue = st[p].queue
      /\ e.resent = st[p].resent /\ e.answer = st[p].answer
      /\ e.consumed = st[p].consumed /\ e.expired = st[p].expired
  BY <1>1 DEF Local
<1>4. st'[p] = e
  BY <1>2
<1> HIDE DEF e
<1>5. \A u : /\ Lapsed(u)' <=> Lapsed(u)
             /\ Dead(u)' <=> Dead(u)
  BY <1>2 DEF Lapsed, Dead, Spent
<1>6. Word(p, st[p])'
  <2>1. Knows(st[p])' /\ Roles(p, st[p])'
    BY <1>1, <1>2, <1>3, <1>4 DEF Word, Knows, Roles
  <2>2. Trusted => Evidence(p, st[p])'
    BY <1>1, <1>2, <1>3, <1>4, <1>5 DEF Word, Evidence, Reading
  <2>3. Trusted => Answers(st[p])'
    BY <1>1, <1>2, <1>3, <1>4, <1>5 DEF Word, Answers, Fresh
  <2>4. st[p].queue \in SUBSET Txs
    BY <1>1 DEF Local
  <2>5. ASSUME Trusted, ~NoneResends
        PROVE  Serial(st[p])'
    <3>1. Serial(st[p]) /\ Answers(st[p])
      BY <1>1, <2>5 DEF Word
    <3>2. st[p].answer # "JournalError"
      BY <1>1, <3>1 DEF Answers
    <3>3. st[p].op \in {"sweep", "sweepResend"} => st[p].answer \notin {"refused", "Absent"}
      BY <1>1, <3>1 DEF Answers, First
    <3>4. QED
      BY <1>1, <1>2, <1>3, <1>4, <2>4, <3>1, <3>2, <3>3 DEF Serial
  <2>6. Alone /\ SentOnce => Stays(st[p])'
    BY <1>1, <1>2, <1>3, <1>4, <2>4 DEF Word, Stays, Open, UnresolvedTags
  <2>7. QED
    BY <2>1, <2>2, <2>3, <2>5, <2>6 DEF Word
<1>7. \A q \in Procs : Word(q, st[q])'
  BY <1>2, <1>6, OthersKeep
<1>8. ChainSane' /\ NodesSane'
  BY <1>2 DEF Honest, ChainSane, NodesSane
<1>9. Recorded'
  BY <1>1, <1>2 DEF Honest, Word, Knows, Recorded
<1>10. e.pc \notin Aims \cup {"consult"}
  BY <1>3 DEF Aims
<1>11. ASSUME Trusted
       PROVE  ToldTruly'
  <2>1. JournalOk /\ ReleasedOk /\ InTurn
    BY <1>11 DEF Honest, ToldTruly
  <2>2. Answers(st[p])
    BY <1>1, <1>11 DEF Word
  <2>3. st[p].answer = "refused" => \A q \in Procs \ {p} : st[q].pc \notin Aims
    BY <1>1, <1>11, <2>2, AimersSend, OneSends DEF Answers, First, Sending
  <2>4. JournalOk'
    <3> DEFINE Right(u) ==
          /\ journal'[u] = "Executed" => u \in ran' \ failed'
          /\ journal'[u] = "Failed" => u \in failed'
          /\ journal'[u] \in {"expired", "inputConsumed"} => Dead(u)'
          /\ journal'[u] = "refused" =>
               \/ Dead(u)'
               \/ u \notin wire' /\ \A q \in Procs : st'[q].tx = u => st'[q].pc \notin Aims
    <3>1. \A u \in Txs : u # t => Right(u)
      BY <1>1, <1>2, <1>3, <1>5, <1>10, <2>1 DEF JournalOk
    <3>2. ASSUME NEW u \in Txs, u = t
          PROVE  Right(u)
      BY <1>1, <1>2, <1>3, <1>5, <1>10, <2>2, <2>3, <3>2 DEF Answers
    <3>3. QED
      BY <3>1, <3>2 DEF JournalOk
  <2>5. ASSUME ~NoneResends, t \in released, journal[t] \in {"refused", "Absent"}
        PROVE  FALSE
    <3>1. Serial(st[p]) /\ Roles(p, st[p])
      BY <1>1, <1>11, <2>5 DEF Word
    <3>2. QED
      BY <1>1, <2>5, <3>1 DEF Serial, Roles, Operations, First, Reconciling, UnresolvedTags
  <2>6. ReleasedOk'
    BY <1>1, <1>2, <1>3, <1>5, <1>10, <2>1, <2>5 DEF ReleasedOk, Sound, Typed
  <2>7. InTurn'
    BY <1>2, <2>1 DEF InTurn
  <2>8. QED
    BY <2>4, <2>6, <2>7 DEF ToldTruly
<1>12. QED
  BY <1>7, <1>8, <1>9, <1>11 DEF Honest

(* So does a send, whether or not it reaches the network: a call that was   *)
(* refused, or has not sent yet, is not this one.                           *)
LEMMA SendHonest ==
  ASSUME Sound, Honest, NEW p \in Procs, NEW from \in {"execute", "relay"},
         NEW to, to = IF from = "execute" THEN "answer" ELSE "reply",
         Send(p, from, to)
  PROVE  Honest'
<1> DEFINE t == st[p].tx
           e(at, reached) == [st[p] EXCEPT !.pc = at, !.attempts = @ + 1, !.reached = reached]
<1>1. PICK reached \in BOOLEAN :
        /\ st[p].pc = from
        /\ wire' = IF reached THEN wire \cup {t} ELSE wire
        /\ Move(p, e(to, reached))
        /\ UNCHANGED <<chain, bytes, nodes, journal, handed, released>>
  BY DEF Send
<1>2. /\ st[p] \in Local /\ t \in Txs /\ Word(p, st[p])
      /\ st[p].attempts \in Nat /\ st[p].pc # "idle"
  <2>1. st[p].pc # "idle"
    BY <1>1
  <2>2. st[p] \in Local /\ st[p].tx \in Txs
    BY <2>1, BusyHasTx
  <2>3. st[p].attempts \in Nat
    BY <2>2, CountsAreNatural DEF Local
  <2>4. QED
    BY <2>1, <2>2, <2>3 DEF Honest
<1> DEFINE r == e(to, reached)
<1>3. /\ r.pc = to /\ r.attempts = st[p].attempts + 1 /\ r.reached = reached
      /\ r.tx = t /\ r.op = st[p].op /\ r.queue = st[p].queue
      /\ r.resent = st[p].resent /\ r.answer = st[p].answer
      /\ r.consumed = st[p].consumed /\ r.expired = st[p].expired
  BY <1>2 DEF Local
<1>4. /\ UNCHANGED <<epoch, ran, failed, ranAt, took, object, lamport, bytes,
                     view, dropped, covers, journal, handed, released>>
      /\ \A q \in Procs : st'[q] = IF q = p THEN r ELSE st[q]
  BY <1>1 DEF Sound, Typed, Move, chain, nodes
<1> HIDE DEF r
<1>5. \A u : /\ Lapsed(u)' <=> Lapsed(u)
             /\ Dead(u)' <=> Dead(u)
             /\ Open(u)' <=> Open(u)
  BY <1>4 DEF Lapsed, Dead, Spent, Open
<1>6. /\ from = "execute" => to = "answer"
      /\ from = "relay" => to = "reply"
      /\ st[p].pc \in {"execute", "relay"} /\ st[p].pc \in Aims
      /\ st[p].op \in Sending
  BY <1>1, AimersSend DEF Aims
<1>7. Word(p, st[p])'
  <2>1. st'[p] = r
    BY <1>4
  <2>2. Knows(st[p])' /\ Roles(p, st[p])'
    BY <1>1, <1>2, <1>3, <1>4, <1>6, <2>1 DEF Word, Knows, Roles, First
  <2>3. Trusted => Evidence(p, st[p])'
    BY <1>1, <1>2, <1>3, <1>4, <1>5, <1>6, <2>1 DEF Word, Evidence, Reading
  <2>4. Trusted => Answers(st[p])'
    BY <1>1, <1>2, <1>3, <1>4, <1>5, <1>6, <2>1 DEF Word, Answers, Fresh
  <2>5. Trusted /\ ~NoneResends => Serial(st[p])'
    BY <1>1, <1>2, <1>3, <1>4, <1>6, <2>1 DEF Word, Serial
  <2>6. Alone /\ SentOnce => Stays(st[p])'
    BY <1>1, <1>2, <1>3, <1>4, <1>5, <1>6, <2>1 DEF Word, Stays
  <2>7. QED
    BY <2>2, <2>3, <2>4, <2>5, <2>6 DEF Word
<1>8. ASSUME NEW q \in Procs, q # p
      PROVE  Word(q, st[q])'
  <2>1. st'[q] = st[q] /\ Word(q, st[q])
    BY <1>4, <1>8 DEF Honest
  <2>2. CASE st[q].pc # "idle"
    <3>1. Trusted => st[q].op \notin Sending
      BY <1>2, <1>6, <1>8, <2>2, OneSends
    <3>2. Knows(st[q])' /\ Roles(q, st[q])'
      BY <1>4, <2>1, <2>2 DEF Word, Knows, Roles
    <3>3. Trusted => Evidence(q, st[q])'
      BY <1>4, <1>5, <2>1, <2>2 DEF Word, Evidence
    <3>4. Trusted => Answers(st[q])'
      BY <1>4, <1>5, <2>1, <2>2, <3>1 DEF Word, Answers, Fresh, First, Sending
    <3>5. Trusted /\ ~NoneResends => Serial(st[q])'
      BY <1>4, <2>1, <2>2 DEF Word, Serial
    <3>6. Alone /\ SentOnce => Stays(st[q])'
      BY <1>4, <1>5, <2>1, <2>2 DEF Word, Stays
    <3>7. QED
      BY <3>2, <3>3, <3>4, <3>5, <3>6 DEF Word
  <2>3. QED
    BY <2>1, <2>2 DEF Word
<1>9. ChainSane' /\ NodesSane'
  BY <1>1, <1>4 DEF Honest, ChainSane, NodesSane
<1>10. Recorded'
  BY <1>1, <1>2, <1>4 DEF Honest, Word, Knows, Recorded
<1>11. ASSUME Trusted
       PROVE  ToldTruly'
  <2>1. JournalOk /\ ReleasedOk /\ InTurn
    BY <1>11 DEF Honest, ToldTruly
  <2>2. r.pc \in Aims \cup {"reply"} /\ r.pc # "consult"
    BY <1>1, <1>3 DEF Aims
  <2>3. JournalOk'
    BY <1>1, <1>2, <1>3, <1>4, <1>5, <1>6, <2>1 DEF JournalOk
  <2>4. ReleasedOk'
    BY <1>1, <1>2, <1>3, <1>4, <1>5, <1>6, <2>1, <2>2 DEF ReleasedOk
  <2>5. InTurn'
    BY <1>4, <2>1 DEF InTurn
  <2>6. QED
    BY <2>3, <2>4, <2>5 DEF ToldTruly
<1>12. QED
  BY <1>7, <1>8, <1>9, <1>10, <1>11 DEF Honest

-----------------------------------------------------------------------------
(* Answers of a send.                                                       *)

(* What is known of a process in the middle of a call.                      *)
LEMMA Busy ==
  ASSUME Sound, Honest, NEW p \in Procs, st[p].pc # "idle"
  PROVE  /\ st[p] \in Local /\ st[p].tx \in Txs /\ Word(p, st[p])
         /\ Knows(st[p]) /\ Roles(p, st[p])
         /\ Trusted => Evidence(p, st[p]) /\ Answers(st[p])
  BY BusyHasTx DEF Honest, Word

(* An answer that settles nothing asks the chain.                           *)
LEMMA RecoverHonest ==
  ASSUME Sound, Honest, NEW p \in Procs,
         lockConflict(p) \/ unanswered(p) \/ (refused(p) /\ Only(p, Recover(st[p])))
  PROVE  Honest'
<1>1. st[p].pc \in {"answer", "reply"} /\ st[p].pc # "idle"
  BY DEF lockConflict, unanswered, refused
<1>2. st[p] \in Local /\ Word(p, st[p])
  BY <1>1, Busy
<1> DEFINE s == [st[p] EXCEPT !.rechecks = LockConflictRechecks]
<1>3. s.tx = st[p].tx /\ s.queue = st[p].queue /\ s.resent = st[p].resent /\ s.op = st[p].op
  BY <1>2 DEF Local
<1>4. Only(p, Recover(s)) \/ Only(p, Recover(st[p]))
  BY DEF lockConflict, unanswered, refused
<1> HIDE DEF s
<1>5. Word(p, Recover(s)) /\ Word(p, Recover(st[p]))
  BY <1>1, <1>2, <1>3, RecoverWord
<1>6. Recover(s).pc = "recover" /\ Recover(st[p]).pc = "recover"
  BY RecoverFields
<1>7. QED
  BY <1>4, <1>5, <1>6, ReadMoves DEF Reading

(* A call that ends keeps the invariant when its answer holds.              *)
LEMMA EndsMoves ==
  ASSUME Sound, Honest, NEW p \in Procs,
         NEW pc \in {"held", "settled", "return"}, NEW answer \in Answer,
         Only(p, Ends(st[p], pc, answer)), Word(p, Ends(st[p], pc, answer))
  PROVE  Honest'
<1>1. Ends(st[p], pc, answer).pc = pc
  BY DEF Ends, Idle
<1>2. QED
  BY <1>1, ReadMoves

(* A receipt is what the chain did.                                         *)
LEMMA AnsweredHonest ==
  ASSUME Sound, Honest, NEW p \in Procs, answered(p)
  PROVE  Honest'
<1>1. /\ st[p].pc \in {"answer", "reply"} /\ st[p].tx \in ran
      /\ Only(p, Ends(st[p], "settled", Receipt(st[p].tx)))
  BY DEF answered
<1>2. st[p] \in Local /\ st[p].tx \in Txs /\ Word(p, st[p]) /\ Roles(p, st[p])
  BY <1>1, Busy
<1>3. /\ Receipt(st[p].tx) \in {"Executed", "Failed"}
      /\ Receipt(st[p].tx) \in Answer \ {"none"}
  BY DEF Receipt, Answer
<1>4. Holds(st[p], Receipt(st[p].tx))
  BY <1>1 DEF Holds, Receipt
<1>5. st[p].op \notin Reconciling /\ (Alone /\ SentOnce => Open(st[p].tx))
  BY <1>1, <1>2 DEF Roles, Word, Stays, Reconciling, Sending
<1>6. Word(p, Ends(st[p], "settled", Receipt(st[p].tx)))
  BY <1>1, <1>2, <1>3, <1>4, <1>5, EndsWord
<1>7. QED
  BY <1>1, <1>3, <1>6, EndsMoves

(* A refusal ends the call only when nothing of the call, and of no call    *)
(* before it, can be on the wire.                                           *)
LEMMA RefusedHonest ==
  ASSUME Sound, Honest, NEW p \in Procs, refused(p)
  PROVE  Honest'
<1> DEFINE first == (~st[p].resent /\ st[p].attempts = 1) \/ st[p].pc = "reply"
<1>1. /\ st[p].pc \in {"answer", "reply"} /\ st[p].pc # "idle" /\ ~st[p].reached
  BY DEF refused
<1>2. st[p] \in Local /\ st[p].tx \in Txs /\ Word(p, st[p]) /\ Roles(p, st[p])
  BY <1>1, Busy
<1>3. CASE ~first
  <2>1. Only(p, Recover(st[p]))
    BY <1>3 DEF refused
  <2>2. QED
    BY <2>1, RecoverHonest
<1>4. CASE first
  <2>1. Only(p, Ends(st[p], "settled", "refused"))
    BY <1>4 DEF refused
  <2>2. st[p].op \in First
    BY <1>1, <1>2, <1>4 DEF Roles, First
  <2>3. Trusted => st[p].tx \notin wire
    <3>1. Fresh(st[p])
      BY <1>1, <1>2, <1>4, <2>2 DEF Roles, Fresh
    <3>2. QED
      BY <1>1, <3>1, Busy DEF Answers
  <2>4. Trusted => Holds(st[p], "refused")
    BY <2>2, <2>3 DEF Holds
  <2>5. st[p].op \notin Reconciling /\ (Alone /\ SentOnce => Open(st[p].tx))
    BY <1>1, <1>2, <2>2 DEF Word, Stays, Reconciling, First
  <2>6. "refused" \in Answer \ {"none"}
    BY DEF Answer, NotAppliedEvidence
  <2>7. Word(p, Ends(st[p], "settled", "refused"))
    BY <1>1, <1>2, <2>4, <2>5, <2>6, EndsWord
  <2>8. QED
    BY <2>1, <2>6, <2>7, EndsMoves
<1>5. QED
  BY <1>3, <1>4

(* When the write fails nothing was sent.                                   *)
LEMMA JournalSignedFailsHonest ==
  ASSUME Sound, Honest, NEW p \in Procs, journalSignedFails(p)
  PROVE  Honest'
<1>1. /\ st[p].pc = "journal" /\ "journal" \in FaultKinds
      /\ Only(p, Ends(st[p], "return", "JournalError"))
  BY DEF journalSignedFails, Fault
<1>2. st[p] \in Local /\ st[p].tx \in Txs /\ Word(p, st[p]) /\ Roles(p, st[p])
  BY <1>1, Busy
<1>3. st[p].op \in Sending /\ (st[p].op = "sweepResend" => st[p].resent)
  BY <1>1, <1>2 DEF Roles, First
<1>4. Trusted /\ st[p].op \in First => st[p].tx \notin wire
  BY <1>1, Busy DEF Answers, Fresh
<1>5. Trusted => Holds(st[p], "JournalError")
  BY <1>1, <1>3, <1>4 DEF Holds
<1>6. Trusted /\ ~NoneResends => (st[p].op \in First => journal[st[p].tx] = "Absent")
  BY <1>1, <1>2 DEF Word, Serial
<1>7. "JournalError" \in Answer \ {"none"}
  BY DEF Answer
<1>8. Word(p, Ends(st[p], "return", "JournalError"))
  BY <1>1, <1>2, <1>3, <1>5, <1>6, <1>7, EndsWord
<1>9. QED
  BY <1>1, <1>7, <1>8, EndsMoves

(* A retry sends the same bytes for the same call.                          *)
LEMMA RetriedHonest ==
  ASSUME Sound, Honest, NEW p \in Procs, retried(p)
  PROVE  Honest'
<1> DEFINE e == [st[p] EXCEPT !.pc = "execute"]
<1>1. st[p].pc = "answer" /\ Only(p, e)
  BY DEF retried
<1>2. /\ st[p] \in Local /\ Word(p, st[p]) /\ Roles(p, st[p])
      /\ Trusted => Evidence(p, st[p]) /\ Answers(st[p])
  BY <1>1, Busy
<1>3. /\ e.pc = "execute" /\ e.tx = st[p].tx /\ e.op = st[p].op /\ e.queue = st[p].queue
      /\ e.resent = st[p].resent /\ e.answer = st[p].answer /\ e.attempts = st[p].attempts
      /\ e.consumed = st[p].consumed /\ e.expired = st[p].expired
  BY <1>2 DEF Local
<1> HIDE DEF e
<1>4. Knows(e) /\ Roles(p, e)
  BY <1>1, <1>2, <1>3 DEF Word, Knows, Roles
<1>5. Trusted => Evidence(p, e)
  BY <1>1, <1>2, <1>3 DEF Evidence, Reading
<1>6. Trusted => Answers(e)
  BY <1>1, <1>2, <1>3 DEF Answers, Fresh, Roles
<1>7. Trusted /\ ~NoneResends => Serial(e)
  BY <1>1, <1>2, <1>3 DEF Word, Serial
<1>8. Alone /\ SentOnce => Stays(e)
  BY <1>1, <1>2, <1>3 DEF Word, Stays
<1>9. Word(p, e)
  BY <1>4, <1>5, <1>6, <1>7, <1>8 DEF Word
<1>10. QED
  BY <1>1, <1>3, <1>9, OnlyKeeps DEF Aims

-----------------------------------------------------------------------------
(* Re-submitting.                                                           *)

(* Re-sent bytes go to the journal first, and are never a first send.       *)
LEMMA ResendWord ==
  ASSUME Sound, Honest, NEW p \in Procs, st[p].pc = "window",
         Only(p, [st[p] EXCEPT !.pc = "journal", !.resent = TRUE, !.attempts = 0])
  PROVE  Honest'
<1> DEFINE e == [st[p] EXCEPT !.pc = "journal", !.resent = TRUE, !.attempts = 0]
<1>1. /\ st[p] \in Local /\ Word(p, st[p]) /\ Roles(p, st[p])
      /\ Trusted => Evidence(p, st[p]) /\ Answers(st[p])
  BY Busy
<1>2. /\ e.pc = "journal" /\ e.tx = st[p].tx /\ e.op = st[p].op /\ e.queue = st[p].queue
      /\ e.resent = TRUE /\ e.answer = st[p].answer /\ e.attempts = 0
      /\ e.consumed = st[p].consumed /\ e.expired = st[p].expired
  BY <1>1 DEF Local
<1>3. Only(p, e)
  OBVIOUS
<1> HIDE DEF e
<1>4. Knows(e) /\ Roles(p, e)
  BY <1>1, <1>2 DEF Word, Knows, Roles, Sending, First
<1>5. Trusted => Evidence(p, e)
  BY <1>1, <1>2 DEF Evidence, Reading
<1>6. Trusted => Answers(e)
  BY <1>1, <1>2 DEF Answers, Fresh, Roles, First
<1>7. Trusted /\ ~NoneResends => Serial(e)
  BY <1>1, <1>2 DEF Word, Serial, Roles, First, Reconciling
<1>8. Alone /\ SentOnce => Stays(e)
  BY <1>1, <1>2 DEF Word, Stays
<1>9. Word(p, e)
  BY <1>4, <1>5, <1>6, <1>7, <1>8 DEF Word
<1>10. QED
  BY <1>2, <1>3, <1>9, OnlyKeeps DEF Aims

(* resend sends, or reconciles what it must not send.                       *)
LEMMA ResendHonest ==
  ASSUME Sound, Honest, NEW p \in Procs, resend(p) \/ resendFails(p)
  PROVE  Honest'
<1> DEFINE e == [st[p] EXCEPT !.pc = "journal", !.resent = TRUE, !.attempts = 0]
<1>1. st[p].pc = "window" /\ (Only(p, Recover(st[p])) \/ Only(p, e))
  BY DEF resend, resendFails
<1>2. st[p] \in Local /\ Word(p, st[p])
  BY <1>1, Busy
<1>3. CASE Only(p, Recover(st[p]))
  <2>1. Word(p, Recover(st[p])) /\ Recover(st[p]).pc = "recover"
    BY <1>1, <1>2, RecoverWord, RecoverFields
  <2>2. QED
    BY <1>3, <2>1, ReadMoves DEF Reading
<1>4. CASE Only(p, e)
  BY <1>1, <1>4, ResendWord
<1>5. QED
  BY <1>1, <1>3, <1>4

(* resubmit answers from the journal, and the journal is right.             *)
LEMMA ConsultHonest ==
  ASSUME Sound, Honest, NEW p \in Procs, consult(p) \/ consultFails(p)
  PROVE  Honest'
<1> DEFINE held == journal[st[p].tx]
           over == [st[p] EXCEPT !.op = "reconcile"]
           e == [st[p] EXCEPT !.pc = "window"]
<1>1. /\ st[p].pc = "consult"
      /\ \/ held \in {"Executed", "Failed"} /\ Only(p, Recover(over))
         \/ held \in NotAppliedEvidence /\ Only(p, Ends(st[p], "return", held))
         \/ held \notin {"Executed", "Failed"} \cup NotAppliedEvidence /\ Only(p, e)
         \/ "journal" \in FaultKinds /\ Only(p, Ends(st[p], "return", "JournalError"))
  BY DEF consult, consultFails, Fault
<1>2. /\ st[p] \in Local /\ st[p].tx \in Txs /\ Word(p, st[p]) /\ Roles(p, st[p])
      /\ Trusted => Evidence(p, st[p]) /\ Answers(st[p])
  BY <1>1, Busy
<1>3. st[p].op = "resubmit" /\ ~st[p].resent
  BY <1>1, <1>2 DEF Roles
<1>4. CASE Only(p, Recover(over))
  <2>1. over.tx = st[p].tx /\ over.queue = st[p].queue /\ over.resent = st[p].resent
        /\ over.op = "reconcile"
    BY <1>2 DEF Local
  <2> HIDE DEF over
  <2>2. Word(p, Recover(over)) /\ Recover(over).pc = "recover"
    BY <1>1, <1>2, <2>1, RecoverWord, RecoverFields
  <2>3. QED
    BY <1>4, <2>2, ReadMoves DEF Reading
<1>5. CASE held \in NotAppliedEvidence /\ Only(p, Ends(st[p], "return", held))
  <2>1. Trusted => Holds(st[p], held)
    BY <1>2, <1>3, <1>5 DEF Holds, Honest, ToldTruly, JournalOk, NotAppliedEvidence, First
  <2>2. held \in Answer \ {"none"} /\ held # "JournalError"
    BY <1>5 DEF Answer, NotAppliedEvidence
  <2>3. Word(p, Ends(st[p], "return", held))
    BY <1>1, <1>2, <1>3, <2>1, <2>2, EndsWord
  <2>4. QED
    BY <1>5, <2>2, <2>3, EndsMoves
<1>6. CASE held \notin {"Executed", "Failed"} \cup NotAppliedEvidence /\ Only(p, e)
  <2>1. /\ e.pc = "window" /\ e.tx = st[p].tx /\ e.op = st[p].op /\ e.queue = st[p].queue
        /\ e.resent = st[p].resent /\ e.answer = st[p].answer
        /\ e.consumed = st[p].consumed /\ e.expired = st[p].expired
    BY <1>2 DEF Local
  <2> HIDE DEF e
  <2>2. Open(st[p].tx)
    BY <1>2, <1>6 DEF Open, Sound, Typed, JournalTag
  <2>3. Knows(e) /\ Roles(p, e)
    BY <1>1, <1>2, <1>3, <2>1 DEF Word, Knows, Roles, First
  <2>4. Trusted => Evidence(p, e)
    BY <1>1, <1>2, <2>1 DEF Evidence, Reading
  <2>5. Trusted => Answers(e)
    BY <1>1, <1>2, <1>3, <2>1 DEF Answers, Fresh, First
  <2>6. Trusted /\ ~NoneResends => Serial(e)
    BY <1>1, <1>2, <1>3, <2>1 DEF Word, Serial, First, Reconciling
  <2>7. Alone /\ SentOnce => Stays(e)
    BY <1>1, <1>2, <2>1, <2>2 DEF Word, Stays
  <2>8. Word(p, e)
    BY <2>3, <2>4, <2>5, <2>6, <2>7 DEF Word
  <2>9. journal[e.tx] # "refused"
    BY <1>6, <2>1 DEF NotAppliedEvidence
  <2>10. QED
    BY <1>1, <1>6, <2>1, <2>8, <2>9, OnlyKeeps
<1>7. CASE "journal" \in FaultKinds /\ Only(p, Ends(st[p], "return", "JournalError"))
  <2>1. Holds(st[p], "JournalError") /\ st[p].op \notin First
    BY <1>3, <1>7 DEF Holds, Sending, First
  <2>2. "JournalError" \in Answer \ {"none"}
    BY DEF Answer
  <2>3. Word(p, Ends(st[p], "return", "JournalError"))
    BY <1>1, <1>2, <1>3, <2>1, <2>2, EndsWord
  <2>4. QED
    BY <1>7, <2>2, <2>3, EndsMoves
<1>8. QED
  BY <1>1, <1>4, <1>5, <1>6, <1>7

-----------------------------------------------------------------------------
(* Recording and returning.                                                 *)

(* recordIfHeld, and a write of the answer that fails.                      *)
LEMMA RecordHonest ==
  ASSUME Sound, Honest, NEW p \in Procs,
         recordIfHeld(p) \/ recordIfHeldFails(p) \/ journalSettledFails(p)
  PROVE  Honest'
<1> DEFINE to(pc) == [st[p] EXCEPT !.pc = pc]
<1>1. /\ st[p].pc \in {"held", "settled"}
      /\ \/ /\ st[p].pc = "held" /\ journal[st[p].tx] \in UnresolvedTags
            /\ Only(p, to("settled"))
         \/ st[p].pc = "held" /\ Only(p, to("return"))
         \/ st[p].pc = "settled" /\ "settled" \in FaultKinds /\ Only(p, to("return"))
  BY DEF recordIfHeld, recordIfHeldFails, journalSettledFails, Fault
<1>2. /\ st[p] \in Local /\ st[p].tx \in Txs /\ Word(p, st[p]) /\ Roles(p, st[p])
      /\ Trusted => Evidence(p, st[p]) /\ Answers(st[p])
  BY <1>1, Busy
<1>3. st[p].answer # "none"
  <2>1. st[p] \in Good
    BY DEF Sound, Typed
  <2>2. st[p].answer \in JournalTag
    BY <1>1, <2>1 DEF Good, Promises
  <2>3. QED
    BY <2>2 DEF JournalTag, UnresolvedTags, NotAppliedEvidence
<1>4. ASSUME NEW e, NEW at \in {"settled", "return"}, e.pc = at, Only(p, e),
             st[p].pc = "held" /\ at = "settled" => journal[st[p].tx] \in UnresolvedTags,
             st[p].pc = "settled" => at = "return" /\ "settled" \in FaultKinds,
             e.tx = st[p].tx, e.op = st[p].op, e.queue = st[p].queue,
             e.resent = st[p].resent, e.answer = st[p].answer,
             e.consumed = st[p].consumed, e.expired = st[p].expired
      PROVE  Honest'
  <2>1. Knows(e) /\ Roles(p, e)
    BY <1>1, <1>2, <1>3, <1>4 DEF Word, Knows, Roles
  <2>2. Trusted => Evidence(p, e)
    BY <1>1, <1>2, <1>4 DEF Evidence, Reading
  <2>3. Trusted => Answers(e)
    BY <1>1, <1>2, <1>4 DEF Answers, Fresh
  <2>4. ASSUME Trusted, ~NoneResends
        PROVE  Serial(e)
    <3>1. Serial(st[p]) /\ "settled" \notin FaultKinds
      BY <1>1, <1>2, <2>4 DEF Word, Trusted, RefusalsLast
    <3>2. QED
      BY <1>1, <1>2, <1>4, <2>4, <3>1 DEF Serial, Answers
  <2>5. Alone /\ SentOnce => Stays(e)
    BY <1>1, <1>2, <1>4 DEF Word, Stays, Roles, Reconciling, Open
  <2>6. Word(p, e)
    BY <2>1, <2>2, <2>3, <2>4, <2>5 DEF Word
  <2>7. QED
    BY <1>4, <2>6, ReadMoves DEF Reading
<1>5. \A at \in {"settled", "return"} :
        /\ to(at).pc = at /\ to(at).tx = st[p].tx /\ to(at).op = st[p].op
        /\ to(at).queue = st[p].queue /\ to(at).resent = st[p].resent
        /\ to(at).answer = st[p].answer /\ to(at).consumed = st[p].consumed
        /\ to(at).expired = st[p].expired
  BY <1>2 DEF Local
<1> HIDE DEF to
<1>6. CASE Only(p, to("settled")) /\ st[p].pc = "held" /\ journal[st[p].tx] \in UnresolvedTags
  BY <1>4, <1>5, <1>6
<1>7. CASE Only(p, to("return")) /\ (st[p].pc = "settled" => "settled" \in FaultKinds)
  BY <1>4, <1>5, <1>7
<1>8. QED
  BY <1>1, <1>6, <1>7

(* The next entry of a sweep is one of its queue, and is taken off it.      *)
LEMMA EntryFields ==
  ASSUME NEW r, NEW e \in NextEntry(r), e # Idle
  PROVE  /\ e.pc = "recover" /\ e.op = r.op /\ e.tx \in r.queue
         /\ e.queue = r.queue \ {e.tx}
         /\ e.resent = FALSE /\ e.answer = "none" /\ e.expired = FALSE /\ e.consumed = FALSE
<1>1. PICK t \in r.queue :
        e = [Idle EXCEPT !.pc = "recover", !.op = r.op, !.tx = t, !.queue = r.queue \ {t}]
  BY DEF NextEntry
<1>2. QED
  BY <1>1 DEF Idle

(* What a caller is told to forget cannot run: the answer was a proof, or   *)
(* nothing was ever sent and nobody is about to.                            *)
LEMMA ReturnHonest ==
  ASSUME Sound, Honest, NEW p \in Procs, Return(p)
  PROVE  Honest'
<1> DEFINE told == Told(st[p])
           e == [st[p] EXCEPT !.pc = "window", !.resent = TRUE]
<1>1. /\ st[p].pc = "return"
      /\ UNCHANGED <<network, journal, handed>>
      /\ released' = IF outcome(told) = "not_applied" /\ st[p].op \in RetriedAfter
                       THEN released \cup {st[p].tx} ELSE released
      /\ IF st[p].op = "sweepResend" /\ ~st[p].resent /\ told = "Unknown"
           THEN Move(p, e) ELSE \E r \in NextEntry(st[p]) : Move(p, r)
  BY DEF Return
<1>2. /\ st[p] \in Local /\ st[p].tx \in Txs /\ Word(p, st[p]) /\ Roles(p, st[p])
      /\ Knows(st[p])
      /\ Trusted => Evidence(p, st[p]) /\ Answers(st[p])
  BY <1>1, Busy
<1>3. CASE st[p].op = "sweepResend" /\ ~st[p].resent /\ told = "Unknown"
  <2>1. st[p].answer = "Unknown"
    BY <1>2, <1>3 DEF Roles, Told
  <2>2. Only(p, e)
    <3>1. released' = released
      BY <1>1, <1>3 DEF outcome
    <3>2. QED
      BY <1>1, <1>3, <3>1 DEF Only
  <2>3. /\ e.pc = "window" /\ e.tx = st[p].tx /\ e.op = st[p].op /\ e.queue = st[p].queue
        /\ e.resent = TRUE /\ e.answer = "Unknown"
        /\ e.consumed = st[p].consumed /\ e.expired = st[p].expired
    BY <1>2, <2>1 DEF Local
  <2> HIDE DEF e
  <2>4. Knows(e) /\ Roles(p, e)
    BY <1>1, <1>2, <1>3, <2>3 DEF Knows, Roles, First
  <2>5. Trusted => Evidence(p, e)
    BY <1>1, <1>2, <2>3 DEF Evidence, Reading
  <2>6. Trusted => Answers(e)
    BY <1>3, <2>3 DEF Answers, Fresh, First
  <2>7. Trusted /\ ~NoneResends => Serial(e)
    BY <1>1, <1>2, <1>3, <2>3 DEF Word, Serial, First, Reconciling
  <2>8. Alone /\ SentOnce => Stays(e)
    BY <1>1, <1>2, <1>3, <2>1, <2>3 DEF Word, Stays
  <2>9. Word(p, e)
    BY <2>4, <2>5, <2>6, <2>7, <2>8 DEF Word
  <2>10. Trusted => journal[e.tx] # "refused" /\ (e.tx \in released => Dead(e.tx))
    <3>1. ~NoneResends
      BY <1>2, <1>3 DEF Roles, Sending, NoneResends
    <3>2. Trusted => journal[e.tx] \notin {"refused", "Absent"}
      BY <1>1, <1>2, <1>3, <2>3, <3>1 DEF Word, Serial
    <3>3. QED
      BY <3>1, <3>2 DEF Honest, ToldTruly, ReleasedOk
  <2>11. QED
    BY <2>2, <2>3, <2>9, <2>10, OnlyKeeps
<1>4. CASE ~(st[p].op = "sweepResend" /\ ~st[p].resent /\ told = "Unknown")
  <2>1. PICK r \in NextEntry(st[p]) : Move(p, r)
    BY <1>1, <1>4
  <2>2. /\ UNCHANGED <<epoch, ran, failed, ranAt, took, object, lamport, wire, bytes,
                       view, dropped, covers, journal, handed>>
        /\ UNCHANGED network /\ handed \subseteq handed'
        /\ \A q \in Procs : st'[q] = IF q = p THEN r ELSE st[q]
    BY <1>1, <2>1 DEF Sound, Typed, Move, network, chain, nodes
  <2>3. r = Idle \/ /\ r.pc = "recover" /\ r.op = st[p].op /\ r.tx \in st[p].queue
                    /\ r.queue = st[p].queue \ {r.tx} /\ r.resent = FALSE
                    /\ r.answer = "none" /\ r.expired = FALSE /\ r.consumed = FALSE
    BY EntryFields
  <2>4. r.pc \in {"idle", "recover"}
    BY <2>3 DEF Idle
  <2>5. Word(p, st[p])'
    <3>0. st'[p] = r
      BY <2>2
    <3>1. CASE r.pc = "idle"
      BY <3>0, <3>1 DEF Word
    <3>2. CASE r.pc # "idle"
      <4>1. /\ r.pc = "recover" /\ r.op = st[p].op /\ r.tx \in st[p].queue
            /\ r.queue = st[p].queue \ {r.tx} /\ r.resent = FALSE
            /\ r.answer = "none" /\ r.expired = FALSE /\ r.consumed = FALSE
            /\ st[p].op \in {"sweep", "sweepResend"}
        BY <1>2, <2>3, <3>2 DEF Idle, Roles
      <4>2. Knows(st[p])' /\ Roles(p, st[p])'
        BY <1>2, <2>2, <3>0, <4>1 DEF Knows, Roles, First, Reconciling
      <4>3. Trusted => Evidence(p, st[p])'
        BY <3>0, <4>1 DEF Evidence, Reading
      <4>4. Trusted => Answers(st[p])'
        BY <3>0, <4>1 DEF Answers, Fresh, First
      <4>5. Trusted /\ ~NoneResends => Serial(st[p])'
        BY <1>1, <1>2, <2>2, <3>0, <4>1 DEF Word, Serial, First, Reconciling
      <4>6. Alone /\ SentOnce => Stays(st[p])'
        BY <1>1, <1>2, <2>2, <3>0, <4>1 DEF Word, Stays, Open
      <4>7. QED
        BY <4>2, <4>3, <4>4, <4>5, <4>6 DEF Word
    <3>3. QED
      BY <3>1, <3>2
  <2>6. \A q \in Procs : Word(q, st[q])'
    BY <2>2, <2>5, OthersKeep
  <2>7. released' = released \/ released' = released \cup {st[p].tx}
    BY <1>1
  <2>8. ChainSane' /\ NodesSane' /\ Recorded'
    BY <1>2, <2>2, <2>7 DEF Honest, ChainSane, NodesSane, Recorded, Knows
  <2>9. ASSUME Trusted
        PROVE  ToldTruly'
    <3>1. JournalOk /\ ReleasedOk /\ InTurn
      BY <2>9 DEF Honest, ToldTruly
    <3>2. \A t : Dead(t)' <=> Dead(t)
      BY <2>2 DEF Lapsed, Dead, Spent
    <3>3. r.pc \notin Aims \cup {"consult"}
      BY <2>4 DEF Aims
    <3>4. JournalOk'
      BY <2>2, <3>1, <3>2, <3>3 DEF JournalOk
    <3>5. ASSUME outcome(told) = "not_applied", st[p].op \in RetriedAfter
          PROVE  \/ Dead(st[p].tx)
                 \/ /\ st[p].tx \notin wire
                    /\ \A q \in Procs \ {p} : st[q].pc \notin Aims \cup {"consult"}
                    /\ ~NoneResends => journal[st[p].tx] \in {"refused", "Absent"}
      <4>1. /\ told = st[p].answer /\ (st[p].op # "sweepResend" \/ told # "JournalError")
            /\ told \in {"expired", "inputConsumed", "refused", "JournalError"}
        BY <1>1, <1>2, <3>5 DEF Told, outcome, Roles, Local, Answer, NotAppliedEvidence
      <4>2. told = st[p].answer /\ (told = "JournalError" => st[p].op # "sweepResend")
        BY <3>5 DEF Told, outcome
      <4>3. st[p].answer \in {"refused", "JournalError"} /\ ~Dead(st[p].tx) =>
               st[p].op \in First \cup {"resubmit"} /\ st[p].tx \notin wire
        <5>1. st[p].answer = "JournalError" => st[p].op # "resubmit"
          BY <1>2, <2>9, <3>5 DEF Answers, Trusted, ResubmitNotRetried
        <5>2. QED
          BY <1>2, <2>9, <4>2, <5>1 DEF Answers, Fresh, Sending, First
      <4>4. st[p].op \in First \cup {"resubmit"} =>
              \A q \in Procs \ {p} : st[q].pc \notin Aims \cup {"consult"}
        BY <1>1, <2>9, AimersSend, OneSends DEF First, Sending
      <4>5. /\ ~NoneResends /\ st[p].answer = "refused" => journal[st[p].tx] = "refused"
            /\ ~NoneResends /\ st[p].answer = "JournalError" /\ st[p].op \in First =>
                 journal[st[p].tx] = "Absent"
        BY <1>1, <1>2, <2>9 DEF Word, Serial
      <4>6. st[p].answer = "JournalError" => st[p].op \in First
        BY <1>2, <2>9, <3>5, <4>2
           DEF Answers, Trusted, ResubmitNotRetried, Sending, First
      <4>7. QED
        BY <1>2, <2>9, <4>1, <4>2, <4>3, <4>4, <4>5, <4>6 DEF Answers
    <3>6. ASSUME NEW t \in released'
          PROVE  \/ Dead(t)
                 \/ /\ t \notin wire
                    /\ \A q \in Procs : st'[q].tx = t => st'[q].pc \notin Aims \cup {"consult"}
                    /\ ~NoneResends => journal[t] \in {"refused", "Absent"}
      <4>1. CASE t \in released
        BY <2>2, <3>1, <3>3, <4>1 DEF ReleasedOk
      <4>2. CASE t \notin released
        <5>1. t = st[p].tx /\ outcome(told) = "not_applied" /\ st[p].op \in RetriedAfter
          BY <1>1, <3>6, <4>2
        <5>2. \/ Dead(t)
              \/ /\ t \notin wire
                 /\ \A q \in Procs \ {p} : st[q].pc \notin Aims \cup {"consult"}
                 /\ ~NoneResends => journal[t] \in {"refused", "Absent"}
          BY <3>5, <5>1
        <5>3. QED
          BY <2>2, <3>3, <5>2
      <4>3. QED
        BY <4>1, <4>2
    <3>7. ReleasedOk'
      BY <2>2, <3>2, <3>6 DEF ReleasedOk
    <3>8. InTurn'
      BY <2>2, <2>7, <3>1 DEF InTurn
    <3>9. QED
      BY <3>4, <3>7, <3>8 DEF ToldTruly
  <2>10. QED
    BY <2>6, <2>8, <2>9 DEF Honest
<1>5. QED
  BY <1>3, <1>4

(* A process that dies claims nothing.                                      *)
LEMMA CrashHonest ==
  ASSUME Sound, Honest, NEW p \in Procs, Crash(p)
  PROVE  Honest'
<1>1. Only(p, Idle) /\ Idle.pc = "idle"
  BY DEF Crash, Idle
<1>2. Word(p, Idle)
  BY <1>1 DEF Word
<1>3. QED
  BY <1>1, <1>2, ReadMoves

-----------------------------------------------------------------------------
(* Calls.                                                                   *)

(* submit and submitVia start with bytes nobody has sent.                   *)
LEMMA SubmitHonest ==
  ASSUME Sound, Honest, NEW p \in Procs, NEW t \in Txs, Submit(p, t)
  PROVE  Honest'
<1>1. PICK name \in First :
        Begin(p, name, [Idle EXCEPT !.pc = "journal", !.tx = t])
  BY DEF Submit, First
<1> DEFINE e == [[Idle EXCEPT !.pc = "journal", !.tx = t] EXCEPT !.op = name]
<1>2. /\ Move(p, e) /\ name \in Calls[p]
      /\ UNCHANGED <<network, journal, released>>
      /\ bytes[t] # Unsigned /\ handed' = handed \cup {t}
      /\ SentOnce => t \notin handed
  BY <1>1 DEF Begin, Submit, SentOnce
<1>3. /\ e.pc = "journal" /\ e.tx = t /\ e.op = name /\ e.queue = {}
      /\ e.resent = FALSE /\ e.answer = "none" /\ e.attempts = 0
      /\ e.expired = FALSE /\ e.consumed = FALSE
  BY DEF Idle
<1> HIDE DEF e
<1>4. st'[p] = e /\ UNCHANGED <<network, journal, released>> /\ wire' = wire
  BY <1>2 DEF Sound, Typed, Move, network
<1>5. SentOnce => t \notin wire /\ t \notin released /\ journal[t] = "Absent"
  BY <1>2 DEF Honest, Recorded
<1>6. Word(p, st[p])'
  <2>1. Knows(st[p])'
    BY <1>2, <1>3, <1>4 DEF Knows
  <2>2. Roles(p, st[p])'
    BY <1>2, <1>3, <1>4 DEF Roles, First, Sending, Operations
  <2>3. Trusted => Evidence(p, st[p])'
    BY <1>3, <1>4 DEF Evidence, Reading
  <2>4. Trusted => Answers(st[p])'
    BY <1>3, <1>4, <1>5 DEF Answers, Trusted
  <2>5. Trusted /\ ~NoneResends => Serial(st[p])'
    BY <1>3, <1>4, <1>5 DEF Serial, Trusted, First, Reconciling
  <2>6. Alone /\ SentOnce => Stays(st[p])'
    BY <1>3, <1>4, <1>5 DEF Stays, Open
  <2>7. QED
    BY <2>1, <2>2, <2>3, <2>4, <2>5, <2>6 DEF Word
<1>7. \A u \in handed' : bytes[u] # Unsigned
  BY <1>2 DEF Honest, Recorded
<1>8. Trusted => journal[e.tx] # "refused" /\ e.tx \notin released
  BY <1>3, <1>5 DEF Trusted
<1>9. QED
  BY <1>2, <1>6, <1>7, <1>8, MoveKeeps

(* The other calls start with bytes that were handed over before.           *)
LEMMA BeginHonest ==
  ASSUME Sound, Honest, NEW p \in Procs, NEW r, NEW name \in Operations,
         Begin(p, name, r), handed' = handed,
         Word(p, [r EXCEPT !.op = name]),
         [r EXCEPT !.op = name].pc \notin Aims,
         [r EXCEPT !.op = name].pc = "consult" => [r EXCEPT !.op = name].tx \notin released
  PROVE  Honest'
<1> DEFINE e == [r EXCEPT !.op = name]
<1>1. Only(p, e)
  BY DEF Begin, Only
<1> HIDE DEF e
<1>2. Word(p, e) /\ e.pc \notin Aims /\ (e.pc = "consult" => e.tx \notin released)
  BY DEF e
<1>3. QED
  BY <1>1, <1>2, OnlyKeeps

(* resubmit and reconcile start.                                            *)
LEMMA AskHonest ==
  ASSUME Sound, Honest, NEW p \in Procs, NEW t \in Txs, NEW name \in Operations,
         NEW at \in {"consult", "recover"}, handed' = handed,
         Begin(p, name, [Idle EXCEPT !.pc = at, !.tx = t]),
         \/ at = "consult" /\ name = "resubmit" /\ t \in handed \ released
         \/ at = "recover" /\ name \in Reconciling /\ t \in handed
  PROVE  Honest'
<1> DEFINE r == [Idle EXCEPT !.pc = at, !.tx = t]
           m == [r EXCEPT !.op = name]
<1>1. name \in Calls[p] /\ Begin(p, name, r)
  BY DEF Begin
<1>3. /\ m.pc = at /\ m.tx = t /\ m.op = name
      /\ m.queue = {} /\ m.resent = FALSE
      /\ m.answer = "none" /\ m.attempts = 0
      /\ m.expired = FALSE /\ m.consumed = FALSE
  BY DEF Idle
<1> HIDE DEF m
<1>4. Word(p, m)
  <2>1. Knows(m)
    BY <1>1, <1>3 DEF Knows
  <2>2. Roles(p, m)
    BY <1>1, <1>3 DEF Roles, First, Sending, Reconciling
  <2>3. Trusted => Evidence(p, m)
    BY <1>1, <1>3 DEF Evidence, Reading
  <2>4. Trusted => Answers(m)
    BY <1>1, <1>3 DEF Answers, Fresh
  <2>5. Trusted /\ ~NoneResends => Serial(m)
    BY <1>1, <1>3 DEF Serial, First, Reconciling
  <2>6. Alone /\ SentOnce => Stays(m)
    BY <1>1, <1>3 DEF Stays
  <2>7. QED
    BY <2>1, <2>2, <2>3, <2>4, <2>5, <2>6 DEF Word
<1>5. m.pc \notin Aims /\ (m.pc = "consult" => m.tx \notin released)
  BY <1>1, <1>3 DEF Aims
<1>6. QED
  BY <1>1, <1>4, <1>5, BeginHonest DEF m

(* reconcileAll starts, with what the journal holds unresolved.             *)
LEMMA SweepHonest ==
  ASSUME Sound, Honest, NEW p \in Procs, ReconcileAll(p)
  PROVE  Honest'
<1> DEFINE owed == {t \in Txs : journal[t] \in UnresolvedTags}
<1>1. PICK name \in {"sweep", "sweepResend"} :
        \E r \in NextEntry([Idle EXCEPT !.op = name, !.queue = owed]) :
          r # Idle /\ Begin(p, name, r)
  BY DEF ReconcileAll
<1> DEFINE sweep == [Idle EXCEPT !.op = name, !.queue = owed]
<1>2. PICK r \in NextEntry(sweep) : r # Idle /\ Begin(p, name, r)
  BY <1>1
<1>3. handed' = handed /\ name \in Calls[p] /\ name \in Operations
  BY <1>2 DEF ReconcileAll, Begin, Operations
<1>4. sweep.op = name /\ sweep.queue = owed
  BY DEF Idle
<1> HIDE DEF sweep
<1>5. /\ r.pc = "recover" /\ r.op = name /\ r.tx \in owed /\ r.queue = owed \ {r.tx}
      /\ r.resent = FALSE /\ r.answer = "none" /\ r.expired = FALSE /\ r.consumed = FALSE
  BY <1>2, <1>4, EntryFields
<1> DEFINE e == [r EXCEPT !.op = name]
<1>6. /\ e.pc = "recover" /\ e.op = name /\ e.tx \in owed /\ e.queue = owed \ {e.tx}
      /\ e.resent = FALSE /\ e.answer = "none" /\ e.expired = FALSE /\ e.consumed = FALSE
  <2>1. r \in [pc : {"recover"}, op : {name}, tx : Txs, queue : SUBSET Txs,
               resent : BOOLEAN, attempts : {0}, reached : BOOLEAN, rechecks : {0},
               expired : BOOLEAN, todo : {{}}, asked : {{}}, by : {NoTx},
               consumed : BOOLEAN, answer : {"none"}]
    <3>1. PICK t \in owed : r = [Idle EXCEPT !.pc = "recover", !.op = name, !.tx = t,
                                             !.queue = owed \ {t}]
      BY <1>2, <1>4 DEF NextEntry
    <3>2. QED
      BY <3>1 DEF Idle
  <2>2. QED
    BY <1>5, <2>1
<1> HIDE DEF e
<1>7. \A t \in owed : /\ t \in handed
                      /\ journal[t] \in UnresolvedTags
                      /\ journal[t] \notin {"refused", "Absent"}
  BY DEF Honest, Recorded, UnresolvedTags
<1> HIDE DEF owed
<1>8. Word(p, e)
  <2>1. Knows(e)
    BY <1>6, <1>7 DEF Knows
  <2>2. Roles(p, e)
    BY <1>3, <1>6 DEF Roles, First, Sending, Reconciling
  <2>3. Trusted => Evidence(p, e)
    BY <1>6 DEF Evidence, Reading
  <2>4. Trusted => Answers(e)
    BY <1>6 DEF Answers, Fresh
  <2>5. Trusted /\ ~NoneResends => Serial(e)
    BY <1>6, <1>7 DEF Serial, First, Reconciling
  <2>6. Alone /\ SentOnce => Stays(e)
    BY <1>6, <1>7 DEF Stays, Open
  <2>7. QED
    BY <2>1, <2>2, <2>3, <2>4, <2>5, <2>6 DEF Word
<1>9. e.pc \notin Aims \cup {"consult"}
  BY <1>6 DEF Aims
<1>10. QED
  BY <1>2, <1>3, <1>8, <1>9, BeginHonest DEF e

(* Any call starts.                                                         *)
LEMMA CallHonest ==
  ASSUME Sound, Honest, NEW p \in Procs, Call(p)
  PROVE  Honest'
<1>1. ASSUME NEW t \in Txs, Resubmit(p, t)
      PROVE  Honest'
  <2>1. /\ Begin(p, "resubmit", [Idle EXCEPT !.pc = "consult", !.tx = t])
        /\ t \in handed \ released /\ handed' = handed /\ "resubmit" \in Operations
    BY <1>1 DEF Resubmit, Operations
  <2>2. QED
    BY <2>1, AskHonest
<1>2. ASSUME NEW t \in Txs, Reconcile(p, t)
      PROVE  Honest'
  <2>1. PICK name \in Reconciling : Begin(p, name, [Idle EXCEPT !.pc = "recover", !.tx = t])
    BY <1>2 DEF Reconcile, Reconciling
  <2>2. t \in handed /\ handed' = handed /\ name \in Operations
    BY <1>2 DEF Reconcile, Reconciling, Operations
  <2>3. QED
    BY <2>1, <2>2, AskHonest
<1>3. QED
  BY <1>1, <1>2, SubmitHonest, SweepHonest DEF Call

-----------------------------------------------------------------------------
(* The network moves, and the caller signs.                                 *)

(* What was said of the processes and of the journal stays true as the      *)
(* chain moves on.                                                          *)
LEMMA ForwardKeeps ==
  ASSUME Sound, Sound', Honest, Forward, UNCHANGED <<wire, journal, st, handed, released>>
  PROVE  /\ \A p \in Procs : Word(p, st[p])'
         /\ Recorded'
         /\ Trusted => JournalOk' /\ ReleasedOk'
<1>1. \A t \in handed : /\ t \in Txs /\ bytes[t] # Unsigned /\ bytes'[t] = bytes[t]
                        /\ Lapsed(t) => Lapsed(t)' /\ (t \notin ran => t \notin ran')
                        /\ Dead(t) => Dead(t)'
  BY DEF Honest, Recorded, Forward, Lapsed, Sound, Typed
<1>2. /\ \A t \in ran \ failed : t \in ran' \ failed'
      /\ \A t \in failed : t \in failed'
      /\ \A n \in Nodes : view[n].epoch <= view'[n].epoch /\ dropped[n] \subseteq dropped'[n]
  BY DEF Forward, Sound, Typed, ChainTypeOK
<1>3. ASSUME NEW p \in Procs, st[p].pc # "idle"
      PROVE  Word(p, st[p])'
  <2>1. /\ st[p].tx \in handed /\ Word(p, st[p]) /\ Knows(st[p])
        /\ Trusted => Evidence(p, st[p]) /\ Answers(st[p])
    BY <1>3, Busy DEF Knows
  <2>2. Knows(st[p])' /\ Roles(p, st[p])'
    BY <1>3, <2>1 DEF Word, Knows, Roles
  <2>3. Trusted => Evidence(p, st[p])'
    <3>1. ASSUME Trusted, st[p].pc = "lookup3", NEW n \in Nodes
          PROVE  view'[n].epoch > bytes'[st[p].tx].until
      <4>1. view[n].epoch > bytes[st[p].tx].until /\ view[n].epoch <= view'[n].epoch
        BY <1>2, <2>1, <3>1 DEF Evidence
      <4>2. bytes'[st[p].tx].until = bytes[st[p].tx].until
        BY <1>1, <2>1
      <4>3. view[n].epoch \in Nat /\ bytes[st[p].tx].until \in Nat
        BY <1>1, <2>1, ChainTyped DEF Sound, Typed
      <4>4. view'[n].epoch \in Nat
        BY MaxEpochIsNatural DEF Sound, Typed, ChainTypeOK
      <4>5. QED
        BY <4>1, <4>2, <4>3, <4>4
    <3>2. QED
      BY <1>1, <1>2, <2>1, <3>1 DEF Evidence
  <2>4. Trusted => Answers(st[p])'
    BY <1>1, <1>2, <2>1 DEF Answers, Fresh
  <2>5. Trusted /\ ~NoneResends => Serial(st[p])'
    BY <1>3, <2>1 DEF Word, Serial
  <2>6. Alone /\ SentOnce => Stays(st[p])'
    BY <1>3, <2>1 DEF Word, Stays, Open
  <2>7. QED
    BY <2>2, <2>3, <2>4, <2>5, <2>6 DEF Word
<1>4. \A p \in Procs : Word(p, st[p])'
  BY <1>3 DEF Word
<1>5. Recorded'
  BY <1>1 DEF Honest, Recorded
<1>6. ASSUME Trusted
      PROVE  JournalOk' /\ ReleasedOk'
  <2>1. JournalOk /\ ReleasedOk /\ Recorded
    BY <1>6 DEF Honest, ToldTruly
  <2>2. JournalOk'
    BY <1>1, <1>2, <2>1 DEF JournalOk, Recorded
  <2>3. ReleasedOk'
    BY <1>1, <2>1 DEF ReleasedOk, Recorded
  <2>4. QED
    BY <2>2, <2>3
<1>7. QED
  BY <1>4, <1>5, <1>6

(* The network keeps the invariant.                                         *)
LEMMA NetworkHonest ==
  ASSUME Sound, Honest, Network
  PROVE  Honest'
<1>1. UNCHANGED <<wire, bytes, journal, st, handed, released>>
  BY DEF Network, ChainNext, Execute, RivalRuns, NextEpoch, CatchUp, Prune, Consume
<1>2. ChainSane' /\ NodesSane' /\ Forward
  BY ChainKeepsWorld DEF Sound, Typed, Honest, Network
<1>3. Trusted => InTurn'
  BY <1>1 DEF Honest, ToldTruly, InTurn
<1>4. QED
  BY <1>1, <1>2, <1>3, NetworkStep, ForwardKeeps DEF Honest, ToldTruly

(* Signing fixes the bytes of one transaction and no other.                 *)
LEMMA BuildForward ==
  ASSUME Sound, Honest, NEW t \in Txs, Build(t)
  PROVE  /\ ChainSane' /\ NodesSane' /\ Forward
         /\ bytes[t] = Unsigned /\ bytes'[t] # Unsigned
         /\ \A u \in Txs \ {t} : bytes'[u] = bytes[u]
<1>1. PICK n \in Nodes :
        bytes' = [bytes EXCEPT ![t] =
                    [from |-> Window(view[n].epoch).from,
                     until |-> Window(view[n].epoch).until,
                     pinned |-> [o \in Objects |-> view[n].object[o].version]]]
  BY DEF Build
<1>2. /\ UNCHANGED <<epoch, ran, failed, ranAt, took, object, lamport, wire,
                     view, dropped, covers, handed>>
      /\ bytes[t] = Unsigned
  BY DEF Build, chain, nodes
<1>3. /\ \A u \in Txs \ {t} : bytes'[u] = bytes[u]
      /\ \A o \in Objects : bytes'[t].pinned[o] = view[n].object[o].version
  BY <1>1 DEF Sound, Typed, ChainTypeOK
<1>4. \A o \in Objects : bytes'[t].pinned[o] >= 1
  <2>1. \A o \in Objects : view[n].object[o].version \in Nat /\ 1 <= view[n].object[o].version
    BY ChainTyped DEF Sound, Typed, Honest, NodesSane
  <2>2. QED
    BY <1>3, <2>1
<1>5. bytes'[t] # Unsigned
  BY <1>4, ObjectsExist DEF Unsigned
<1>6. t \notin wire /\ t \notin ran
  BY <1>2 DEF Honest, Recorded, ChainSane
<1>7. ChainSane'
  <2>1. \A u \in Txs : bytes'[u] # Unsigned => \A o \in Objects : bytes'[u].pinned[o] >= 1
    BY <1>3, <1>4 DEF Honest, ChainSane
  <2>2. \A u \in ran \cap Txs : u # t /\ bytes'[u] = bytes[u]
    BY <1>3, <1>6
  <2>3. QED
    BY <1>2, <2>1, <2>2 DEF Honest, ChainSane
<1>8. NodesSane'
  BY <1>2 DEF Honest, NodesSane
<1>9. Forward
  <2>1. ASSUME NEW u \in Txs, bytes[u] # Unsigned
        PROVE  /\ bytes'[u] = bytes[u]
               /\ Lapsed(u) => epoch' > bytes'[u].until /\ (u \notin ran => u \notin ran')
               /\ Dead(u) => Dead(u)'
    BY <1>2, <1>3, <2>1 DEF Lapsed, Dead, Spent
  <2>2. \A m \in Nodes : view[m].epoch <= view'[m].epoch /\ dropped[m] \subseteq dropped'[m]
    <3>1. \A m \in Nodes : view[m].epoch \in Nat
      BY ChainTyped DEF Sound, Typed
    <3>2. QED
      BY <1>2, <3>1
  <2>3. QED
    BY <1>2, <2>1, <2>2 DEF Forward
<1>10. QED
  BY <1>2, <1>3, <1>5, <1>7, <1>8, <1>9

(* The caller signs the next transaction only in turn.                      *)
LEMMA BuildHonest ==
  ASSUME Sound, Honest, NEW t \in Txs, Build(t)
  PROVE  Honest'
<1>1. /\ ChainSane' /\ NodesSane' /\ Forward
      /\ \A u \in Txs \ {t} : bytes'[u] = bytes[u]
  BY BuildForward
<1>2. /\ UNCHANGED <<wire, journal, st, handed, released>>
      /\ \A before \in Txs : before < t => before \in released
  BY DEF Build
<1>3. ASSUME Trusted
      PROVE  InTurn'
  BY <1>1, <1>2, <1>3 DEF Honest, ToldTruly, InTurn
<1>4. QED
  BY <1>1, <1>2, <1>3, BuildStep, ForwardKeeps DEF Honest, ToldTruly

-----------------------------------------------------------------------------
(* The invariant, and what follows from it.                                 *)

(* The invariant holds at the start.                                        *)
LEMMA InitHonest ==
  ASSUME Init
  PROVE  Honest
<1>1. ChainSane
  BY DEF Init, ChainInit, ChainSane
<1>2. NodesSane
  BY DEF Init, ChainInit, NodesSane, Now
<1>3. Recorded
  BY DEF Init, Recorded, ChainInit
<1>4. \A p \in Procs : Word(p, st[p]) /\ st[p].pc = "idle"
  BY DEF Init, Word, Idle
<1>5. ToldTruly
  BY DEF Init, ChainInit, ToldTruly, JournalOk, ReleasedOk, InTurn
<1>6. QED
  BY <1>1, <1>2, <1>3, <1>4, <1>5 DEF Honest

(* Every step keeps the invariant.                                          *)
LEMMA HonestIsInductive ==
  ASSUME Sound, Honest, [Next]_vars
  PROVE  Honest'
<1>1. CASE Network
  BY <1>1, NetworkHonest
<1>2. ASSUME NEW t \in Txs, Build(t)
      PROVE  Honest'
  BY <1>2, BuildHonest
<1>3. ASSUME NEW p \in Procs, Call(p)
      PROVE  Honest'
  BY <1>3, CallHonest
<1>4. ASSUME NEW p \in Procs, executeTransaction(p) \/ relay(p)
      PROVE  Honest'
  BY <1>4, SendHonest DEF executeTransaction, relay
<1>5. ASSUME NEW p \in Procs, Work(p) \/ Fails(p)
      PROVE  Honest'
  BY <1>4, <1>5, JournalSignedHonest, JournalSettledHonest, AnsweredHonest, RetriedHonest,
     RefusedHonest, RecoverHonest, JournalSignedFailsHonest, ConsultHonest, ResendHonest,
     LookupHonest, WindowClosedHonest, InputStateHonest, ConsumedHonest, WeighHonest,
     RecordHonest, ReturnHonest, CrashHonest
     DEF Work, Fails
<1>6. CASE UNCHANGED vars
  <2>1. /\ UNCHANGED <<epoch, ran, failed, ranAt, took, object, lamport, wire, bytes,
                       view, dropped, covers, journal, st, handed, released>>
    BY <1>6 DEF vars
  <2>2. \A t : /\ Lapsed(t)' <=> Lapsed(t)
               /\ Dead(t)' <=> Dead(t)
    BY <2>1 DEF Lapsed, Dead, Spent
  <2>3. Forward
    <3>1. \A n \in Nodes : view[n].epoch \in Nat
      BY ChainTyped DEF Sound, Typed
    <3>2. QED
      BY <2>1, <2>2, <3>1 DEF Forward, Lapsed
  <2>4. ChainSane' /\ NodesSane'
    BY <2>1 DEF Honest, ChainSane, NodesSane
  <2>5. Trusted => InTurn'
    BY <2>1 DEF Honest, ToldTruly, InTurn
  <2>6. QED
    BY <1>6, <2>1, <2>3, <2>4, <2>5, SoundIsInductive, ForwardKeeps DEF Honest, ToldTruly
<1>7. QED
  BY <1>1, <1>2, <1>3, <1>5, <1>6 DEF Next

(* So it always holds.                                                      *)
LEMMA HonestAlways == Spec => [](Sound /\ Honest)
<1>1. Init => Sound /\ Honest
  BY InitSound, InitHonest
<1>2. Sound /\ Honest /\ [Next]_vars => (Sound /\ Honest)'
  BY SoundIsInductive, HonestIsInductive
<1>3. QED
  BY <1>1, <1>2, PTL DEF Spec

(* Under Trusted the invariant is the truth of what is told, and one        *)
(* transaction of the intent at most.                                       *)
LEMMA HonestIsTruthful ==
  ASSUME Sound, Honest, Trusted
  PROVE  NobodyIsMisled /\ AtMostOnce
<1>1. JournalOk /\ ReleasedOk /\ InTurn /\ Recorded /\ ChainSane
  BY DEF Honest, ToldTruly
<1>2. \A t \in Txs : t \notin wire => t \notin ran
  BY <1>1 DEF ChainSane
<1>3. JournalTruthful
  BY <1>1, <1>2 DEF JournalTruthful, JournalOk, NotAppliedEvidence, Dead
<1>4. ReleasedNeverRan
  BY <1>1, <1>2 DEF ReleasedNeverRan, ReleasedOk, Dead, Sound, Typed
<1>5. AtMostOnce
  <2>1. SUFFICES ASSUME NEW t \in Txs \cap ran, NEW u \in Txs \cap ran, t < u
                 PROVE  FALSE
    BY TxsAreDigests DEF AtMostOnce
  <2>2. bytes[u] # Unsigned
    BY <1>1 DEF ChainSane, Recorded
  <2>3. t \in released
    BY <1>1, <2>1, <2>2 DEF InTurn
  <2>4. QED
    BY <1>4, <2>3 DEF ReleasedNeverRan
<1>6. QED
  BY <1>3, <1>4, <1>5 DEF NobodyIsMisled

(* The journal and the callers are told the truth, for any number of        *)
(* processes, transactions, nodes, attempts, crashes and faults: what is    *)
(* recorded as settled has settled so, and what a caller was told was not   *)
(* applied, by any of the functions, has not executed and never does.       *)
THEOREM TrustedNobodyIsMisled ==
  ASSUME Trusted
  PROVE  Spec => []NobodyIsMisled
<1>1. Sound /\ Honest => NobodyIsMisled
  BY HonestIsTruthful
<1>2. QED
  BY <1>1, HonestAlways, PTL

(* The caller's intent executes at most once, whatever is lost, retried,    *)
(* re-sent, refused, reconciled and crashed in between: it signs again only *)
(* for what was proved dead.                                                *)
THEOREM TrustedAtMostOnce ==
  ASSUME Trusted
  PROVE  Spec => []AtMostOnce
<1>1. Sound /\ Honest => AtMostOnce
  BY HonestIsTruthful
<1>2. QED
  BY <1>1, HonestAlways, PTL

-----------------------------------------------------------------------------
(* The lifecycle implements Intent.                                         *)

Started == {t \in Txs : bytes[t] # Unsigned}

(* The lifecycle starts where Intent starts.                                *)
LEMMA IntentInit ==
  ASSUME Init
  PROVE  I!Init
  BY DEF Init, ChainInit, I!Init

(* Every step of the lifecycle is one of Intent's, or invisible to it:      *)
(* signing is Start, execution is Apply, and the answer not applied is      *)
(* Close.                                                                   *)
LEMMA IntentStep ==
  ASSUME Sound, Honest, Sound', Honest', Trusted, [Next]_vars
  PROVE  [I!Next]_(I!vars)
<1>1. /\ ReleasedNeverRan /\ ReleasedNeverRan' /\ Recorded /\ ChainSane
      /\ wire \subseteq Txs /\ handed \subseteq Txs
  <2>1. ReleasedNeverRan
    BY HonestIsTruthful DEF NobodyIsMisled
  <2>2. ReleasedOk' /\ ChainSane' /\ released' \subseteq Txs
    BY DEF Honest, ToldTruly, Sound, Typed
  <2>3. ReleasedNeverRan'
    BY <2>2 DEF ReleasedNeverRan, ReleasedOk, Dead, ChainSane
  <2>4. QED
    BY <2>1, <2>3 DEF Honest, Sound, Typed, ChainTypeOK
<1>2. Started' = Started /\ (ran \cap Txs)' = ran \cap Txs /\ released' = released
      => UNCHANGED I!vars
  BY DEF I!vars, Started
<1>3. ASSUME NEW t \in Txs, Build(t)
      PROVE  I!Start(t)
  <2>1. /\ bytes[t] = Unsigned /\ bytes'[t] # Unsigned
        /\ \A u \in Txs \ {t} : bytes'[u] = bytes[u]
    BY <1>3, BuildForward
  <2>2. /\ UNCHANGED <<ran, released>>
        /\ \A before \in Txs : before < t => before \in released
    BY <1>3 DEF Build, chain
  <2>3. QED
    BY <2>1, <2>2 DEF I!Start
<1>4. ASSUME NEW t \in Txs, Execute(t), UNCHANGED released
      PROVE  I!Apply(t)
  <2>1. /\ t \in wire \ ran /\ ran' = ran \cup {t} /\ bytes' = bytes
    BY <1>4 DEF Execute, Consume
  <2>2. bytes[t] # Unsigned
    BY <1>1, <2>1 DEF Recorded
  <2>3. t \notin released
    BY <1>1, <1>4, <2>1 DEF ReleasedNeverRan
  <2>4. QED
    BY <1>4, <2>1, <2>2, <2>3 DEF I!Apply
<1>5. CASE Network
  <2>1. UNCHANGED released /\ ChainNext
    BY <1>5 DEF Network
  <2>2. CASE \E t \in Txs : Execute(t)
    BY <1>4, <2>1, <2>2 DEF I!Next
  <2>3. CASE \E r \in Rivals : RivalRuns(r)
    <3>1. bytes' = bytes /\ (ran \cap Txs)' = ran \cap Txs
      BY <2>3, RivalsAreOthers DEF RivalRuns, Consume
    <3>2. QED
      BY <1>2, <2>1, <3>1 DEF Started
  <2>4. CASE NextEpoch \/ \E n \in Nodes : CatchUp(n) \/ Prune(n)
    <3>1. bytes' = bytes /\ ran' = ran
      BY <2>4 DEF NextEpoch, CatchUp, Prune, chain
    <3>2. QED
      BY <1>2, <2>1, <3>1 DEF Started
  <2>5. QED
    BY <2>1, <2>2, <2>3, <2>4 DEF ChainNext
<1>6. ASSUME NEW p \in Procs, Return(p)
      PROVE  [I!Next]_(I!vars)
  <2>1. st[p].tx \in handed /\ st[p].pc # "idle"
    BY <1>6, Busy DEF Return, Knows
  <2>2. /\ UNCHANGED <<bytes, ran>>
        /\ released' = released \/ released' = released \cup {st[p].tx}
    BY <1>6 DEF Return, network, chain
  <2>3. CASE released' = released
    BY <1>2, <2>2, <2>3 DEF Started
  <2>4. CASE released' # released
    <3>1. PICK t \in Txs : t = st[p].tx
      BY <1>1, <2>1
    <3>2. released' = released \cup {t} /\ t \notin released
      BY <2>2, <2>4, <3>1
    <3>3. t \notin ran
      BY <1>1, <2>2, <3>2 DEF ReleasedNeverRan
    <3>4. bytes[t] # Unsigned
      BY <1>1, <2>1, <3>1 DEF Recorded
    <3>5. I!Close(t)
      BY <2>2, <3>2, <3>3, <3>4 DEF I!Close
    <3>6. QED
      BY <3>5 DEF I!Next
  <2>5. QED
    BY <2>3, <2>4
<1>7. ASSUME NEW p \in Procs, Call(p) \/ Work(p) \/ Fails(p)
      PROVE  [I!Next]_(I!vars)
  <2>1. CASE Return(p)
    BY <1>6, <2>1
  <2>2. CASE ~Return(p)
    <3>1. UNCHANGED <<bytes, ran, released>>
      BY <1>7, <2>2
         DEF Call, Work, Fails, Submit, Resubmit, Reconcile, ReconcileAll, Begin,
             journalSigned, executeTransaction, relay, Send, answered, retried, refused,
             lockConflict, unanswered, consult, resend, chainMismatch, lookup, windowClosed,
             inputState, consumedVersionOf, noEvidence, weigh, recordIfHeld, journalSettled,
             journalSignedFails, consultFails, resendFails, readFails, recordIfHeldFails,
             journalSettledFails, Crash, Only, network, chain
    <3>2. QED
      BY <1>2, <3>1 DEF Started
  <2>3. QED
    BY <2>1, <2>2
<1>8. CASE UNCHANGED vars
  BY <1>2, <1>8 DEF vars, Started
<1>9. QED
  BY <1>3, <1>5, <1>7, <1>8 DEF Next, I!Next

(* The submission lifecycle implements the promise to its caller.           *)
THEOREM TrustedImplementsIntent ==
  ASSUME Trusted
  PROVE  Spec => ImplementsIntent
<1>1. Init => I!Init
  BY IntentInit
<1>2. Sound /\ Honest /\ (Sound /\ Honest)' /\ [Next]_vars => [I!Next]_(I!vars)
  BY IntentStep
<1>3. QED
  BY <1>1, <1>2, HonestAlways, PTL DEF Spec, ImplementsIntent, I!Spec

-----------------------------------------------------------------------------
(* One process does not rewrite what has settled.                           *)

(* A step of the only process does not touch an entry that has settled.     *)
LEMMA SettledStep ==
  ASSUME Sound, Honest, Alone, SentOnce, [Next]_vars,
         NEW t \in Txs, journal[t] \notin {"Absent"} \cup UnresolvedTags
  PROVE  journal'[t] = journal[t]
<1>1. CASE journal' = journal
  BY <1>1
<1>2. ASSUME NEW p \in Procs, journalSigned(p) \/ journalSettled(p)
      PROVE  journal'[t] = journal[t]
  <2>1. st[p].pc \in {"journal", "settled"}
    BY <1>2 DEF journalSigned, journalSettled
  <2>2. Roles(p, st[p]) /\ Stays(st[p])
    BY <2>1, Busy DEF Word
  <2>3. Open(st[p].tx)
    BY <2>1, <2>2 DEF Roles, Stays, Sending, Reconciling
  <2>4. st[p].tx # t
    BY <2>3 DEF Open
  <2>5. QED
    BY <1>2, <2>4 DEF journalSigned, journalSettled, Sound, Typed
<1>3. ASSUME NEW p \in Procs, Call(p) \/ Work(p) \/ Fails(p),
             ~(journalSigned(p) \/ journalSettled(p))
      PROVE  journal' = journal
  BY <1>3
     DEF Call, Work, Fails, Submit, Resubmit, Reconcile, ReconcileAll, Begin,
         executeTransaction, relay, Send, answered, retried, refused,
         lockConflict, unanswered, consult, resend, chainMismatch, lookup, windowClosed,
         inputState, consumedVersionOf, noEvidence, weigh, recordIfHeld, Return,
         journalSignedFails, consultFails, resendFails, readFails, recordIfHeldFails,
         journalSettledFails, Crash, Only
<1>4. CASE UNCHANGED vars \/ Network \/ \E u \in Txs : Build(u)
  BY <1>4 DEF vars, Network, Build
<1>5. QED
  BY <1>2, <1>3, <1>4 DEF Next

(* Executed, Failed and NotApplied are terminal for a process that has the  *)
(* journal to itself, whatever it calls, re-sends and reconciles, and       *)
(* wherever it crashes: neither the Signed write of a re-send nor a late    *)
(* answer rewrites them. This one needs no assumption on the nodes or on    *)
(* the faults.                                                              *)
THEOREM AloneSettledStays ==
  ASSUME Alone, SentOnce
  PROVE  Spec => SettledStays
<1>1. Sound /\ Honest /\ [Next]_vars =>
        [\A t \in Txs : journal[t] \notin {"Absent"} \cup UnresolvedTags
                          => journal'[t] = journal[t]]_vars
  BY SettledStep
<1>2. QED
  BY <1>1, HonestAlways, PTL DEF Spec, SettledStays
=============================================================================
