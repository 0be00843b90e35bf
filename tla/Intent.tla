------------------------------- MODULE Intent -------------------------------
(***************************************************************************)
(* What the submission lifecycle promises a caller with one intent: of the *)
(* transactions it signs for that intent, one after the other, at most one *)
(* is applied, and one the library declares closed ("not applied") is      *)
(* never applied.  There is no journal, no network and no process here.    *)
(***************************************************************************)
EXTENDS Naturals

CONSTANT Txs      \* the transactions of the intent, in the order signed

VARIABLES
  started,  \* those that were signed
  applied,  \* those that executed
  closed    \* those the caller was told were not applied

vars == <<started, applied, closed>>

TypeOK == started \subseteq Txs /\ applied \subseteq Txs /\ closed \subseteq Txs

Init == started = {} /\ applied = {} /\ closed = {}

(* The caller signs the next one only when all before it are closed.        *)
Start(t) ==
  /\ t \in Txs \ started
  /\ \A before \in Txs : before < t => before \in closed
  /\ started' = started \cup {t}
  /\ UNCHANGED <<applied, closed>>

Apply(t) ==
  /\ t \in started \ (applied \cup closed)
  /\ applied' = applied \cup {t}
  /\ UNCHANGED <<started, closed>>

Close(t) ==
  /\ t \in started \ (applied \cup closed)
  /\ closed' = closed \cup {t}
  /\ UNCHANGED <<started, applied>>

Next == \E t \in Txs : Start(t) \/ Apply(t) \/ Close(t)

Spec == Init /\ [][Next]_vars

(* The intent is applied at most once.                                      *)
AppliedOnce == \A t, u \in applied : t = u

(* Nothing closed was, or ever is, applied.                                 *)
ClosedNeverApplied == closed \cap applied = {}
=============================================================================
