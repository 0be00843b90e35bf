---------------------------- MODULE IntentProofs ----------------------------
(***************************************************************************)
(* What a caller with one intent gets from the abstract specification, for *)
(* any number of transactions.  Submission is checked to implement Intent  *)
(* (its ImplementsIntent), so it promises the same.                        *)
(***************************************************************************)
EXTENDS Intent, TLAPS

(* A transaction was signed only after all before it were closed.           *)
InOrder == \A t \in started, before \in Txs : before < t => before \in closed

IInv ==
  /\ TypeOK
  /\ applied \subseteq started
  /\ ClosedNeverApplied
  /\ InOrder

LEMMA IInvAlways == Spec => []IInv
<1>1. Init => IInv
  BY DEF Init, IInv, TypeOK, ClosedNeverApplied, InOrder
<1>2. IInv /\ [Next]_vars => IInv'
  <2> SUFFICES ASSUME IInv, [Next]_vars
               PROVE  IInv'
    OBVIOUS
  <2> USE DEF IInv, TypeOK, ClosedNeverApplied, InOrder
  <2>1. ASSUME NEW t \in Txs, Start(t)
        PROVE  IInv'
    BY <2>1 DEF Start
  <2>2. ASSUME NEW t \in Txs, Apply(t)
        PROVE  IInv'
    BY <2>2 DEF Apply
  <2>3. ASSUME NEW t \in Txs, Close(t)
        PROVE  IInv'
    BY <2>3 DEF Close
  <2>4. CASE UNCHANGED vars
    BY <2>4 DEF vars
  <2>5. QED
    BY <2>1, <2>2, <2>3, <2>4 DEF Next
<1>3. QED
  BY <1>1, <1>2, PTL DEF Spec

(* What a caller was told to forget is never applied.                       *)
THEOREM ClosedIsForGood == Spec => []ClosedNeverApplied
<1>1. IInv => ClosedNeverApplied
  BY DEF IInv
<1>2. QED
  BY <1>1, IInvAlways, PTL

(* The intent is applied at most once: of two applied transactions the      *)
(* earlier would have been closed before the later was signed.              *)
THEOREM IntentAppliedOnce == ASSUME Txs \subseteq Nat
                             PROVE  Spec => []AppliedOnce
<1>1. IInv => AppliedOnce
  <2> SUFFICES ASSUME IInv, NEW t \in applied, NEW u \in applied, t # u
               PROVE  FALSE
    BY DEF AppliedOnce
  <2>1. {t, u} \subseteq Txs \cap started /\ t \in Nat /\ u \in Nat
    BY DEF IInv, TypeOK
  <2>2. t < u \/ u < t
    BY <2>1
  <2>3. t \in closed \/ u \in closed
    BY <2>1, <2>2 DEF IInv, InOrder
  <2>4. QED
    BY <2>3 DEF IInv, ClosedNeverApplied
<1>2. QED
  BY <1>1, IInvAlways, PTL
=============================================================================
