---------------------------- MODULE MCSubmission ----------------------------
(***************************************************************************)
(* Instances of Submission for TLC.                                        *)
(***************************************************************************)
EXTENDS Submission, TLC

CONSTANTS p1, p2, o1, o2, n1, n2

OneProcess == {p1}
TwoProcesses == {p1, p2}

OtherProcess == {p2}

OneObject == {o1}
TwoObjects == {o1, o2}

OneNode == {n1}
TwoNodes == {n1, n2}

(* Every attempt at the intent pins one object, or two; or the first one    *)
(* pins none (gas from an address balance, no owned input).                 *)
OnePinned == [t \in Txs |-> {o1}]
BothPinned == [t \in Txs |-> {o1, o2}]
FirstPinsNone == [t \in Txs |-> IF t = 1 THEN {} ELSE {o1}]

(* The one sender: it crashes, restarts and re-sends what its journal holds.*)
Restarting == [p \in Procs |-> {"submit", "submitVia", "resubmit", "sweepResend"}]

(* Two processes that re-send what they find in the shared journal.         *)
SenderAndResender ==
  (p1 :> {"submit"}) @@ (p2 :> {"sweepResend"})

(* p1 sends; p2 is another process that reconciles the same journal.        *)
SenderAndReconciler ==
  (p1 :> {"submit", "resubmit", "sweep"})
    @@ (p2 :> {"reconcile", "reconcileDigest", "sweep"})
=============================================================================
