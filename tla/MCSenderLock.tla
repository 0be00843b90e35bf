---------------------------- MODULE MCSenderLock ----------------------------
(***************************************************************************)
(* Instances of SenderLock for TLC.                                        *)
(***************************************************************************)
EXTENDS SenderLock, TLC

CONSTANTS r1, r2, r3

ThreeRuns == {r1, r2, r3}

(* Two accounts, 10 and 20.  20 has two spellings, written on either side   *)
(* of the one of 10.                                                        *)
Spellings == {1, 2, 3}
SpellingsOf == (1 :> 20) @@ (2 :> 10) @@ (3 :> 20)

(* One account sends alone and uses tx.gas; it is paid by the other by coin; *)
(* the other is paid by it, by coin under the rule before 0.4.0 and from     *)
(* its balance.                                                              *)
Calls ==
  {[lockSender |-> "whenPinned", sender |-> 2, gasOwner |-> None,
    addressBalance |-> FALSE, usesGasCoin |-> TRUE],
   [lockSender |-> "whenPinned", sender |-> 2, gasOwner |-> 1,
    addressBalance |-> FALSE, usesGasCoin |-> FALSE],
   [lockSender |-> "true", sender |-> 3, gasOwner |-> 2,
    addressBalance |-> FALSE, usesGasCoin |-> TRUE],
   [lockSender |-> "whenPinned", sender |-> 1, gasOwner |-> 2,
    addressBalance |-> TRUE, usesGasCoin |-> FALSE]}

RunSymmetry == Permutations(Runs)
=============================================================================
