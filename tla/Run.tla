-------------------------------- MODULE Run --------------------------------
(***************************************************************************)
(* Tx.run around one Tx.build: the parties are checked before anything is   *)
(* built, the bytes are shown and approved before anybody signs, signed by  *)
(* the sender and by whoever else they name, handed to onSigned, and sent   *)
(* to validators that judge them as the world is by then.  The same with    *)
(* Tx.build, verifySponsored, attach and cosign called one by one, by a     *)
(* sponsor's service and a sender's wallet.                                 *)
(*                                                                         *)
(* The locks a run holds meanwhile are module SenderLock's, what becomes of *)
(* the bytes once sent is module Submission's.                              *)
(***************************************************************************)
EXTENDS Build, SequencesExt

CONSTANTS
  MemberBound,  \* the last epoch each key's proof is good for, or Unbounded
  MaxRuns,      \* bound: times one Transaction object is run
  MaxMoved      \* bound: kinds of thing that move in the world

Keys == DOMAIN MemberBound

ASSUME KeysAreNumbered == Keys \subseteq Nat /\ MemberBound \in [Keys -> 0..Unbounded]
ASSUME RunsPositive == MaxRuns \in Nat \ {0}

VARIABLES
  ask,          \* [signer, sponsor, gasOwner, steps, again]
  run,          \* the local state of the call
  signatures,   \* on the bytes, in order
  moved         \* history: what moved in the world since it was read

runVars == <<ask, run, signatures, moved>>

RunPc == {"idle", "aliases", "building", "built", "approving", "signing", "cosigning",
          "signed", "wallet", "sending", "accepted", "refused", "failed"}

Signature == [by : Address, of : {"these", "others"}, bounds : SUBSET (0..Unbounded),
              multisig : BOOLEAN, members : Seq(Keys)]

RunTypeOK ==
  /\ NetworkTypeOK /\ BuildTypeOK
  /\ run.pc \in RunPc /\ run.failure \in Tag
  /\ run.read \in 0..2 /\ run.round \in 1..MaxRuns
  /\ {run.prepared, run.approved} \subseteq BOOLEAN
  /\ \A i \in DOMAIN signatures : signatures[i] \in Signature
  /\ moved \subseteq {"epoch", "balance", "aliases", "commands"}

NoParty == [address |-> NoOne, alias |-> NoOne, multisig |-> FALSE, given |-> <<>>]

Parties ==
  {p \in [address : Address, alias : Address \cup {NoOne}, multisig : BOOLEAN,
          given : Seq(Keys)] : p.multisig \/ Len(p.given) <= 1}

(* Step by step nobody looks a cosigner's alias up: that is the caller's.   *)
Asking ==
  {a \in [signer : Parties, sponsor : Parties \cup {NoParty},
          gasOwner : Account \cup {NoOne}, steps : BOOLEAN, again : BOOLEAN] :
     a.signer.address \in Account /\ (a.steps => a.sponsor.alias = NoOne)}

(* A multisig combines its members' signatures in the key's order; it is    *)
(* made only of distinct members that weigh enough.                         *)
constructible(party) ==
  party.multisig =>
    IsInjective(party.given) /\ Len(party.given) >= Threshold

(* Mutant: in the order the signers were given.                             *)
membersAsGiven(party) == party.given

membersOf(party) ==
  CHOOSE keys \in [DOMAIN party.given -> ToSet(party.given)] :
    \A i, j \in DOMAIN keys : i < j => keys[i] < keys[j]

boundsOf(party) == {MemberBound[k] : k \in ToSet(party.given)}

earliest(bounds) == CHOOSE b \in bounds \cup {Unbounded} : \A c \in bounds : b <= c

maxEpochOf(party) == earliest(boundsOf(party))

keyOf(party) == IF party.alias = NoOne THEN party.address ELSE party.alias

-----------------------------------------------------------------------------
(* Before the build.                                                        *)

Start == [pc |-> "idle", failure |-> "none", read |-> 0, round |-> 1,
          prepared |-> FALSE, approved |-> FALSE]

Stop(tag) == run' = [Start EXCEPT !.pc = "failed", !.failure = tag, !.round = run.round]

Go(pc) == run' = [run EXCEPT !.pc = pc]

(* A recipe may set a window of two epochs at most, and reserves nothing.   *)
RunInit ==
  /\ NetworkTypeOK
  /\ tx \in Drafts /\ tx.payment # "reservation"
  /\ tx.expiration.kind = "ValidDuring" => tx.expiration.to <= tx.expiration.from + 1
  /\ config \in Config /\ ask \in Asking
  /\ build = NoBuild /\ run = Start /\ signatures = <<>> /\ moved = {}

sender == ask.signer.address

(* The gas owner as the option or the recipe names it, when not the sender. *)
gasIntentOf ==
  LET owner == IF ask.gasOwner # NoOne THEN ask.gasOwner ELSE tx.owner
  IN IF owner = sender THEN NoOne ELSE owner

assertSponsor(gasOwner) == ask.sponsor # NoParty /\ ask.sponsor.address = gasOwner

(* The parties whose alias key has to be looked up.                         *)
aliased ==
  LET ofKey(party) == IF party.alias = NoOne THEN <<>> ELSE <<party>>
  IN ofKey(ask.signer)
       \o IF gasIntentOf = NoOne \/ ask.steps THEN <<>> ELSE ofKey(ask.sponsor)

begin ==
  /\ run.pc = "idle"
  /\ \/ Stop("BuildError")   \* the recipe throws
     \/ IF ~constructible(ask.signer) \/ ~constructible(ask.sponsor) THEN Stop("KeyError")
        ELSE IF gasIntentOf # NoOne /\ ~ask.steps /\ ~assertSponsor(gasIntentOf)
        THEN Stop("SigningError") ELSE Go("aliases")
  /\ UNCHANGED <<buildVars, ask, signatures, moved>>

allows(account, key) == key \in aliases[account]

requireAliases ==
  /\ run.pc = "aliases" /\ run.read < Len(aliased)
  /\ LET party == aliased[run.read + 1]
     IN \/ allows(party.address, party.alias) /\ run' = [run EXCEPT !.read = @ + 1]
        \/ ~allows(party.address, party.alias) /\ Stop("PolicyDenied")
        \/ Stop("TransportError")
  /\ UNCHANGED <<buildVars, ask, signatures, moved>>

(* Mutant: the sponsor's proof does not count.                              *)
sessionBoundOfSender == maxEpochOf(ask.signer)

sessionBound ==
  earliest({maxEpochOf(ask.signer)}
             \cup (IF gasIntentOf = NoOne THEN {} ELSE {maxEpochOf(ask.sponsor)}))

builds ==
  /\ run.pc = "aliases" /\ run.read = Len(aliased)
  /\ buildIt(sender, ask.gasOwner, sessionBound)
  /\ Go("building")
  /\ UNCHANGED <<ask, signatures, moved>>

(* Reading the epoch for a default window forgets what it was before.       *)
building ==
  /\ run.pc = "building" /\ BuildNext
  /\ moved' = IF build.pc = "expiring" /\ build.defaulted THEN moved \ {"epoch"} ELSE moved
  /\ UNCHANGED <<ask, run, signatures>>

buildEnds ==
  /\ run.pc = "building"
  /\ \/ build.pc = "failed" /\ Stop(build.failure) /\ build' = NoBuild
     \/ build.pc = "built" /\ Go(IF ask.steps THEN "wallet" ELSE "built") /\ UNCHANGED build
  /\ UNCHANGED <<tx, config, ask, signatures, moved>>

-----------------------------------------------------------------------------
(* The front half: shown to preflight and to whoever approves.              *)

simulateBuilt(shown) ==
  IF build.own THEN shown
  ELSE \/ Executes(tx) /\ shown
       \/ aborting /\ Stop("SimulationFailed")
       \/ ~Covered(tx) /\ Stop("BuildError")
       \/ Stop("TransportError")

frontHalf ==
  /\ run.pc = "built"
  /\ IF ~config.approve /\ ~config.preflight THEN Go("signing")
     ELSE simulateBuilt(
            \/ run' = [run EXCEPT !.prepared = TRUE,
                                  !.pc = IF config.approve THEN "approving" ELSE "signing"]
            \/ config.preflight /\ Stop("PolicyDenied"))
  /\ UNCHANGED <<buildVars, ask, signatures, moved>>

approve ==
  /\ run.pc = "approving"
  /\ \/ run' = [run EXCEPT !.approved = TRUE, !.pc = "signing"]
     \/ Stop("E")
  /\ UNCHANGED <<buildVars, ask, signatures, moved>>

-----------------------------------------------------------------------------
(* The signatures.                                                          *)

signersOfBytes == {tx.sender, payerOf(tx)}

assertSignerAddress(party) == party.address \in signersOfBytes

(* A proof refuses bytes that only become valid after it has ended.         *)
checkMaxEpoch(party) ==
  tx.expiration.kind = "ValidDuring" => \A b \in boundsOf(party) : tx.expiration.from <= b

signed(party) ==
  [by |-> keyOf(party), of |-> "these", bounds |-> boundsOf(party),
   multisig |-> party.multisig, members |-> membersOf(party)]

Signs(party, next) ==
  IF assertSignerAddress(party) /\ checkMaxEpoch(party)
  THEN \/ signatures' = Append(signatures, signed(party)) /\ Go(next)
       \/ Stop("SigningError") /\ UNCHANGED signatures
  ELSE Stop("SigningError") /\ UNCHANGED signatures

sign ==
  /\ run.pc = "signing"
  /\ Signs(ask.signer, "cosigning")
  /\ UNCHANGED <<buildVars, ask, moved>>

(* Whoever else the bytes name has to sign them too.                        *)
cosign ==
  /\ run.pc = "cosigning"
  /\ LET others == signersOfBytes \ {sender}
     IN IF others = {} THEN Go("signed") /\ UNCHANGED signatures
        ELSE IF \E other \in others : ~assertSponsor(other)
        THEN Stop("SigningError") /\ UNCHANGED signatures
        ELSE Signs(ask.sponsor, "signed")
  /\ UNCHANGED <<buildVars, ask, moved>>

onSigned ==
  /\ run.pc = "signed"
  /\ Go("sending") \/ Stop("JournalError")
  /\ UNCHANGED <<buildVars, ask, signatures, moved>>

submit ==
  /\ run.pc = "sending"
  /\ Go(IF Accepted(tx, signatures) THEN "accepted" ELSE "refused")
  /\ UNCHANGED <<buildVars, ask, signatures, moved>>

-----------------------------------------------------------------------------
(* Step by step: the service's bytes go to the sender, who verifies what    *)
(* was sponsored and has a wallet sign; the signature is attached.          *)

verifySponsored == tx.owner # NoOne /\ tx.owner # tx.sender

(* What a wallet hands back: a signature of these bytes, of others, or      *)
(* something that does not parse.  Some schemes are checked by the node.    *)
Handed == [by : Address, of : {"these", "others", "nothing"}, networked : BOOLEAN]

(* Only a check that reaches the node can fail without an answer.           *)
verifyTransactionSignature(handed) ==
  {IF handed.of = "these" THEN "valid" ELSE "SigningError"}
    \cup IF handed.networked /\ handed.of # "nothing" THEN {"TransportError"} ELSE {}

(* By the sender or the gas owner, or by an alias of either.                *)
attachable(by) ==
  by \in signersOfBytes \/ \E a \in signersOfBytes : allows(a, by)

(* The wallet is not the sponsor's.                                         *)
attach ==
  /\ run.pc = "wallet"
  /\ IF ~verifySponsored THEN Stop("PolicyDenied") /\ UNCHANGED signatures
     ELSE \E handed \in Handed : \E outcome \in verifyTransactionSignature(handed) :
       /\ handed.by \notin {payerOf(tx)} \cup aliases[payerOf(tx)]
       /\ IF outcome # "valid" THEN Stop(outcome) /\ UNCHANGED signatures
          ELSE \/ /\ attachable(handed.by)
                  /\ signatures' = <<[by |-> handed.by, of |-> handed.of, bounds |-> {},
                                    multisig |-> FALSE, members |-> <<>>]>>
                  /\ Go("cosigning")
               \/ /\ handed.by \notin signersOfBytes
                  /\ \/ Stop("TransportError")   \* of the read of an alias set
                     \/ ~attachable(handed.by) /\ Stop("PolicyDenied")
                  /\ UNCHANGED signatures
  /\ UNCHANGED <<buildVars, ask, moved>>

-----------------------------------------------------------------------------

Over == run.pc \in {"accepted", "refused", "failed"}

(* The same Transaction object, as the failed run left it, run once more.   *)
runAgain ==
  /\ run.pc = "failed" /\ ask.again /\ run.round < MaxRuns
  /\ run' = [Start EXCEPT !.round = run.round + 1]
  /\ signatures' = <<>>
  /\ build' = NoBuild
  /\ UNCHANGED <<tx, config, ask, moved>>

(* The world moves while a run is under way.                                *)
Moves ==
  /\ ~Over
  /\ \/ EpochTurns /\ moved' = moved \cup {"epoch"}
     \/ (\E a \in Account : Spent(a)) /\ moved' = moved \cup {"balance"}
     \/ (\E a \in Account : AliasesEdited(a)) /\ moved' = moved \cup {"aliases"}
     \/ Aborts /\ moved' = moved \cup {"commands"}
  /\ Cardinality(moved') <= MaxMoved
  /\ UNCHANGED <<buildVars, ask, run, signatures>>

RunNext ==
  \/ Moves
  \/ /\ \/ begin \/ requireAliases \/ builds \/ building \/ buildEnds
        \/ frontHalf \/ approve \/ sign \/ cosign \/ onSigned \/ submit
        \/ attach \/ runAgain
     /\ UNCHANGED networkVars

RunSpec == RunInit /\ [][RunNext]_<<networkVars, buildVars, runVars>>

-----------------------------------------------------------------------------
(* What is sent is what the validators accept, unless the world moved after *)
(* it was read: a default window that has closed, a proof that has ended, a *)
(* balance since spent, an alias set since edited.  Never read are whether  *)
(* an account still lists its own key, and a window of the recipe's own.    *)
OwnKeyUnread(a) ==
  \E i \in DOMAIN signatures : signatures[i].by = a

SentToBeAccepted ==
  run.pc = "sending" =>
    /\ WellFormed(tx)
    /\ InWindow(tx) \/ "epoch" \in moved \/ ~build.defaulted
    /\ Funded(tx) \/ "balance" \in moved
    /\ \A i \in DOMAIN signatures :
         signatures[i].of = "these" /\ (Proven(signatures[i]) \/ "epoch" \in moved)
    /\ \A a \in signersOfBytes :
         \/ \E i \in DOMAIN signatures : signatures[i].by \in aliases[a]
         \/ "aliases" \in moved \/ OwnKeyUnread(a)

(* Nobody signs what a checking simulation has not shown to execute after   *)
(* the last back-off of the resolve, nor before preflight and the approver  *)
(* have seen it.                                                            *)
SignedAsShown ==
  ~Over /\ signatures # <<>> =>
    /\ build.shown
    /\ config.approve /\ ~ask.steps => run.approved
    /\ config.preflight /\ ~ask.steps => run.prepared

(* A window the library chose closes before any of the signatures does, so  *)
(* that a lost transaction is called expired no later than it can run.      *)
WindowWithinProofs ==
  run.pc = "sending" /\ build.defaulted /\ config.expiration # "none" =>
    \A i \in DOMAIN signatures : \A b \in signatures[i].bounds : tx.expiration.to <= b
=============================================================================
