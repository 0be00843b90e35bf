------------------------------ MODULE MCWrites ------------------------------
(***************************************************************************)
(* An instance of the write side for TLC: one run of Tx.run (or its steps   *)
(* by hand), one fold, the receipts of one transaction, a test against the  *)
(* scripted client, or a failure told of.  The asks fall in families, so    *)
(* that what is unlike does not multiply: who signs, what pays, what is run *)
(* again.                                                                   *)
(***************************************************************************)
EXTENDS Run, Fold, Receipts, Scripted, Failures

VARIABLE doing

Party(address, alias, multisig, given) ==
  [address |-> address, alias |-> alias, multisig |-> multisig, given |-> given]

Plain == Party("account", NoOne, FALSE, <<0>>)

SponsorParty == Party("sponsor", NoOne, FALSE, <<0>>)

(* Key 0 has no bound, key 1 a proof of epoch 1, key 2 one of epoch 2.      *)
SomeBounds == [k \in 0..2 |-> IF k = 0 THEN Unbounded ELSE k]

SomeSenders ==
  {Plain, Party("account", NoOne, FALSE, <<1>>), Party("account", "key", FALSE, <<0>>),
   Party("account", NoOne, TRUE, <<2, 0>>), Party("account", NoOne, TRUE, <<2, 2>>)}

SomeSponsors ==
  {NoParty, SponsorParty, Party("sponsor", NoOne, FALSE, <<1>>),
   Party("sponsor", "key", FALSE, <<0>>), Party("key", NoOne, FALSE, <<0>>)}

Ask(signer, sponsor, gasOwner, steps) ==
  [signer |-> signer, sponsor |-> sponsor, gasOwner |-> gasOwner, steps |-> steps,
   again |-> FALSE]

SomeAsks ==
  {Ask(s, p, g, FALSE) : s \in SomeSenders, p \in SomeSponsors, g \in {NoOne, "sponsor"}}
    \cup {Ask(Plain, SponsorParty, "sponsor", TRUE), Ask(Plain, NoParty, NoOne, TRUE),
          Ask(Plain, Party("key", NoOne, FALSE, <<0>>), "sponsor", TRUE)}

Draft ==
  [sender |-> "account", owner |-> NoOne, unresolved |-> TRUE, owned |-> FALSE, gas |-> "no",
   price |-> FALSE, budget |-> Unset, payment |-> "unset", reserved |-> 0,
   withdraws |-> NoOne, gasless |-> "no", expiration |-> Unsaid]

Payment ==
  {t \in {[Draft EXCEPT !.owner = o, !.unresolved = u, !.owned = w, !.gas = g, !.price = ~u,
                 !.budget = b, !.payment = p, !.withdraws = x] :
     o \in {NoOne, "sponsor"}, u \in BOOLEAN, w \in BOOLEAN, g \in {"no", "intent", "yes"},
     b \in {Unset, 1}, p \in {"unset", "empty"}, x \in {NoOne, "Sender"}} :
     t.unresolved \/ t.budget = 1}
    \cup {[Draft EXCEPT !.budget = 2], [Draft EXCEPT !.payment = "coins"],
          [Draft EXCEPT !.gasless = "hoped"], [Draft EXCEPT !.gasless = "required"],
          [Draft EXCEPT !.payment = "empty", !.owner = "sponsor", !.withdraws = "Sponsor"]}

Windows ==
  {[tx |-> Unsaid, default |-> d] : d \in {"validDuring", "epoch", "none"}}
    \cup {[tx |-> w, default |-> "validDuring"] : w \in {ValidDuring(2, 2), UntilEpoch(1)}}

(* Who signs: over a draft that is paid for from coins.  The sponsor's alias *)
(* set matters only where it is asked for.                                  *)
AboutParties ==
  /\ ask \in SomeAsks
  /\ \E w \in Windows, shown \in BOOLEAN :
       /\ tx = [Draft EXCEPT !.owned = TRUE, !.payment = "coins", !.expiration = w.tx]
       /\ config = [expiration |-> w.default, gasPayment |-> "preferAddressBalance",
                    preflight |-> shown, approve |-> shown, client |-> "core"]
  /\ balance = [a \in Account |-> 0]
  /\ aliases \in {f \in [Account -> {{"account"}, {"sponsor"}, {"key"}}] :
                   \A a \in Account : f[a] \in {{a}, {"key"}}}
  /\ ask.sponsor.address # "sponsor" => aliases["sponsor"] = {"sponsor"}

(* What pays: with the parties there are.  An owned input matters only      *)
(* without a window, and which resolver there is only where it resolves.    *)
AboutPayment ==
  /\ tx \in Payment
  /\ ask = Ask(Plain, IF tx.owner = NoOne THEN NoParty ELSE SponsorParty, NoOne, FALSE)
  /\ config \in {c \in Config : ~c.preflight /\ ~c.approve}
  /\ balance \in [Account -> 0..MaxBalance]
  /\ IF tx.owner = "sponsor" THEN balance["account"] <= 1 ELSE balance["sponsor"] = 0
  /\ tx.owned => config.expiration = "epoch"
  /\ ~tx.unresolved \/ tx.withdraws # NoOne => config.client = "core"
  /\ aliases = [a \in Account |-> {a}]

(* A Transaction object run again after its run failed.                     *)
AboutAgain ==
  /\ tx \in {[Draft EXCEPT !.gas = g, !.budget = b] : g \in {"no", "intent", "yes"},
                                                     b \in {Unset, 1}}
  /\ ask = [Ask(Plain, NoParty, NoOne, FALSE) EXCEPT !.again = TRUE]
  /\ config \in {c \in Config : ~c.preflight /\ ~c.approve}
  /\ balance \in [Account -> 0..MaxBalance] /\ balance["sponsor"] = 0
  /\ aliases = [a \in Account |-> {a}]

Answer(tag, value) == [tag |-> tag, value |-> value]

SomeScripts ==
  {<<>>, <<Answer("transportError", 0), Answer("succeed", 1)>>,
   <<Answer("hang", 0), Answer("failWith", 2)>>}

(* Two spellings of one object, and of one coin type.                       *)
SomeIds == [id \in {"0x1", "0x01", "0x2", "0x6"} |-> IF id = "0x01" THEN "0x1" ELSE id]

(* Two fields of one name, one without a child before one that has one, and *)
(* those of a parent whose id the script does not spell in full, which no   *)
(* read finds.                                                              *)
SomeFields ==
  LET F(name, child) == [name |-> name, child |-> child]
  IN [parent \in {"0x1", "0x01"} |->
        IF parent = "0x1" THEN <<F("k", "0x01"), F("k", "0x2"), F("n", NoChild), F("n", "0x6")>>
        ELSE <<F("k", "0x6")>>]

SomeTypes == [type \in {"0x2::sui::SUI", "0x02::sui::SUI"} |-> "0x2::sui::SUI"]

(* Every sort of failure, over each cause, each thing a message may do and   *)
(* each thing a value without one may be called by.                          *)
SomeShapes ==
  LET R(does, to) == [does |-> does, to |-> to]
      Made(whose, whole, cause, outcome, message, name) ==
        [whose |-> whose, whole |-> whole, cause |-> cause, outcome |-> outcome,
         message |-> message, name |-> name]
      quiet == {"says", "nothing", "throws"}
      calls == {"describe", "toJson"}
  IN [e \in Error |->
        {Made("taxonomy", w, c, "none", R("nothing", e), R("says", e)) :
           w \in BOOLEAN, c \in Error \cup {NoError}}
          \cup {Made("config", TRUE, c, "none", R("nothing", e), R("says", e)) :
                  c \in Error \cup {NoError}}
          \cup {Made("library", TRUE, NoError, "unknown", R(d, t), R("says", e)) :
                  d \in quiet \cup calls, t \in Error}
          \cup {Made("library", FALSE, NoError, "unknown", R(d, e), R("says", e)) :
                  d \in {"nothing", "throws", "toJson"}}
          \cup {Made("library", w, NoError, "unknown", R(d, e), R("nothing", e)) :
                  w \in BOOLEAN, d \in {"says", "nothing"}}
          \cup {Made("nobody", w, NoError, "none", R(d, e), R(n, e)) :
                  w \in BOOLEAN, d \in {"says", "throws"}, n \in {"says", "nothing"}}
          \cup {Made("nobody", FALSE, NoError, "none", R("nothing", e), R(n, t)) :
                  n \in {"throws"} \cup calls, t \in Error}
          \cup {Made("nobody", FALSE, NoError, "none", R("describe", e), R("describe", e))}]

(* Nothing is under way but what the program is doing.                      *)
NoRun ==
  /\ ask = Ask(Plain, NoParty, NoOne, FALSE) /\ tx = Draft
  /\ config = CHOOSE c \in Config : TRUE
  /\ balance = [a \in Account |-> 0] /\ aliases = [a \in Account |-> {a}]

NoFolding == purse = [c \in Coin |-> Gone] /\ saved = 0 /\ fold = NoFold /\ others = FALSE

(* The caps are alike, so which of the two is which is left out.            *)
AlikeCaps ==
  LET There == Owned("AddressOwner", "alice", 0)
  IN <<before["c"], before["d"]>> \notin {<<There, Out("absent")>>, <<There, Out("wrapped")>>,
                                          <<Out("absent"), Out("wrapped")>>}

(* The coins of SUI are too: the plan sorts them by their worth.             *)
AlikeCoins == \A c, d \in SuiCoin : c < d => purse[c] >= purse[d]

NoReceipt ==
  /\ before = [id \in Thing \cup Package |-> Out("absent")] /\ now = before
  /\ governs = [p \in Package |-> {}]
  /\ commands = [done |-> 0, touched |-> {}, events |-> <<>>, aborted |-> FALSE]
  /\ receipt = [tag |-> "none"]

NoTest ==
  /\ objects = << >> /\ clock = 0 /\ deposits = [h \in Holder |-> << >>] /\ log = <<>>
  /\ outcomes = [m \in Scripting |-> [list |-> <<>>, next |-> 0]]
  /\ answered = [b \in Bytes |-> NoAnswer] /\ callers = [c \in Caller |-> Idle]

NoTelling ==
  /\ heap = [e \in Error |-> CHOOSE shape \in Shapes[e] : TRUE]
  /\ stack = <<>> /\ READING = {} /\ SERIALIZING = {}
  /\ returned = Pending /\ asked = <<>> /\ lines = << >>

Init ==
  /\ epoch = 1 /\ aborting = FALSE
  /\ doing \in {"running", "folding", "receiving", "holding", "answering", "telling"}
  /\ \/ doing = "running" /\ (AboutParties \/ AboutPayment \/ AboutAgain)
     \/ doing # "running" /\ NoRun
  /\ RunInit
  /\ IF doing = "folding" THEN FoldInit /\ AlikeCoins ELSE NoFolding
  /\ IF doing = "receiving" THEN ReceiptsInit /\ AlikeCaps ELSE NoReceipt
  /\ IF doing \in {"holding", "answering"} THEN ScriptedInit ELSE NoTest
  /\ doing = "holding" => \A m \in Scripting : outcomes[m].list = <<>>
  /\ IF doing = "telling" THEN FailuresInit ELSE NoTelling

running == <<networkVars, buildVars, runVars>>

Next ==
  /\ UNCHANGED doing
  /\ \/ /\ doing = "running" /\ RunNext
        /\ UNCHANGED <<foldVars, receiptVars, scriptedVars, failureVars>>
     \/ /\ doing = "folding" /\ FoldNext
        /\ UNCHANGED <<running, receiptVars, scriptedVars, failureVars>>
     \/ /\ doing = "receiving" /\ ReceiptsNext
        /\ UNCHANGED <<running, foldVars, scriptedVars, failureVars>>
     \/ /\ \/ doing = "holding" /\ Holdings
           \/ doing = "answering" /\ Answering
        /\ UNCHANGED <<running, foldVars, receiptVars, failureVars>>
     \/ /\ doing = "telling" /\ FailuresNext
        /\ UNCHANGED <<running, foldVars, receiptVars, scriptedVars>>

vars == <<doing, running, foldVars, receiptVars, scriptedVars, failureVars>>

Spec == Init /\ [][Next]_vars

(* The draft, the call's state and the plan keep their types: attempts stay  *)
(* bounded, batches within what one transaction takes, budgets within what a *)
(* resolver or the caller sets.                                              *)
TypeOK == RunTypeOK /\ FoldTypeOK
=============================================================================
