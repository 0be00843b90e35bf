------------------------------ MODULE MCReads ------------------------------
(***************************************************************************)
(* An instance of the read side for TLC: a program does one of three things *)
(* over the read tier, and the others rest.  It calls a method of SuiCore,  *)
(* follows or lists the ledger (Tail), or reads through Sui (SuiReads).     *)
(***************************************************************************)
EXTENDS Tail, SuiReads

VARIABLE doing

SomeListings ==
  LET L(t, o, f, a, b) == [tail |-> t, order |-> o, filter |-> f, after |-> a, before |-> b]
  IN {L(TRUE, "none", "sdk", 1, 0), L(TRUE, "none", "affected", 0, 0),
      L(TRUE, "none", "none", 1, 0), L(FALSE, "none", "sdk", 0, 0),
      L(FALSE, "none", "affected", 0, 4), L(FALSE, "descending", "sdk", 0, 0),
      L(FALSE, "none", "unpaginable", 0, 0)}

SomeThrown ==
  [class : {"object"}, ours : {FALSE, TRUE}, reason : {"notFound", "deleted", "unknown"}]
    \cup [class : {"transaction"}, ours : {FALSE, TRUE}]
    \cup [class : {"simulation"}, ours : {TRUE}, executionError : BOOLEAN,
          causes : {<<>>, <<"other", "TypeError">>, <<"NOT_FOUND", "UNAVAILABLE">>,
                    <<"other", "other", "other", "other", "INTERNAL">>}]
    \cup [class : {"transport"},
          cause : {"UNAVAILABLE", "OUT_OF_RANGE", "NOT_FOUND", "UNIMPLEMENTED", "TypeError"}]
    \cup [class : {"argument", "marked"}]

(* Three spellings of two objects, more than two chunks of one.             *)
SomeKeys == [id \in {"0xa", "0x00a", "0xb", "0xc"} |->
               CASE id = "0xb" -> "b" [] id = "0xc" -> "c" [] OTHER -> "a"]

SomeBatches == {<<"0xa", "0xb", "0x00a", "0xc">>, <<"0x00a", "0xa">>, <<>>}

Init ==
  /\ TailInit /\ ReadsInit
  /\ doing \in {"calling", "listing", "reading"}

(* Calls of the read tier itself need one slot.                             *)
Calling ==
  \/ \E m \in Method : Ask(1, m)
  \/ \E thrown \in Thrown : Throws(1, thrown)
  \/ Answers(1) \/ TimesOut(1) \/ Again(1) \/ Release(1)

ledgerVars == <<tail, emitted, horizon, faults, ledger, lowest>>

Next ==
  /\ UNCHANGED doing
  /\ \/ doing = "calling" /\ Calling /\ UNCHANGED <<ledgerVars, read, told, holding>>
     \/ doing = "listing" /\ TailNext /\ UNCHANGED <<read, told, holding>>
     \/ doing = "reading" /\ ReadsNext /\ UNCHANGED ledgerVars

vars == <<doing, read, told, holding, tailVars>>

Spec == Init /\ [][Next]_vars /\ ReadFairness /\ TailFairness

(* A listing's cursor, rounds and pages and a read's results keep their types. *)
TypeOK == TailTypeOK /\ ReadsTypeOK
=============================================================================
