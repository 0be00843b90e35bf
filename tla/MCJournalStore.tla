--------------------------- MODULE MCJournalStore ---------------------------
(***************************************************************************)
(* Instances of JournalStore for TLC.                                      *)
(***************************************************************************)
EXTENDS JournalStore

CONSTANTS c1, c2, d1, d2

TwoClients == {c1, c2}

OneDigest == {d1}

TwoDigests == {d1, d2}
=============================================================================
