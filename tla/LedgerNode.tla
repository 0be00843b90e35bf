----------------------------- MODULE LedgerNode -----------------------------
(***************************************************************************)
(* A node's ledger as the listings of services/Sui.ts rely on it: positions *)
(* that are appended and, oldest first, pruned, and the stream of frames a  *)
(* listing answers with.  External: modelled from what listAffectedDigests  *)
(* reads and from the statuses the streams document.                        *)
(*                                                                         *)
(* One node.  The frames of one listing are read from one state of it.      *)
(***************************************************************************)
EXTENDS Naturals, Sequences

CONSTANTS
  MaxLedger,   \* bound: positions
  ScanLimit,   \* positions a filtered listing looks at
  LEDGER_PAGE_SIZE

ASSUME LimitsPositive ==
  MaxLedger \in Nat /\ {ScanLimit, LEDGER_PAGE_SIZE} \subseteq Nat \ {0}

VARIABLES
  ledger,      \* whether each position matches the filter
  lowest       \* positions up to this one are pruned

LedgerTypeOK ==
  /\ ledger \in Seq(BOOLEAN) /\ Len(ledger) <= MaxLedger
  /\ lowest \in 0..Len(ledger)

LedgerInit == ledger = <<>> /\ lowest = 0

Append1 ==
  /\ Len(ledger) < MaxLedger
  /\ \E matches \in BOOLEAN : ledger' = Append(ledger, matches)
  /\ UNCHANGED lowest

(* The newest position is kept.                                             *)
Prune1 ==
  /\ lowest + 1 < Len(ledger)
  /\ lowest' = lowest + 1
  /\ UNCHANGED ledger

LedgerNext == Append1 \/ Prune1

-----------------------------------------------------------------------------
(* A cursor names a position; Nowhere is no cursor.                         *)

Nowhere == 0

(* The position after, or before, the cursor has been pruned.               *)
OutOfRange(order, cursor) ==
  /\ cursor # Nowhere
  /\ IF order = "ascending" THEN cursor < lowest ELSE cursor <= lowest

(* The positions left to list, in the order of the listing.                 *)
Listable(order, cursor) ==
  IF order = "ascending"
  THEN LET from == IF cursor < lowest THEN lowest ELSE cursor
       IN [i \in 1..(Len(ledger) - from) |-> from + i]
  ELSE LET to == IF cursor = Nowhere THEN Len(ledger) + 1 ELSE cursor
       IN [i \in 1..(to - 1 - lowest) |-> to - i]

(* The elements at some places of the first n of a sequence, for each n.    *)
Kept(seq, places) ==
  LET kept[n \in 0..Len(seq)] ==
        IF n = 0 THEN <<>>
        ELSE IF n \in places THEN Append(kept[n - 1], seq[n]) ELSE kept[n - 1]
  IN kept

(* What the node sends: a frame for each match it meets, with its           *)
(* watermark, until it has sent the limit or looked at ScanLimit positions; *)
(* then a watermark of where it stopped and why.                            *)
Listing(filtered, order, cursor) ==
  LET all == Listable(order, cursor)
      Sent == Kept(all, {i \in 1..Len(all) : filtered => ledger[all[i]]})
      Stops(n) == n \in {Len(all), ScanLimit} \/ Len(Sent[n]) = LEDGER_PAGE_SIZE + 1
      looked == CHOOSE n \in 0..Len(all) :
                  Stops(n) /\ \A k \in 0..(n - 1) : ~Stops(k)
      sent == Sent[looked]
  IN [frames |-> [i \in 1..Len(sent) |-> [watermark |-> sent[i], digest |-> sent[i]]]
                   \o (IF looked = 0 THEN <<>>
                       ELSE <<[watermark |-> all[looked], digest |-> Nowhere]>>),
      reason |-> CASE Len(sent) = LEDGER_PAGE_SIZE + 1 -> "itemLimit"
                   [] Len(sent) # LEDGER_PAGE_SIZE + 1 /\ looked < Len(all) -> "scanLimit"
                   [] OTHER -> "end"]

(* How the stream closes: with an end frame that says why, or without one.  *)
(* Sui.ts takes a stream without one for all there is, unless a look-ahead  *)
(* item came.  So a node that sends none is assumed to stop at no scan      *)
(* limit, and a stream that is cut short to fail its call.                  *)
Closings(listing) ==
  {listing} \cup {closed \in {[listing EXCEPT !.reason = "unsaid"]} : listing.reason # "scanLimit"}
=============================================================================
