-------------------------------- MODULE Tail --------------------------------
(***************************************************************************)
(* The listings of services/Sui.ts: the finite streams (pagesOf) and the    *)
(* tails (tailOf) over events and transactions, one of them at a time, over *)
(* the read tier and a node's ledger that grows and is pruned meanwhile.    *)
(*                                                                         *)
(* A step ends at each request's answer.  What the caller does with the     *)
(* items is not part of it: emitted is what the stream has given out.       *)
(***************************************************************************)
EXTENDS ReadTier, LedgerNode, SequencesExt

CONSTANTS
  Listings,   \* the calls: see Listing
  MaxFaults   \* bound: attempts that fail or run out of time

(* A tail or a finite stream, in which order, over which filter, from where. *)
(* sdk is a filter the SDK's own listing takes, affected an affectedAddress  *)
(* filter, unpaginable a function filter that is not fully qualified.        *)
Call == [tail : BOOLEAN, order : {"none", "ascending", "descending"},
         filter : {"none", "sdk", "affected", "unpaginable"},
         after : Nat, before : Nat]

ASSUME ListingsAreCalls == Listings \subseteq Call
ASSUME OneSlotPerDigest == 1..LEDGER_PAGE_SIZE \subseteq Slot

VARIABLES
  tail,      \* the loop: see TailTypeOK
  emitted,   \* the positions given out
  horizon,   \* history: the ledger's length at a finite stream's first page
  faults     \* failed attempts so far, against MaxFaults

tailVars == <<tail, emitted, horizon, faults, request, ledger, lowest>>

NoPage == [items |-> <<>>, hasNextPage |-> FALSE, endCursor |-> Nowhere]

NoCall == [tail |-> FALSE, order |-> "ascending", filter |-> "none",
           after |-> Nowhere, before |-> Nowhere]

TailPc == {"idle", "head", "page", "reads", "failed", "ended", "refused"}

(* waited, headCursor and cursor are the loop's; listed is the page whose    *)
(* transactions are being read and read what became of each; quiet is        *)
(* history: the head of the last round, when it found nothing to the end;    *)
(* error is the status, if it has one, of what a stream failed with.         *)
TailTypeOK ==
  /\ LedgerTypeOK
  /\ ReadTypeOK
  /\ tail.pc \in TailPc
  /\ tail.call \in Listings \cup {NoCall}
  /\ {tail.cursor, tail.headCursor, tail.quiet} \subseteq 0..MaxLedger
  /\ tail.listed.endCursor \in 0..MaxLedger
  /\ \A i \in DOMAIN tail.read : tail.read[i] \in {"unread", "found", "gone"}
  /\ tail.error \in Statuses \cup {"none"}
  /\ emitted \in Seq(1..MaxLedger)
  /\ horizon \in 0..MaxLedger /\ faults \in 0..MaxFaults

TailInit ==
  /\ LedgerInit
  /\ ReadInit
  /\ tail = [pc |-> "idle", call |-> NoCall, cursor |-> Nowhere,
             headCursor |-> Nowhere, listed |-> NoPage, read |-> <<>>,
             quiet |-> Nowhere, error |-> "none"]
  /\ emitted = <<>> /\ horizon = 0 /\ faults = 0

-----------------------------------------------------------------------------
(* The call.                                                                *)

(* before alone implies descending.                                         *)
directionOf(call) ==
  CASE call.tail -> "ascending"
    [] ~call.tail /\ call.order # "none" -> call.order
    [] OTHER -> IF call.before # Nowhere THEN "descending" ELSE "ascending"

startOf(call) ==
  IF directionOf(call) = "descending" THEN call.before ELSE call.after

filtered == tail.call.filter # "none"

affected == tail.call.filter = "affected"

(* A function filter the SDK cannot continue is refused before any request. *)
open(call) ==
  /\ tail.pc = "idle" /\ startOf(call) <= Len(ledger)
  /\ tail' = [tail EXCEPT
       !.pc = IF call.filter = "unpaginable" THEN "refused" ELSE "page",
       !.call = call, !.cursor = startOf(call)]
  /\ UNCHANGED <<emitted, horizon, faults, request, ledger, lowest>>

-----------------------------------------------------------------------------
(* One page of digests, from the frames the node sent: listAffectedDigests, *)
(* which is the SDK's own page loop.                                        *)

(* Mutant: a frame with a watermark alone is an item.                       *)
readFrameAny(page, frame) ==
  IF Len(page.digests) >= LEDGER_PAGE_SIZE
  THEN [page EXCEPT !.frontier = frame.watermark, !.sawLookahead = TRUE]
  ELSE [page EXCEPT !.frontier = frame.watermark, !.endCursor = frame.watermark,
                    !.digests = Append(@, frame.digest)]

(* Mutant: the item's cursor is taken before its watermark is read.         *)
readFrameLate(page, frame) ==
  CASE frame.digest = Nowhere -> [page EXCEPT !.frontier = frame.watermark]
    [] Len(page.digests) >= LEDGER_PAGE_SIZE ->
         [page EXCEPT !.frontier = frame.watermark, !.sawLookahead = TRUE]
    [] OTHER -> [page EXCEPT !.frontier = frame.watermark, !.endCursor = page.frontier,
                             !.digests = Append(@, frame.digest)]

readFrame(page, frame) ==
  LET frontier == frame.watermark
      full == Len(page.digests) >= LEDGER_PAGE_SIZE
  IN CASE frame.digest = Nowhere -> [page EXCEPT !.frontier = frontier]
       [] frame.digest # Nowhere /\ full ->
            [page EXCEPT !.frontier = frontier, !.sawLookahead = TRUE]
       [] OTHER -> [page EXCEPT !.frontier = frontier, !.endCursor = frontier,
                                !.digests = Append(@, frame.digest)]

(* The page as it is after each frame.                                      *)
pageAfter(frames) ==
  LET page[n \in 0..Len(frames)] ==
        IF n = 0 THEN [digests |-> <<>>, frontier |-> Nowhere, endCursor |-> Nowhere,
                       sawLookahead |-> FALSE]
        ELSE readFrame(page[n - 1], frames[n])
  IN page

pageOf(listing) ==
  LET page == pageAfter(listing.frames)[Len(listing.frames)]
      hasNextPage == page.sawLookahead \/ listing.reason \in {"itemLimit", "scanLimit"}
  IN [items |-> page.digests,
      hasNextPage |-> hasNextPage,
      endCursor |-> IF page.sawLookahead \/ ~hasNextPage \/ page.frontier = Nowhere
                    THEN page.endCursor ELSE page.frontier]

-----------------------------------------------------------------------------
(* The loop, given a page: where it goes on, what it emits, whether it ends. *)

(* Mutant: a stream stops at a page without items.                          *)
moreItems(page) == page.hasNextPage /\ page.endCursor # Nowhere /\ page.items # <<>>

more(page) == page.hasNextPage /\ page.endCursor # Nowhere

(* An empty page keeps the cursor; a tail that has seen the end without a   *)
(* match moves it to the head it read before the page.                      *)
caughtUp(page) ==
  tail.call.tail /\ ~more(page) /\ page.items = <<>> /\ tail.headCursor # Nowhere

(* Mutant: the cursor stays on the last match.                              *)
endCursorOfMatch(page) ==
  IF page.endCursor = Nowhere THEN tail.cursor ELSE page.endCursor

endCursor(page) ==
  CASE caughtUp(page) -> tail.headCursor
    [] ~caughtUp(page) /\ page.endCursor = Nowhere -> tail.cursor
    [] OTHER -> page.endCursor

next(page) ==
  CASE more(page) -> "page"
    [] ~more(page) /\ ~tail.call.tail -> "ended"
    [] OTHER -> IF filtered THEN "head" ELSE "page"

round(page) ==
  /\ tail' = [tail EXCEPT !.pc = next(page), !.cursor = endCursor(page),
                          !.headCursor = Nowhere, !.listed = NoPage, !.read = <<>>,
                          !.quiet = IF caughtUp(page) THEN tail.headCursor ELSE Nowhere]
  /\ emitted' = emitted \o page.items

-----------------------------------------------------------------------------
(* The requests.                                                            *)

Method1 == IF tail.pc = "page" /\ affected THEN "affectedListing" ELSE "listEvents"

askListing ==
  /\ tail.pc \in {"head", "page"}
  /\ Ask(1, Method1)
  /\ UNCHANGED <<tail, emitted, horizon, faults, ledger, lowest>>

(* Mutant: the head is read after the page, when the ledger may have grown. *)
headReadLate ==
  /\ tail.pc = "head" /\ request[1].pc = "asked"
  /\ Release(1)
  /\ \E head \in Len(ledger)..MaxLedger :
       tail' = [tail EXCEPT !.pc = "page", !.headCursor = head]
  /\ UNCHANGED <<emitted, horizon, faults, ledger, lowest>>

(* eventsHead, transactionsHead: the cursor of the newest position, read    *)
(* before the page.                                                         *)
headRead ==
  /\ tail.pc = "head" /\ request[1].pc = "asked"
  /\ Release(1)
  /\ tail' = [tail EXCEPT !.pc = "page", !.headCursor = Len(ledger)]
  /\ UNCHANGED <<emitted, horizon, faults, ledger, lowest>>

(* eventsPage, sdkTransactionsPage: the items come with the page.           *)
pageRead ==
  LET order == directionOf(tail.call)
  IN /\ tail.pc = "page" /\ request[1].pc = "asked"
     /\ ~OutOfRange(order, tail.cursor)
     /\ Release(1)
     /\ horizon' = IF horizon = 0 /\ ~tail.call.tail THEN Len(ledger) ELSE horizon
     /\ \E listing \in Closings(Listing(filtered, order, tail.cursor)) :
          \E page \in {pageOf(listing)} :
            IF affected /\ page.items # <<>>
            THEN /\ tail' = [tail EXCEPT !.pc = "reads", !.listed = page,
                                         !.read = [i \in DOMAIN page.items |-> "unread"]]
                 /\ UNCHANGED emitted
            ELSE round(page)
     /\ UNCHANGED <<faults, ledger, lowest>>

(* affectedPage: each digest of the page is read, several at once.          *)
askListed(i) ==
  /\ tail.pc = "reads" /\ tail.read[i] = "unread"
  /\ Ask(i, "getTransaction")
  /\ UNCHANGED <<tail, emitted, horizon, faults, ledger, lowest>>

(* readListed: a transaction pruned between the listing and the read is     *)
(* left out.                                                                *)
readListed(i) ==
  /\ tail.pc = "reads" /\ request[i].pc = "asked"
  /\ Release(i)
  /\ tail' = [tail EXCEPT !.read[i] =
       IF tail.listed.items[i] > lowest THEN "found" ELSE "gone"]
  /\ UNCHANGED <<emitted, horizon, faults, ledger, lowest>>

listedRead ==
  LET items == tail.listed.items
      found == Kept(items, {i \in DOMAIN items : tail.read[i] = "found"})[Len(items)]
  IN /\ tail.pc = "reads"
     /\ \A i \in DOMAIN tail.read : tail.read[i] # "unread"
     /\ round([tail.listed EXCEPT !.items = found])
     /\ UNCHANGED <<horizon, faults, request, ledger, lowest>>

(* An attempt fails, in a way that may pass or not, or runs out of time.    *)
attemptFails(s) ==
  /\ tail.pc \in {"head", "page", "reads"}
  /\ faults < MaxFaults
  /\ faults' = faults + 1
  /\ \/ \E cause \in {"UNAVAILABLE", "UNIMPLEMENTED"} :
           Throws(s, [class |-> "transport", cause |-> cause])
     \/ TimesOut(s)
  /\ UNCHANGED <<tail, emitted, horizon, ledger, lowest>>

(* The node has pruned past the cursor and says so.                         *)
outOfRange ==
  /\ tail.pc = "page" /\ request[1].pc = "asked"
  /\ OutOfRange(directionOf(tail.call), tail.cursor)
  /\ Throws(1, [class |-> "transport", cause |-> "OUT_OF_RANGE"])
  /\ UNCHANGED <<tail, emitted, horizon, faults, ledger, lowest>>

again(s) ==
  /\ tail.pc \in {"head", "page", "reads"}
  /\ Again(s)
  /\ UNCHANGED <<tail, emitted, horizon, faults, ledger, lowest>>

(* Mutant: a tail gives up when the read tier does.                         *)
persistentlyNot(error) == FALSE

(* A request failed for good.  A tail asks again from its cursor when the    *)
(* failure may pass (persistently: the head, or the whole page with its     *)
(* listing and its other reads interrupted); anything else ends the stream. *)
persistently(error) == tail.call.tail /\ error.retryable

readFailed(s) ==
  /\ tail.pc \in {"head", "page", "reads"} /\ request[s].pc = "done"
  /\ request' = [t \in Slot |-> Idle]
  /\ tail' = [tail EXCEPT
       !.pc = IF persistently(request[s].answer)
              THEN IF tail.pc = "head" THEN "head" ELSE "page"
              ELSE "failed",
       !.error = IF persistently(request[s].answer) THEN "none" ELSE request[s].answer.status,
       !.listed = NoPage, !.read = <<>>]
  /\ UNCHANGED <<emitted, horizon, faults, ledger, lowest>>

(* An item of the page, or a transaction of it, does not decode: the stream  *)
(* ends at once, its other reads interrupted.  A digest or a head is taken   *)
(* as it comes.                                                              *)
undecoded(s) ==
  /\ request[s].pc = "asked"
  /\ \/ /\ tail.pc = "page" /\ ~affected /\ ~OutOfRange(directionOf(tail.call), tail.cursor)
        /\ pageOf(Listing(filtered, directionOf(tail.call), tail.cursor)).items # <<>>
     \/ tail.pc = "reads" /\ tail.listed.items[s] > lowest
  /\ faults < MaxFaults /\ faults' = faults + 1
  /\ request' = [t \in Slot |-> Idle]
  /\ tail' = [tail EXCEPT !.pc = "failed", !.error = "none", !.listed = NoPage, !.read = <<>>]
  /\ UNCHANGED <<emitted, horizon, ledger, lowest>>

-----------------------------------------------------------------------------
nodeMoves ==
  /\ LedgerNext
  /\ UNCHANGED <<tail, emitted, horizon, faults, request>>

loop ==
  \/ askListing \/ headRead \/ pageRead \/ outOfRange \/ listedRead
  \/ \E i \in DOMAIN tail.read : askListed(i) \/ readListed(i)
  \/ \E s \in Slot : again(s) \/ readFailed(s)

TailNext ==
  \/ \E call \in Listings : open(call)
  \/ loop
  \/ \E s \in Slot : attemptFails(s) \/ undecoded(s)
  \/ nodeMoves

TailSpec == TailInit /\ [][TailNext]_tailVars

(* The client goes on and the node answers; it may stop growing and never    *)
(* prunes because it must.  This is WF_tailVars(loop), with ENABLED loop     *)
(* written out: some listing is between its first call and its end.          *)
TailFairness == []<>(tail.pc \notin {"head", "page", "reads"}) \/ []<><<loop>>_tailVars

-----------------------------------------------------------------------------
(* Properties.                                                              *)

Matches == {p \in 1..Len(ledger) : filtered => ledger[p]}

Emitted == ToSet(emitted)

Start == startOf(tail.call)

(* A match that is pruned is out of reach of a stream that began wherever    *)
(* the ledger began, and of one that lists a digest first and reads it later. *)
Forgiven(p) == p <= lowest /\ (Start = Nowhere \/ affected)

(* Nothing the cursor has passed is missing: whatever matches between the    *)
(* start and the cursor was given out, through moves of the cursor to the    *)
(* head, scan-limited pages without items, look-ahead items and retries.     *)
NothingSkipped ==
  \A p \in Matches :
    (IF directionOf(tail.call) = "ascending"
     THEN Start < p /\ p <= tail.cursor
     ELSE tail.cursor # Nowhere /\ tail.cursor <= p /\ (Start # Nowhere => p < Start)
            /\ p <= horizon)
      => p \in Emitted \/ Forgiven(p)

(* The items come in ledger order, each once, although pages are read again  *)
(* after a failure and a tail's cursor follows the head.                     *)
InOrderOnce ==
  \A i, j \in DOMAIN emitted :
    i < j => IF directionOf(tail.call) = "ascending" THEN emitted[i] < emitted[j]
             ELSE emitted[i] > emitted[j]

(* A stream that ended by itself was whole: every match the ledger held at   *)
(* its first page, on the stream's side of its start, was given out.         *)
EndedWhole ==
  tail.pc = "ended" =>
    \A p \in Matches :
      /\ p <= horizon
      /\ Start # Nowhere =>
           IF directionOf(tail.call) = "ascending" THEN p > Start ELSE p < Start
      => p \in Emitted \/ p <= lowest

(* What a stream gives out is the listing itself: in ledger order, each      *)
(* match once, and all of them when it ends, through pages read again after  *)
(* a failure, late answers and a cursor that follows the head.               *)
StreamIsTheListing == InOrderOnce /\ EndedWhole

(* A tail dies of pruning only when it is overtaken: one whose last look      *)
(* found nothing up to the end has its cursor refused only when the node has  *)
(* since pruned past the head it had read before that look.                   *)
QuietTailNotStranded ==
  tail.pc = "failed" /\ tail.error = "OUT_OF_RANGE" /\ tail.call.tail /\ tail.quiet # Nowhere =>
    lowest > tail.quiet

(* A tail reads on: what matches after its start is given out, or pruned, or  *)
(* the tail has failed; and it fails of nothing that may pass, and has its    *)
(* cursor refused only when it was overtaken.                                *)
TailCatchesUp ==
  \A p \in 1..MaxLedger :
    (tail.call.tail /\ tail.pc \in {"head", "page", "reads"} /\ p \in Matches /\ p > Start)
      ~> \/ p \in Emitted \/ p <= lowest
         \/ /\ tail.pc = "failed" /\ tail.error \notin RETRYABLE_GRPC_STATUSES
            /\ tail.error = "OUT_OF_RANGE" => tail.cursor < lowest
=============================================================================
