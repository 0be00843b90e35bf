\* Two contexts, two digests: listings and prunes fan out while the other
\* context puts; any store an earlier process can have left.
CONSTANTS
  c1 = c1
  c2 = c2
  d1 = d1
  d2 = d2
  Clients <- TwoClients
  Digests <- TwoDigests
  Stamps = {1, 2}
  PutTags = {"Signed", "Unknown", "Executed"}
  MaxOps = 1
SPECIFICATION FairSpec
INVARIANTS TypeOK NoHiddenUnresolved ListingComplete
PROPERTIES OpenedOverNothingOwed PruneDeletesOnlyRead HiddenIsTransient
CHECK_DEADLOCK FALSE
