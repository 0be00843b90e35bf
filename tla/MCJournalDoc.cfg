\* Two contexts, one digest: the exception the doc comment of make allows.
CONSTANTS
  c1 = c1
  c2 = c2
  d1 = d1
  d2 = d2
  Clients <- TwoClients
  Digests <- OneDigest
  Stamps = {1, 2}
  PutTags = {"Unknown", "Executed"}
  MaxOps = 2
SPECIFICATION Spec
INVARIANTS HiddenOnlyByDeadSettler
CHECK_DEADLOCK FALSE
