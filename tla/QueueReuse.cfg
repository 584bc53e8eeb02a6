\* An id that comes back with another tag, at an enforcing relay without peers.
SPECIFICATION Spec
CONSTANTS
  MessageIDs = {"m1"}
  AckIDs = {"n1", "d1", "r1"}
  Parties = {"alice", "bob"}
  Tags = {"tagB", "tagC"}
  PurgeHashes = {"hashA"}
  Credentials = {}
  EnvelopeOf <- mcEnvelopeOf
  AckOf <- mcAckOf
  NodeReceived <- mcNodeReceived
  TermsOf <- mcTermsOf
  MaxMessages = 1
  MaxAcks = 4
  MaxPurges = 1
  MaxPerPair = 2
  MaxTTL = 2
  DefaultTTL = 1
  RequireFetchAuth = TRUE
  Meshed = FALSE
  StampsOf <- mcReused
  Requests = {0, 9}
  MaxLag = 0
  Horizon = 4
  LastArrival = 3
  MaxSeq = 7
INVARIANT OnlyOwnerAcks
