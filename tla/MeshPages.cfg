\* West pulls from east: pages of one record, one restart or lost answer.
SPECIFICATION MeshFairSpec
CONSTANTS
  Relays = {"east", "west"}
  PeersOf <- mcOneWay
  PageSize = 1
  PagesPerSync = 2
  MessageIDs = {"m1"}
  AckIDs = {"n1", "r1"}
  Parties = {"alice", "bob"}
  Tags = {"tagB"}
  PurgeHashes = {"hashA"}
  Credentials = {}
  EnvelopeOf <- mcEnvelopeOf
  AckOf <- mcAckOf
  NodeReceived <- mcNodeReceived
  TermsOf <- mcTermsOf
  MaxMessages = 2
  MaxAcks = 4
  MaxPurges = 1
  MaxPerPair = 2
  MaxTTL = 2
  DefaultTTL = 2
  Expiries = {2}
  ClockEnd = 2
  MaxArrivals = 4
  MaxFaults = 1
INVARIANT NothingSkipped
PROPERTIES NothingRevived MailSpreads DoneSpreads
