\* One message at a time, so that every ack but one is left over from an earlier one.
SPECIFICATION Spec
CONSTANTS
  MessageIDs = {"m1", "m2", "m3"}
  AckIDs = {"n1", "n2", "n3"}
  Parties = {"alice", "bob", "carol"}
  Tags = {"tagB"}
  PurgeHashes = {"hashA"}
  Credentials = {1}
  EnvelopeOf <- mcEnvelopeOf
  AckOf <- mcAckOf
  NodeReceived <- mcNodeReceived
  TermsOf <- mcTermsOf
  MaxMessages = 1
  MaxAcks = 2
  MaxPurges = 1
  MaxPerPair = 2
  MaxTTL = 2
  DefaultTTL = 1
  RequireFetchAuth = FALSE
  Meshed = TRUE
  StampsOf <- mcOneTag
  Requests = {0, 3}
  MaxLag = 0
  Horizon = 4
  LastArrival = 3
  MaxSeq = 6
INVARIANT AcksNeverRefuseMessages
