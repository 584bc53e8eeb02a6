\* Two messages of one lane and one owner, an id that comes back under another tag or none,
\* and a circle with one slot; every window closes in time.
SPECIFICATION FairSpec
CONSTANTS
  MessageIDs = {"m1", "m2"}
  AckIDs = {"n1", "n2", "d1", "r1", "x1"}
  Parties = {"alice", "bob"}
  Tags = {"tagB", "tagC"}
  PurgeHashes = {"hashA"}
  Credentials = {1}
  EnvelopeOf <- mcEnvelopeOf
  AckOf <- mcAckOf
  NodeReceived <- mcNodeReceived
  TermsOf <- mcTermsOf
  MaxMessages = 2
  MaxAcks = 3
  MaxPurges = 1
  MaxPerPair = 2
  MaxTTL = 2
  DefaultTTL = 1
  RequireFetchAuth = FALSE
  Meshed = TRUE
  StampsOf <- mcReused
  Requests = {1, 4}
  MaxLag = 1
  Horizon = 4
  LastArrival = 2
  MaxSeq = 5
INVARIANTS TypeOK CountersAgree ArrivalsAgree IndexesAgree PurgedStayOut WindowsHold Capacity ReserveAfterSweep OnlyBoundTagAcks
PROPERTIES PurgeIsComplete ArrivalsStable OwnerBound EverythingLeaves ImplementsMailbox
