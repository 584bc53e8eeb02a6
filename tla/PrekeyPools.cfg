\* Two devices of one owner compete for one pool; the clock reading may be late.
SPECIFICATION FairSpec
CONSTANTS
  OwnerTags = {"tagB"}
  DeviceKeys = {"phone", "laptop"}
  OpkIDs = {"a", "b"}
  Publications <- mcPublications
  MaxPerRecipient = 2
  MaxBuckets = 1
  PublishedTTL = 3
  ClaimBurst = 1
  ClaimRefill = 2
  MaxLag = 1
  Horizon = 7
  LastPublish = 4
  MaxAdmitted = 4
INVARIANTS OneHolderPerEntry PoolsBounded DrainThrottled
PROPERTY PoolsLapse
