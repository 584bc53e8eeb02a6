\* One pool whose owner repeats a publish.
SPECIFICATION Spec
CONSTANTS
  OwnerTags = {"tagB"}
  DeviceKeys = {"phone"}
  OpkIDs = {"a", "b"}
  Publications <- mcPublications
  MaxPerRecipient = 2
  MaxBuckets = 1
  PublishedTTL = 3
  ClaimBurst = 2
  ClaimRefill = 1
  MaxLag = 0
  Horizon = 3
  LastPublish = 3
  MaxAdmitted = 6
INVARIANT NeverTwoSenders
