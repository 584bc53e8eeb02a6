\* Two slots for three grant hashes of two owners, and one record a caller's share of them.
SPECIFICATION FairSpec
CONSTANTS
  Grants <- mcGrants
  OwnerOf <- mcOwnerOf
  Callers = {"nobody", "tag1", "tag2"}
  Nobody = "nobody"
  maxRecords = 2
  maxRecordsPerCaller = 1
  Lease = 1
  lastSeenTTL = 1
  Dates = {1, 9}
  MaxLag = 1
  Horizon = 5
  LastHeartbeat = 2
  MaxWire = 1
INVARIANTS CallersAgree RevokedStayOut
PROPERTIES LiveLeaseKept PresenceLapses
