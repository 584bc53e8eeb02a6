\* Ages up to three, one of it taken back by the wall clock.
SPECIFICATION PoolFairSpec
CONSTANTS
  PeerURLs <- mcPeerURLs
  V4 = {"home", "cafe"}
  V6 = {"six"}
  Other = {"name", "local"}
  Hosts <- mcHosts
  RecheckInterval = 2
  MaxElapsed = 3
  MaxBack = 1
INVARIANT HealthHonest
PROPERTIES OutageShows AddressFollows
