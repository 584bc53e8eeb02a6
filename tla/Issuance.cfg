\* Two operators, a lapsed and a running circle, one fault; an operator may stop.
SPECIFICATION FairSpec
CONSTANTS
  Operators = {p1, p2}
  Alphabet = {"0", "1"}
  Codes <- mcCodes
  Typings <- mcTypings
  Meant <- mcMeant
  Days = {1, 2}
  Tiers <- mcTiers
  DurationRange = 2
  Readings = {2}
  FirstCredentials <- mcFirst
  RequireAdmission = TRUE
  MaxCommands = 2
  MaxFaults = 1
INVARIANTS FileLoads PromiseKept
PROPERTY HangupHeard
CHECK_DEADLOCK FALSE
