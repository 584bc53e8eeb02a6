\* One slot more than a circle may use, windows of one chunk, days of two hours.
SPECIFICATION FairSpec
CONSTANTS
  Chunks <- mcChunks
  Credentials = {1, 2}
  Callers = {1, 2}
  TermsOf <- mcTermsOf
  MaxWindow = 1
  MaxAttachmentBytes = 3
  MaxSessions = 2
  IdleTimeout = 1
  HoursPerDay = 2
  TicksPerHour = 1
  MaxLag = 1
  Horizon = 6
  LastPush = 3
  MaxPushes = 3
INVARIANTS DeliveredOnce FootprintBounded TransitExact
PROPERTY SlotsComeBack
