\* Two circles with different daily ceilings push to one transfer.
SPECIFICATION Spec
CONSTANTS
  Chunks <- mcChunks
  Credentials = {1, 2}
  Callers = {1, 2}
  TermsOf <- mcTermsOf
  MaxWindow = 2
  MaxAttachmentBytes = 4
  MaxSessions = 2
  IdleTimeout = 1
  HoursPerDay = 2
  TicksPerHour = 1
  MaxLag = 1
  Horizon = 5
  LastPush = 5
  MaxPushes = 4
INVARIANT TransitCeiling
