\* Two calls at a time, one session a circle may keep, two for the box.
SPECIFICATION Spec
CONSTANTS
  Calls = {c1, c2}
  Ids = {1, 2}
  Files <- mcFiles
  Nonces = {n1, n2, n3}
  Tokens = {s1, s2, s3}
  RequireAdmission = TRUE
  maxNonces = 1
  maxSessions = 2
  maxSessionsPerCredential = 1
  nonceTTL = 1
  sessionTTL = 2
  MaxLag = 1
  Horizon = 3
  MaxReloads = 2
SYMMETRY mcSymmetry
INVARIANTS TablesAgree NonceOpensOnce IndexNamesOneCircle
PROPERTY RevocationTakesEffect
