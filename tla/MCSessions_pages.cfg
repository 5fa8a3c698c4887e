SPECIFICATION Spec
CONSTANTS
  SessionIds = {s1, s2, s3}
  Clients = {c1}
  Walkers = {w1}
  Ttls <- MCLongTtls
  MaxTtl = 9
  WordSize = 64
  MsPerSec = 1
  Leeway = 1
  Limits = {1, 2}
  NoSession = NoSession
  MaxClock = 1
SYMMETRY Symmetry
INVARIANTS WalkMissesNothing WalkRepeatsNothing
