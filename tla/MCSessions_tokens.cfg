SPECIFICATION Spec
CONSTANTS
  SessionIds = {s1, s2}
  Clients = {c1, c2}
  Walkers = {}
  Ttls <- MCTtls
  MaxTtl = 9
  WordSize = 64
  MsPerSec = 2
  Leeway = 1
  Limits = {1, 2}
  NoSession = NoSession
  MaxClock = 4
SYMMETRY Symmetry
INVARIANTS TypeOK RevokedStaysOut ExpiredStaysOut RejectionsTruthful
PROPERTY ImplementsGate
