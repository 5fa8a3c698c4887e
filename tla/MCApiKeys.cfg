SPECIFICATION FairSpec
CONSTANTS
  Keys = {k1, k2}
  NoKey = NoKey
  NoRow = NoRow
  Never = Never
  Clients = {c1, c2}
  MaxUses = 2
  MaxClock = 1
INVARIANTS TypeOK RevokedKeyStaysOut LastUseIsAUse LastUseIsTheLast
PROPERTY UsesAreRecorded
