CONSTANTS
  hi = hi
  lo = lo
  c1 = c1
  c2 = c2
  a1 = a1
  a2 = a2
  e1 = e1
  e2 = e2
  none = none
  reason = reason
  field = field
  NoRow = NoRow
  NoMatch = NoMatch
  Details <- MCDetails
  Names <- TwoNames
  Contexts <- TwoContexts
  Sources <- RichSources
  Dirs <- RichDirs
  Admins = {a1}
  Evaluators = {e1, e2}
  MaxWrites = 3
  MaxId = 2
  MaxClock = 1
SPECIFICATION Spec
INVARIANTS
  RowIdsUnique DecisionMeetsReference CommittedSnapshots
  FreshUnlessRaced DropsHealAtNextWrite
SYMMETRY Symmetric
