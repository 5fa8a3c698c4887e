CONSTANTS
  hi = hi
  lo = lo
  c1 = c1
  c2 = c2
  a1 = a1
  a2 = a2
  e1 = e1
  e2 = e2
  none = none
  reason = reason
  field = field
  NoRow = NoRow
  NoMatch = NoMatch
  Details <- MCDetails
  Names <- OneName
  Contexts = {c1}
  Sources <- OneSource
  Dirs <- NoDirs
  Admins = {a1}
  Evaluators = {e1}
  MaxWrites = 2
  MaxId = 2
  MaxClock = 0
SPECIFICATION Spec
INVARIANTS
  EvaluationsAreFresh
