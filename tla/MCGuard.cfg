SPECIFICATION FairSpec
CONSTANTS
  s1 = s1
  strict = strict
  masking = masking
  Calls = {c1, c2}
  SessionIds = {s1}
  NoSession = NoSession
  Requests <- MCRequests
  Books = {strict, masking}
  Ruling <- MCRuling
  Hours <- MCHours
  MaxBooks = 2
  BusinessStart = 8
  BusinessEnd = 18
INVARIANTS TypeOK RepliesMatchTrail SilenceIsExplained DeadSessionsGetNoDecision EntriesExplained StatusTruthful
PROPERTY CallsReturn
