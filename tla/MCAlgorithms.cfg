SPECIFICATION Spec
CONSTANTS
  Patterns <- MCPatterns
  Texts <- MCTexts
  Places <- MCPlaces
  Fillings <- MCFillings
  Directives <- MCDirectives
  Conditions <- MCConditions
  Contexts <- MCContexts
  Logs <- MCLogs
  Queries <- MCQueries
  Records <- MCRecords
  Hours <- MCHours
  MsPerSecond = 3
  BusinessStart = 8
  BusinessEnd = 18
INVARIANTS MatchesAreSound MasksHide MasksKeep ConditionsFaithful QueriesFaithful ExportFaithful RiskOrdersRequests
