CONSTANTS
  w1 = w1
  w2 = w2
  w3 = w3
  w4 = w4
  w5 = w5
  w6 = w6
  w7 = w7
  NoEntry = NoEntry
  Entries <- SevenEntries
  Callers = {p1, p2}
  BatchSize = 2
  FlushIntervals = {0, 100}
  MaxFaults = 1
  MaxStarts = 2
SPECIFICATION Spec
INVARIANTS
  TypeOK
  EntriesAccounted
  PersistedInOrder
  CleanShutdown
  LossBound
PROPERTY
  ImplementsTrail
SYMMETRY Symmetric
CHECK_DEADLOCK FALSE
