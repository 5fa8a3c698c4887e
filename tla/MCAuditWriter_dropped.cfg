CONSTANTS
  w1 = w1
  w2 = w2
  w3 = w3
  w4 = w4
  w5 = w5
  w6 = w6
  w7 = w7
  NoEntry = NoEntry
  Entries <- FourEntries
  Callers = {p1, p2}
  BatchSize = 0
  FlushIntervals = {100}
  MaxFaults = 1
  MaxStarts = 1
SPECIFICATION Spec
INVARIANT
  AcceptedIsNotDropped
CHECK_DEADLOCK FALSE
