SPECIFICATION FairSpec
CONSTANTS
  Query = {q1, q2}
  RestoreQuery = restore
  NoQuery = none
  A = a
  B = b
  Url = {a, b}
  NoUrl = nourl
  Plain = plain
  Fancy = fancy
  Settings = {plain, fancy}
  NoSettings = nosettings
  NoEntry = noentry
  Requests <- Everything
  MaxRestarts = 1
INVARIANTS SettersApart OneActor QueriesHeld DatabaseFollows
PROPERTIES OkIsDurable QueriesAnswered
CHECK_DEADLOCK FALSE
