SPECIFICATION Spec
CONSTANTS
  Query = {q1, q2, q3}
  RestoreQuery = restore
  NoQuery = none
  A = a
  B = b
  Url = {a, b}
  NoUrl = nourl
  Plain = plain
  Fancy = fancy
  Settings = {plain, fancy}
  NoSettings = nosettings
  NoEntry = noentry
  Requests <- Closable
  MaxRestarts = 0
SYMMETRY Symmetry
PROPERTIES DeletedIsDurable
CHECK_DEADLOCK FALSE
