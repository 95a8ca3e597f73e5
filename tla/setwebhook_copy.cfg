SPECIFICATION Spec
CONSTANTS
  Query = {q1, q2}
  RestoreQuery = restore
  NoQuery = none
  A = a
  B = b
  Url = {a, b}
  NoUrl = nourl
  Plain = plain
  Fancy = fancy
  Settings = {plain, fancy}
  NoSettings = nosettings
  NoEntry = noentry
  Requests <- Copying
  MaxRestarts = 0
SYMMETRY Symmetry
INVARIANTS CopyHasQuery
CHECK_DEADLOCK FALSE
