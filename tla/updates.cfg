SPECIFICATION FairSpec
CONSTANTS
  callback = callback
  business = business
  Key = {callback, business}
  Lookups <- TwoKinds
  MaxArrivals = 3
INVARIANTS FrontAwaited
PROPERTIES StoredInOrder NothingStoredWhenClosing QueuesMove
CHECK_DEADLOCK FALSE
