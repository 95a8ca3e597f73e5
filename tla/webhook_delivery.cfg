SPECIFICATION Spec
CONSTANTS
  MaxEvent = 3
  Extra <- TwoQueues
  Conn = {c1, c2}
  MaxConnections = 2
  EventBuffer = 2
  Webhooks <- FixedWebhooks
SYMMETRY Symmetry
INVARIANTS QueuesPlaced FrontsInFlight NothingSkipped NothingLost
PROPERTIES ImplementsUpdateDelivery
CHECK_DEADLOCK FALSE
