SPECIFICATION FairSpec
CONSTANTS
  MaxEvent = 1
  Extra <- OneUpdate
  Conn = {c1}
  MaxConnections = 1
  EventBuffer = 2
  Webhooks <- AllWebhooks
INVARIANTS WithinLimits WakeupScheduled
PROPERTIES ImplementsActorReports SetWebhookAnswered UpdatesLeave
CHECK_DEADLOCK FALSE
