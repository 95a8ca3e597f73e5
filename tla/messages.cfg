SPECIFICATION Spec
CONSTANTS
  MaxMessage = 2
  ReplyTo <- ReplyPair
  Stickers = {1}
  Ignored = {}
  MaxContent = 2
  MaxMarkup = 2
INVARIANTS FrontAwaited InOrder NoOldVersion EditsArrive
CHECK_DEADLOCK FALSE
