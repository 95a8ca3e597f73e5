SPECIFICATION Spec
CONSTANTS
  MaxMessage = 2
  ReplyTo <- ReplyPair
  Stickers = {}
  Ignored = {}
  MaxContent = 2
  MaxMarkup = 1
INVARIANT KeptContentIsUnchanged
CHECK_DEADLOCK FALSE
