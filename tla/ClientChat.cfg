SPECIFICATION CFairSpec
CONSTANTS
  c1 = c1
  Client = {c1}
  Line <- Lines
  MaxTyped = 3
  MaxReplies = 2
  MaxHeard = 5
  Window = 2
CHECK_DEADLOCK FALSE
INVARIANTS CTypeOK HeardIsTyped
PROPERTIES EveryLineHeard EveryReplyShown ClientCalls
