SPECIFICATION FairSpec
CONSTANTS
  a = a
  NoSub = NoSub
  Subs <- OneSub
  Preference = {"ws", "auto"}
  MaxBuffered = 2
  SendLimit = 2
  SseLimit = 3
  QueueLimit = 2
  MaxAttempts = 2
  MaxEvents = 3
  MaxUpsets = 2
INVARIANTS Delivered
PROPERTIES CatchesUp
CHECK_DEADLOCK FALSE
