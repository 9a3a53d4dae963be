SPECIFICATION SaveSpec
CONSTANTS
  c1 = c1
  c2 = c2
  a = a
  b = b
  NoName = NoName
  Client = {c1, c2}
  Name = {a, b}
  NameOf <- OwnNames
  Loaded <- OneUser
  Uses <- Saving
  K = 1
  MaxActive = 1
  MaxPosts = 1
  MaxSubs = 1
  Signals = {"SIGINT", "SIGQUIT"}
  MaxSessions = 2
CHECK_DEADLOCK FALSE
INVARIANTS PTypeOK SavedTimeIsLatest NothingLost
PROPERTY SaveEnds
