SPECIFICATION PFairSpec
CONSTANTS
  c1 = c1
  c2 = c2
  a = a
  b = b
  NoName = NoName
  Client = {c1, c2}
  Name = {a, b}
  NameOf <- OwnNames
  Loaded <- Known
  Uses <- Posting
  K = 1
  MaxActive = 1
  MaxPosts = 0
  MaxSubs = 1
  Signals = {"SIGINT", "SIGQUIT"}
  MaxSessions = 1
CHECK_DEADLOCK FALSE
PROPERTY SignalStops
