SPECIFICATION FairSpec
CONSTANTS
  c1 = c1
  c2 = c2
  c3 = c3
  a = a
  b = b
  d = d
  NoName = NoName
  Client = {c1, c2, c3}
  Name = {a, b, d}
  NameOf <- ThreeNames
  Loaded <- BusyFile
  Uses <- OneJoins
  K = 2
  MaxActive = 2
  MaxPosts = 1
  MaxSubs = 2
CHECK_DEADLOCK FALSE
INVARIANTS   SubscriptionsRegistered
PROPERTY HandlerReturns
