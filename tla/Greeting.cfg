SPECIFICATION Spec
CONSTANTS
  c1 = c1
  c2 = c2
  c3 = c3
  a = a
  b = b
  d = d
  NoName = NoName
  Client = {c1, c2, c3}
  Name = {a, b, d}
  NameOf <- ThreeNames
  Loaded <- ThreeFile
  Uses <- TwoChat
  K = 1
  MaxActive = 1
  MaxPosts = 1
  MaxSubs = 2
CHECK_DEADLOCK FALSE
INVARIANT GreetsWithMostRecent
