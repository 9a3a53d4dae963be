SPECIFICATION Spec
CONSTANTS
  c1 = c1
  c2 = c2
  c3 = c3
  a = a
  b = b
  d = d
  NoName = NoName
  Client = {c1, c2, c3}
  Name = {a, b}
  NameOf <- TwoOfOne
  Loaded <- MutualFile
  Uses <- Writing
  K = 2
  MaxActive = 2
  MaxPosts = 1
  MaxSubs = 2
CHECK_DEADLOCK FALSE
INVARIANTS TypeOK 
 
