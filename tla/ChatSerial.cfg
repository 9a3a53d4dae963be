SPECIFICATION Spec
CONSTANTS
  c1 = c1
  c2 = c2
  c3 = c3
  a = a
  b = b
  d = d
  NoName = NoName
  Client = {c1, c2, c3}
  Name = {a, b, d}
  NameOf <- ThreeNames
  Loaded <- AuthorsFile
  Uses <- Reading
  K = 2
  MaxActive = 1
  MaxPosts = 2
  MaxSubs = 3
CHECK_DEADLOCK FALSE
INVARIANTS RosterMatchesTimelines StampsAreLatest OwnersOnly NoGap NoDuplicate
PROPERTIES RoundDrains BoardSpec
