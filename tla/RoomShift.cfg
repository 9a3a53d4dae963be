SPECIFICATION RFairSpec
CONSTANTS
  c1 = c1
  c2 = c2
  a = a
  b = b
  Client = {c1}
  Room = {a, b}
  MaxPorts = 3
  Texts <- Janitor
  MaxTyped <- Lines5
  MaxAhead = 1
  MayQuit = {}
CHECK_DEADLOCK FALSE
PROPERTY DeletedRoomGoes
