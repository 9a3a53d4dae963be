SPECIFICATION RFairSpec
CONSTANTS
  c1 = c1
  c2 = c2
  a = a
  b = b
  Client = {c1, c2}
  Room = {a}
  MaxPorts = 2
  Texts <- Guests
  MaxTyped <- Lines22
  MaxAhead = 1
  MayQuit = {c1}
CHECK_DEADLOCK FALSE
INVARIANTS RTypeOK OneList
PROPERTIES EveryoneHeard DeletedRoomGoes
