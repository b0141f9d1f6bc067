SPECIFICATION FairSpec
CONSTANTS
  Clients = {c1, c2}
  Names = {a}
  Nil = Nil
  MaxRooms = 1
  MaxRequests = 3
PROPERTY GameStarts
CHECK_DEADLOCK FALSE
