SPECIFICATION FairSpec
CONSTANTS
  Clients = {c1, c2}
  Names = {a}
  Nil = Nil
  MaxRooms = 2
  MaxRequests = 4
INVARIANTS TypeOK GotoComesLast SerialRooms
PROPERTY SerialGameStarts
CHECK_DEADLOCK FALSE
