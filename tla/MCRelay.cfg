SPECIFICATION FairSpec
CONSTANTS
  h1 = h1
  h2 = h2
  a1 = a1
  a2 = a2
  a3 = a3
  Home <- MCHome
  Hosts = {h1, h2}
  Addrs = {a1, a2, a3}
  NoAddr = NoAddr
  HostIDNone = HostIDNone
  MaxMoves = 2
  MaxInFlight = 2
INVARIANTS TypeOK RoutesToOwner
PROPERTY EntriesSettle
CHECK_DEADLOCK FALSE
