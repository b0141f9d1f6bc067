SPECIFICATION FairSpec
CONSTANTS
  c1 = c1
  c2 = c2
  c3 = c3
  Conns = {c1, c2}
  Senders = {c1, c2}
  Draining = {c1, c2}
  Acceptor = Acceptor
  Nil = Nil
  BadFrame = BadFrame
  Handlers <- MCChat
  MaxHostID = 3
  InCap = 1
  OutCap = 1
PROPERTY BroadcastReachesReaders DepartedForgotten DialedIsServed
CHECK_DEADLOCK FALSE
