SPECIFICATION Spec
CONSTANTS
  c1 = c1
  c2 = c2
  c3 = c3
  Conns = {c1, c2, c3}
  Senders = {c1, c2}
  Draining = {c1, c2, c3}
  Acceptor = Acceptor
  Nil = Nil
  BadFrame = BadFrame
  Handlers <- MCReply
  MaxHostID = 4
  InCap = 1
  OutCap = 1
SYMMETRY Symmetry
CONSTRAINT NoShutdown
INVARIANTS TypeOK RegistryExact MapGuarded
PROPERTY BroadcastIsAtomic
CHECK_DEADLOCK FALSE
