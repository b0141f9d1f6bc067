SPECIFICATION Spec
CONSTANTS
  long = long
  short = short
  r1 = r1
  c1 = c1
  b1 = b1
  b2 = b2
  Targets = {short}
  Code <- MCCode
  Callers = {c1}
  Runners = {r1}
  Blocks = {b1}
  SlotsPerBlock = 2
  INITIAL_HOOK_CAPACITY = 1
  Faults = {}
  Nobody = Nobody
  NoSlot = NoSlot
  Functions <- MCFunctions
INVARIANT SuspendedMoved
CHECK_DEADLOCK FALSE
