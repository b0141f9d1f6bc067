SPECIFICATION Spec
CONSTANTS
  long = long
  short = short
  r1 = r1
  c1 = c1
  b1 = b1
  b2 = b2
  Targets = {long, short}
  Code <- MCCode
  Callers = {c1}
  Runners = {r1}
  Blocks = {b1, b2}
  SlotsPerBlock = 1
  INITIAL_HOOK_CAPACITY = 1
  Faults = {"alloc", "snapshot", "suspend", "protect"}
  Nobody = Nobody
  NoSlot = NoSlot
  Functions <- MCFunctions
INVARIANTS TypeOK TrampolinesSound TableExact SlotsOwned FrozenSafe EnablingSafe
PROPERTIES MovedToItsCopy ImplementsHookTable
CHECK_DEADLOCK FALSE
