CONSTANTS
  t1 = t1  t2 = t2  np = np  an = an
  Threads = {t1, t2}
  Objects = {np, an}
  Kind <- MCKind
  AutoReset = {an}
  Calls <- MCCalls
  MaxPolls = 2
  MaxAnon = 1
  Modes = {"game", "launcher"}
  Groups = {"network", "wait"}
  Missing <- MCMissing
  MaxFaults = 1
SPECIFICATION Spec
INVARIANTS TypeOK GuardExact SignalsReported
PROPERTIES DetectedIsReleased LoadedGetsHooked
CHECK_DEADLOCK FALSE
