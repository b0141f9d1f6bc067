SPECIFICATION Spec
CONSTANTS
  MaxProcesses = 4
  MaxRequests = 2
  Commands = {"ifeo set", "ifeo clear", "launch", "launch-args", "launch-launcher", "launch-unpacked", "inject", "cleanup"}
  UserStarts = {"wrapper", "launcher", "goley"}
  Faults = {"registry", "create", "inject", "open"}
INVARIANTS TypeOK NoForkBomb RunsPatched SuspendedHasResumer CallerGetsWhatItAsked LaunchTellsTheTruth
PROPERTY NoCreatorHangs
CHECK_DEADLOCK FALSE
