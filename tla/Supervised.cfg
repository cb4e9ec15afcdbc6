CONSTANTS
  Loggers = {"server"}
  Faulty = {"server", "map", "konsole_input"}
SPECIFICATION FairSpec
INVARIANTS TypeOK WarnedBeforeKill
PROPERTY FaultEndsRun
CHECK_DEADLOCK FALSE
