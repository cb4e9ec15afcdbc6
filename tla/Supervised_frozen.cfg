CONSTANTS
  Loggers = {"server"}
  Faulty = {"server"}
SPECIFICATION FairSpec
PROPERTY FreezeEndsRun
CHECK_DEADLOCK FALSE
