CONSTANT
  Mortal = {"server", "drone", "input", "map", "konsole_input", "konsole_map", "WD"}
SPECIFICATION FairSpec
INVARIANTS TypeOK PidsRight HandlersFirst OneMaker MasterLast
PROPERTIES MonitoringStarts RunEnds
CHECK_DEADLOCK FALSE
