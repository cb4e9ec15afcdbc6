SPECIFICATION FairSpec
INVARIANTS
  TypeOK
  Attribution
  NoAnswerLost
  NoFalseAlarm
  BoundedDetection
  NothingLeft
PROPERTY
  FaultEndsRun
\* The system stops once everything has been killed and reaped.
CHECK_DEADLOCK FALSE
