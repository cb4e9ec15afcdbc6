\* No order of start-up; a run killed anywhere, and the run after it.
SPECIFICATION FairSpec
CONSTANTS
  MaxRuns = 2
  ServerFirst = FALSE
INVARIANTS
  TypeOK
  PermitsBounded
  PermitsNotLost
PROPERTY
  EveryoneServed
