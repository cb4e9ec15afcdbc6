\* One run, not killed; three distinct iterations of the drone.
SPECIFICATION Spec
CONSTANTS
  MaxForce = 1
  MaxCycle = 2
  MaxRuns = 1
  Keys <- OneRun
  ServerFirst = TRUE
  Blank = Blank
INVARIANTS
  MutualExclusion
  NoTornScan
  SnapshotSkew
