\* A run killed anywhere, process by process, and the run after it.
SPECIFICATION Spec
CONSTANTS
  MaxForce = 1
  MaxCycle = 1
  MaxRuns = 2
  Keys <- ThenIdle
  ServerFirst = TRUE
  Blank = Blank
INVARIANTS
  TypeOK
  IdleUserNoForce
PROPERTIES
  UsesSemaphores
  Atomicity
