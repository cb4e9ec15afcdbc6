\* Nothing orders the start-up: a process of the second run may look at the
\* memory object before the server has cleared it.
SPECIFICATION Spec
CONSTANTS
  MaxForce = 1
  MaxCycle = 1
  MaxRuns = 2
  Keys <- ThenIdle
  ServerFirst = FALSE
  Blank = Blank
INVARIANT
  IdleUserNoForce
