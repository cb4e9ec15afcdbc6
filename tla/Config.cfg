CONSTANTS
  Sections = {drone, input}
  Keys = {mass, step}
  Numbers = {7, 12}
  MaxLines = 6
  MaxSections = 2
  MaxValues = 2
SPECIFICATION Spec
SYMMETRY Names
INVARIANTS TypeOK Faithful InBounds NothingMadeUp
CHECK_DEADLOCK FALSE
