SPECIFICATION Spec
CONSTANTS
  Workers = {w1}
  Extractor = x
  Ingestions = {g1, g2}
  Paths = {a}
  Part = {a}
  Schedules = {TRUE, FALSE}
  Edits = {"rename", "disable", "enable"}
  Faults = {}
  MaxFaults = 1
  None = None
SYMMETRY Symmetry
INVARIANT ExtractionKeepsItsSource
CHECK_DEADLOCK FALSE
