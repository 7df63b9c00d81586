SPECIFICATION Spec
CONSTANTS
  Workers = {w1, w2}
  Extractor = x
  Ingestions = {g1, g2}
  Paths = {a}
  Part = {a}
  Schedules = {TRUE}
  Edits = {"relocate", "disable"}
  Faults = {"lapse", "loss", "cancel", "restart"}
  MaxFaults = 1
  None = None
SYMMETRY Symmetry
INVARIANTS TypeOK OneActiveOfAKind Exclusive IndexedIsObserved
PROPERTIES CommitShowsCollection
CHECK_DEADLOCK FALSE
