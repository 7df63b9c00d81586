SPECIFICATION Spec
CONSTANTS
  Workers = {w1}
  Operators = {alice, bob}
  Slots = {i1, i2}
  NoSlot = NoSlot
  MaxEvents = 4
SYMMETRY Symmetry
INVARIANTS TypeOK TriageHasItem ClosedIssuePassed ApprovableIsReviewed
CHECK_DEADLOCK FALSE
