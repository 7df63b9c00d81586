SPECIFICATION Spec
CONSTANTS
  Workers = {w1}
  Operators = {admin}
  Slots = {i1, i2}
  NoSlot = NoSlot
  MaxEvents = 5
SYMMETRY Symmetry
INVARIANT ApprovalCreatesItsTask
CHECK_DEADLOCK FALSE
