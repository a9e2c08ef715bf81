SPECIFICATION Spec
CONSTANTS
  Workers = {w1, w2, w3}
  Delay = 2
  Waits = {1, 3}
  Horizon = 6
  None = None
SYMMETRY WorkerSymmetry
INVARIANTS TypeOK
PROPERTIES MinGap BackoffHeld
CHECK_DEADLOCK FALSE
