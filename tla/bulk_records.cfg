SPECIFICATION Spec
CONSTANTS
  Lengths = {0, 1, 2, 3, 4, 5}
CHECK_DEADLOCK FALSE
INVARIANTS OneWriter NothingUninitialized EveryKeyPlaced
