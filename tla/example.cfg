SPECIFICATION ExampleSpec
CONSTANTS
  zero = zero
  a1 = a1
  a2 = a2
  a3 = a3
  v0 = v0
  v1 = v1
  None = None
  Address = {zero, a1, a2, a3}
  UserAddress = {a1, a2, a3}
  ZeroAddress = zero
  Value = {v0, v1}
  ZeroValue = v0
  Capacity = 3
  MaxVersion = 1
  MaxPending = 2
  Faults = {"encode", "panic"}
  Initial = {a1, a2}
  Updated = {a1}
  New = {a3}
  SampleExisting = a1
  SampleNew = a3
  OldBalance = v0
  NewBalance = v1
INVARIANTS AssertionsHold
PROPERTIES ExampleEnds
CHECK_DEADLOCK FALSE
