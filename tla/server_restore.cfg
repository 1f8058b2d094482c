SPECIFICATION Spec
CONSTANTS
  zero = zero
  a1 = a1
  a2 = a2
  a3 = a3
  v0 = v0
  v1 = v1
  None = None
  Address = {zero, a1, a2, a3}
  UserAddress = {a1, a2, a3}
  ZeroAddress = zero
  Value = {v0}
  ZeroValue = v0
  Capacity = 3
  MaxVersion = 0
  MaxPending = 1
  Faults = {"stop"}
SYMMETRY AddressSymmetry
INVARIANTS TypeOK RecordPerSlot HoldsBook HeldOnce ReportAddsUp
PROPERTIES RestoreMovesNothing
