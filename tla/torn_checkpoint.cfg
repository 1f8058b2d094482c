SPECIFICATION TornSpec
CONSTANTS
  zero = zero
  a1 = a1
  a2 = a2
  a3 = a3
  v0 = v0
  v1 = v1
  None = None
  Address = {zero, a1, a2}
  UserAddress = {a1, a2}
  ZeroAddress = zero
  Value = {v0, v1}
  ZeroValue = v0
  Capacity = 3
  MaxVersion = 1
  MaxPending = 1
  Faults = {"stop"}
  MaxStops = 1
SYMMETRY AddressSymmetry
INVARIANTS TornHoldsBook
