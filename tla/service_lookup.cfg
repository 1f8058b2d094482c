SPECIFICATION ServiceSpec
CONSTANTS
  zero = zero
  a1 = a1
  a2 = a2
  a3 = a3
  v0 = v0
  v1 = v1
  None = None
  ZeroAddress = zero
  ZeroValue = v0
  Address = {zero, a1, a2}
  UserAddress = {a1, a2}
  Value = {v0, v1}
  Capacity = 2
  MaxVersion = 1
  MaxPending = 1
  Faults = {}
  LookupAddress = {a1}
  MaxInFlight = 1
  NetworkFaults = {}
INVARIANTS NeverWrongValue IdleDirectoryFindsServed NothingPendingIsServed
PROPERTIES LookupFindsPublished
