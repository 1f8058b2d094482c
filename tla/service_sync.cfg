SPECIFICATION FairServiceSpec
CONSTANTS
  zero = zero
  a1 = a1
  a2 = a2
  a3 = a3
  v0 = v0
  v1 = v1
  None = None
  ZeroAddress = zero
  ZeroValue = v0
  Address = {zero, a1, a2}
  UserAddress = {a1, a2}
  Value = {v0}
  Capacity = 2
  MaxVersion = 1
  MaxPending = 1
  Faults = {"encode"}
  LookupAddress = {}
  MaxInFlight = 2
  NetworkFaults = {"repeat", "lose"}
INVARIANTS ServiceTypeOK ClientFollows
PROPERTIES CatchesUp
