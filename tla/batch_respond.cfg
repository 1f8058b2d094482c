SPECIFICATION Spec
CONSTANTS
  q1 = q1
  q2 = q2
  bad = bad
  Query = {q1, q2}
  Malformed = bad
  MaxBatch = 4
INVARIANTS OwnResult
CHECK_DEADLOCK FALSE
