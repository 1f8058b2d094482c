SPECIFICATION FairSpec
CONSTANTS
  t1 = t1
  t2 = t2
  t3 = t3
  None = None
  Thread = {t1, t2}
  Faults = {"encode", "panic"}
  MaxBatch = 2
  MaxRefresh = 2
INVARIANTS WholeAnswers OneDatabasePerCall
PROPERTIES EveryCallReturns RefreshReturns AnswersAtOnce
