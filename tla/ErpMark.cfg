CONSTANTS
  w1 = w1
  w2 = w2
  Workers <- MCWorkers
  Dead = Dead
  None = None
  MaxMishaps = 1
  Faults = {}
SPECIFICATION FairSpec
INVARIANTS  SentOnce
PROPERTIES CheckpointNeverFalls 
CHECK_DEADLOCK FALSE
