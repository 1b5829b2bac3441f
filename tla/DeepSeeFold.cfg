\* All batches of up to four events on two entities.
SPECIFICATION Spec
CONSTANTS
  EntityIds = {1, 2}
  Scores = {0, 1, 2}
  MaxBatch = 4
INVARIANTS FoldIsNetEffect
CHECK_DEADLOCK FALSE
