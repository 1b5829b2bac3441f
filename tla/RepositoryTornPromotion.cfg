\* Threads interleave between statements on the shared connection; a statement
\* fails.
SPECIFICATION Spec
CONSTANTS
  w1 = w1
  w2 = w2
  refresher = refresher
  saver = saver
  pruner = pruner
  Writers = {w1, w2}
  LockedWriters = {w2}
  Refresher = refresher
  Saver = saver
  Pruner = pruner
  MaxVersion = 2
  Eventful = {1, 2}
  MaxWrites = 1
  MaxFaults = 1
INVARIANT FailedPromotionKeepsPointer
