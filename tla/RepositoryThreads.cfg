\* Threads interleave on the shared connection; statements fail and the process
\* crashes.
SPECIFICATION FairSpec
CONSTANTS
  w1 = w1
  w2 = w2
  refresher = refresher
  saver = saver
  pruner = pruner
  Writers = {w1, w2}
  LockedWriters = {w2}
  Refresher = refresher
  Saver = saver
  Pruner = pruner
  MaxVersion = 2
  Eventful = {2}
  MaxWrites = 1
  MaxFaults = 2
INVARIANTS TypeOK PromotionIsAtomic ServedSnapshotIsDurable ReturnedWriteIsDurable
PROPERTIES RefreshNeverWedged
