SPECIFICATION Spec
CONSTANTS
  SnapshotEvery = 3
  Slots = {s1}
  Nobody = Nobody
  Faults = {"mid_fold_stop"}
  MaxBatch = 1
  MaxChanges = 3
  MaxStops = 2
INVARIANT OldPairOrNew
CHECK_DEADLOCK FALSE
