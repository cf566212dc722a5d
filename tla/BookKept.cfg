SPECIFICATION FairSpec
CONSTANTS
  SnapshotEvery = 2
  Slots = {s1, s2}
  Nobody = Nobody
  Faults = {"late_append", "late_snapshot", "mid_fold_stop", "failed_removal", "torn_write"}
  MaxBatch = 2
  MaxChanges = 3
  MaxStops = 1
INVARIANTS NothingTwice DiskOpens ConfirmedKept
PROPERTIES KeepsThePromise EverythingFlushed
CHECK_DEADLOCK FALSE
