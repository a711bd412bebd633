SPECIFICATION Spec
CONSTANTS
  Field = {"target_level_dbfs_", "compression_gain_db_"}
  Value = {2, 9}
  Default = 2
  Limits <- TwoLimits
  DefaultLimits <- FirstLimits
  Level = {0, 1, 4}
  DigitalMax = 2
  MaxLeaks = 2
CHECK_DEADLOCK FALSE
INVARIANT ControllerFollowsSettings
PROPERTY WholeOrNothing
