\* Two versions of the code, any files at the start, two disturbances.
CONSTANTS
  Generated = {"v1", "v2"}
  Other = "other"
  Missing = "missing"
  Disturbances = 2
SPECIFICATION SchemaSpec
INVARIANTS StatusIsHonest TwoRunsAreEnough
PROPERTY ComesToRest
\* A run that waits for the photo service may wait for ever.
CHECK_DEADLOCK FALSE
