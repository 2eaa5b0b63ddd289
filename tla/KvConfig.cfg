SPECIFICATION Spec
CONSTANTS
  Grouping <- KvCacheGroups
  Inputs <- MCInputs
INVARIANTS TypeOK PoolServesOneRequest PagesApart LengthIsLargest
CHECK_DEADLOCK FALSE
