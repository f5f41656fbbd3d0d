SPECIFICATION Spec
CONSTANTS
  Rows = {1, 2, 3, 4}
  BatchSize = 2
  MaxErrors = 2
INVARIANT TypeOK
PROPERTIES
  SweepsAsInPipeline
  StuckRowsEnd
CHECK_DEADLOCK FALSE
