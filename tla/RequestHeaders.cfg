\* One field is enough.
SPECIFICATION Spec
CONSTANTS
  MaxPairs = 0
  MaxLines = 2
  MaxFailures = 0
\* The response is stored, or a pointer was misused.
CHECK_DEADLOCK FALSE
INVARIANTS
  FieldsReachHandler
