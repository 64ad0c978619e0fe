\* Two pairs, three lines, and any two allocations that fail.
SPECIFICATION Spec
CONSTANTS
  MaxPairs = 2
  MaxLines = 3
  MaxFailures = 2
\* The response is stored, or a pointer was misused.
CHECK_DEADLOCK FALSE
INVARIANTS
  TypeOK Released OnlyKnownMisuse HandlerSees AnswerFits
