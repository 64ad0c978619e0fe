CONSTANTS
  NestingLimit = 2
  DefaultSize = 4
  IntMax = 24
  Bytes <- MCBytes
  Lead <- MCLead
  Words <- MCWords
  Starts <- MCStarts
  MaxAny = 3
  MaxString = 4
  MaxWords = 4
  Built <- MCBuilt
  StatusLines = {17, 24}
  Bodies = {0, 9, 10, 100}
  MaxHeaders = 14
  Texts = {1, 3}
SPECIFICATION Spec
INVARIANTS
  ReadsInside
  AllOrNothing
  AcceptsGrammar
  RoundTrip
  MinifyKeepsStrings
  PrintsInside
  WholeAnswer
