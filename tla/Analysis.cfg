SPECIFICATION AnalysisSpec
CONSTANTS
  Unused = Unused
CHECK_DEADLOCK FALSE
INVARIANTS
  ValuesAreRight
  SourceIsKept
  StatementsAsWritten
