SPECIFICATION SuiteSpec
CONSTANTS
  Null = Null
  NaN = NaN
  Inf = Inf
  NegInf = NegInf
  NotDate = NotDate
  Fails = Fails
  Malformed = Malformed
  k1 = k1
  k2 = k2
  k3 = k3
  Base = 3
  MaxDigits = 4
  Word = 16
  Limit = 81
  RiskBound = 78
  MaxWindow = 30
  Mantissa = 8
  MaxTargetRows = 2
  Now = 4
  TargetName = "t"
  Other <- MCOther
  ColumnType <- MCColumnType
  Edits <- MCEdits
  Cases <- MCCases
INVARIANTS
  EveryCheckReports
CHECK_DEADLOCK FALSE
