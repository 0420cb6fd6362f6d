SPECIFICATION FairSpec
CONSTANTS
  Null = Null
  NaN = NaN
  Inf = Inf
  NegInf = NegInf
  Coefficients <- MCCoefficients
  AveragePaths <- MCAveragePaths
  Logarithms <- MCLogarithms
  MaxWeight = 6
  Cases <- DbscanCases
INVARIANTS
    CoresAsDocumented
\* One call, and then over.
CHECK_DEADLOCK FALSE
