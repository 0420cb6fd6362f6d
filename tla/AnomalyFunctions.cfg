SPECIFICATION FairSpec
CONSTANTS
  Null = Null
  NaN = NaN
  Inf = Inf
  NegInf = NegInf
  Coefficients <- MCCoefficients
  AveragePaths <- MCAveragePaths
  Logarithms <- MCLogarithms
  MaxWeight = 6
  Cases <- AllCases
INVARIANTS
    ClustersFollowDefinition
    LeavesHoldWhatIsRouted
    FlagsFollowContamination
    RowIdsNameTheirRows
    ConditionsDescribeTheGroup
\* One call, and then over.
CHECK_DEADLOCK FALSE
