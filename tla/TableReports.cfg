\* Diff: three rows with NULLs in every column; three steps of a migration, then a call.
\* Suite: targets of up to two rows (four for the sums), one check with every bound, filter and
\* partition it can tell apart, or up to four definitions.
\* Numbers: a DECIMAL of four ternary digits, up to 80, and a HUGEINT of two words, up to 127.
\* Profile: up to four rows with NULL, NaN and infinities; two commits of other connections.
CONSTANTS
  Null = Null  NaN = NaN  Inf = Inf  NegInf = NegInf  NotDate = NotDate  Fails = Fails
  Absent = Absent
  ExactUpTo = 8  FloatUpTo = 4
  MaxEdits = 3
  Tables <- Migrated
  Calls <- Diffs
  ValuesOf <- Written
  Retypes <- Changes
  NewNames <- NewColumns
  Text = Text
  Base = 3  MaxDigits = 4  Word = 16  Limit = 81  RiskBound = 78  MaxWindow = 30  Mantissa = 8
  TableColumns <- MCColumns
  States <- MCStates
  NewRows <- MCRows
  SampleSizes = {1, 2}
  TopValues = 2
  NarrowDigits = 18
  MaxRows = 4
  MaxCommits = 2
  Malformed = Malformed  k1 = k1  k2 = k2  k3 = k3
  MaxTargetRows = 2
  Now = 4
  TargetName = "t"
  Other <- MCOther
  ColumnType <- MCColumnType
  Edits <- MCEdits
  Cases <- MCCases
INIT ReportsInit
NEXT ReportsNext
INVARIANTS
    PatchGivesTarget
    OnlyEditsReported
    StatisticsDescribeRows
    CorrelationsOfFinitePairs
    SuiteAgrees
    WideSumIsExact
    BoundIsExact
    CenteringKeepsOutliers
\* A behaviour is one migration and one diff, one profile or one suite, and then over.
CHECK_DEADLOCK FALSE
