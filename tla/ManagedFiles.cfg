SPECIFICATION AnalysisSpec
CONSTANTS
    r1 = r1  r2 = r2  r3 = r3
    c1 = c1  c2 = c2  c3 = c3
    Requests <- MCRequests
    Contents <- MCContents
    BatchMax = 2
    MaxCount = 2
    Tables <- MCTables
    Column = "x"
    MaxRows = 3
    MaxColumns = 2
    MaxCells = 4
INVARIANTS
    RowsHaveBytes
    NothingLeftBehind
    QuotaWithFreshReads
    AnswersAreTrue
CONSTRAINTS ReadsApart OneDoubt
SYMMETRY MCSymmetry
CHECK_DEADLOCK FALSE
