SPECIFICATION Spec
CONSTANTS
    raw = raw
    clean = clean
    report = report
    c1 = c1
    c2 = c2
    NoDataset = NoDataset
    Dataset = {raw, clean}
    Upstream <- MCChain
    AutoTrigger = {clean}
    MaxSubmits = 1
    MaxTriggers = 2
    Client = {c1, c2}
    ReportsDates = FALSE
    MaxFaults = 1
CHECK_DEADLOCK FALSE
INVARIANTS RowTellsOutcome MarksHaveRuns CompletionsTrigger
