SPECIFICATION Parts
CONSTANTS
    raw = raw
    clean = clean
    report = report
    c1 = c1
    NoDataset = NoDataset
    Dataset = {raw, clean, report}
    Upstream <- MCChain
    AutoTrigger = {}
    MaxSubmits = 2
    MaxTriggers = 0
    Client = {c1}
    ReportsDates = TRUE
    MaxFaults = 1
    n1 = n1
    n2 = n2
    n3 = n3
    n4 = n4
    Linked = {n1, n2, n3, n4}
    Asked = {n3, n4}
    max_depth = 2
    MaxEdits = 1
    big = big
    loop = loop
    Job = {big, loop}
    Stage = {n1, n2, n3}
    Needs <- MCNeeds
    MaxCrashes = 1
    bot = bot
    aide = aide
    Agent = {bot, aide}
    Human = Human
    batch_size = 2
    MaxMessages = 3
    MaxStops = 1
CHECK_DEADLOCK FALSE
INVARIANTS HandledInOrder LineageIsSound SubmittedIsEarned HandledInTurn
PROPERTIES OutcomeIsKept EveryMessageIsTried
