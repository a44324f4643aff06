SPECIFICATION FairSpec
CONSTANTS
    t1 = t1
    OtherTab = OtherTab
    Tabs = {t1}
    Batches = {"b1"}
    Contents <- MCContents
    First <- MCFirst
    Interval = 0
    ObserverAge = 1
    SessionTtl = 1
    CacheTtl = 2
    MaxTime = 1
    MaxChanges = 1
    MaxBatch = 2
    MaxFaults = 1
    MaxLiteral = 10000
INVARIANTS
    SettledIsCurrent
    PopupNeverGoesBack
    StoredMayBeConfirmed
PROPERTIES
    EveryRequestEnds
    ObserverStarts
CHECK_DEADLOCK FALSE
