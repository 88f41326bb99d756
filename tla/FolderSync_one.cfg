SPECIFICATION FairSpec
CONSTANTS
    NoMsg = NoMsg
    Msgs = {m1, m2, m3}
    MaxUid = 3
    MaxEpoch = 2
    Syncers = {s1}
    Modes = {"idle", "lazy", "window"}
    OldMsgs = {m3}
    Limit = 1
    WriterMayFail = FALSE
    UidNextSent = TRUE
    MaxFaults = 1
INVARIANTS RowsTruthful
PROPERTIES OnlyVanishedRowsDropped ImplementsMirror CacheConverges
