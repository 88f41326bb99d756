SPECIFICATION FairSpec
CONSTANTS
    NoMsg = NoMsg
    Msgs = {m1, m2}
    MaxUid = 2
    MaxEpoch = 2
    Syncers = {s1, s2}
    Modes = {"idle", "older"}
    OldMsgs = {}
    Limit = 1
    WriterMayFail = FALSE
    UidNextSent = TRUE
    MaxFaults = 0
INVARIANTS RowsTruthfulTogether
PROPERTIES CacheConverges
