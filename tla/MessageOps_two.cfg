SPECIFICATION OpsSpec
CONSTANTS
    NoMsg = NoMsg
    Msgs = {m1, m2}
    MaxUid = 2
    MaxEpoch = 1
    Syncers = {s1}
    Modes = {"idle", "older"}
    OldMsgs = {}
    Limit = 1
    WriterMayFail = FALSE
    UidNextSent = TRUE
    MaxFaults = 1
    Ops = {o1, o2}
    Kinds = {"move", "delete"}
    Servers = {{"MOVE", "UIDPLUS"}, {}}
    MaxDeleted = 1
SYMMETRY Symm
INVARIANTS NoMailLost
PROPERTIES OnlyShownMessageTouched PurgeJustified
