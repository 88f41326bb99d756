SPECIFICATION FairSpec
CONSTANTS
    Devices = {d1, d2}
    Uids = {u1}
    NoRow = NoRow
    NoMsg = NoMsg
    Nothing = Nothing
    MaxEdits = 2
    MaxMsgs = 6
    MaxRemovals = 1
    MaxFaults = 1
INVARIANTS FolderKeepsNewest
PROPERTIES CancelJustified QuietRunKeepsEdits RowsAgree
CHECK_DEADLOCK FALSE
