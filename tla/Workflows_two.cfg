SPECIFICATION Spec
CONSTANTS
    Messages = {"m", "n"}
    AttachOf <- MCAttachOf
    Wanted = {"a"}
    Nested <- MCNested
    Steps <- MCSteps
    Users <- MCUsers
    Runs = {r1, r2}
    MaxRuns = 2
    MaxEdits = 1
    MaxFaults = 1
SYMMETRY MCSymmetry
INVARIANTS CountersAgree SavedIsKept ArchivedIsSaved RunSeesItsFiles
CHECK_DEADLOCK FALSE
