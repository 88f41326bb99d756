SPECIFICATION FairSpec
CONSTANTS
    MaxSlots = 2
    Tasks <- MCTasks
    None = None
    MaxSends = 4
    MaxFaults = 1
INVARIANTS PeersAgree ConfirmedIsBooked
PROPERTIES TerminalStays ConfirmArrives
CHECK_DEADLOCK FALSE
