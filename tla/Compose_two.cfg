SPECIFICATION FairSpec
CONSTANTS
    Mails = {a, b}
    Replies = {a}
    None = None
    Tasks = {t1, t2}
    MaxSends = 2
    MaxFaults = 1
INVARIANTS WrittenIsKept AtMostOncePerSend
PROPERTIES DraftOutlivesMail SendResolves
CHECK_DEADLOCK FALSE
