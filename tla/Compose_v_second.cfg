SPECIFICATION Spec
CONSTANTS
    Mails = {a, b}
    Replies = {a}
    None = None
    Tasks = {t1, t2}
    MaxSends = 2
    MaxFaults = 1
PROPERTIES SendTakesNothing
CHECK_DEADLOCK FALSE
