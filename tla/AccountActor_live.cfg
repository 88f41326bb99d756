SPECIFICATION FairSpec
CONSTANTS
    Accounts = {a1}
    Cmds = {c1, c2}
    NoCmd = NoCmd
    Modes = {"idle", "both", "poll"}
    Kinds = {"import", "correct", "update", "delete", "quit"}
    NoIdle = {}
    Cap = 1
    MaxActors = 2
    MaxCalls = 2
    MaxFaults = 1
    DoneMayFail = TRUE
INVARIANTS HandlesUsable ActorsFollowTable
PROPERTIES CommandsReturn StrayActorsEnd MailIsFetched
