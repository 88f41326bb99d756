SPECIFICATION FairSpec
CONSTANTS
    Msgs = {"a"}
    Spam = {"a"}
    Rules <- MCRules
    Flag = {"flagged", "junk"}
    Tasks = {t1, t2}
    Batch = 1
    MaxEdits = 1
    MaxFaults = 2
PROPERTIES SpamLeavesInbox DueRuleActs FlagsConverge
