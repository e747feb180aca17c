SPECIFICATION PackagesSpec
CONSTANTS
    MaxCalls = 2
    MaxParts = 2
    MinutesPerHour = 2
    HoursPerDay = 4
    DaysPerWeek = 3
    DaysPerMonth = 2
    Months = 2
    Years = 1
    Expressions <- MCExpressions
    Zones <- MCZones
    From <- MCFrom
    Days = {1, 2, 3}
    LineSize = 2
    Writes = {2, 3}
    MaxRead = 7
    MaxOffsets = 2
    MaxEntries = 1
    MaxLines = 3
    MaxCuts = 1
    ma = ma
    mb = mb
    mc = mc
    ModIDs <- MCMods
    Spellings = {"usual", "other"}
    Lists <- MCLists
    Infos <- MCInfos
    RuleFiles <- MCRuleFiles
    Rounds = 2
INVARIANTS PackagesTypeOK ExecIsSound LogIsFollowed LoadOrderIsRight
PROPERTIES ExecReturns CronIsRight
CHECK_DEADLOCK FALSE
