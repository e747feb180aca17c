SPECIFICATION SearchSpec
CONSTANTS
    MaxCalls = 2
    MaxParts = 2
    MinutesPerHour = 2
    HoursPerDay = 4
    DaysPerWeek = 3
    DaysPerMonth = 2
    Months = 2
    Years = 1
    Expressions <- MCExpressions
    Zones <- NewYork
    From <- MCFrom
    Days = {1, 2, 3}
    LineSize = 2
    Writes = {3, 6}
    MaxRead = 30
    MaxOffsets = 2
    MaxEntries = 2
    MaxLines = 5
    MaxCuts = 1
    ma = ma
    mb = mb
    mc = mc
    ModIDs <- MCMods
    Spellings = {"usual", "other"}
    Lists <- MCLists
    Infos <- MCInfos
    RuleFiles <- MCRuleFiles
    Rounds = 2
PROPERTY NextReturns
CHECK_DEADLOCK FALSE
