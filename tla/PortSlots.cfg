CONSTANTS
    s1 = s1
    s2 = s2
    Servers <- MCServers
    Count = 2
    Settings <- MCSettings
SPECIFICATION Spec
INVARIANTS
    TypeOK
    ClaimsApart
    SlotsAreHeld
