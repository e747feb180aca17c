SPECIFICATION FleetSpec
CONSTANTS
    s1 = s1
    s2 = s2
    w1 = w1
    w2 = w2
    Stacks <- MCStacks
    Workers <- MCWorkers
    Ports = {1, 2}
    Scenarios <- MCScenarios
INVARIANTS FleetTypeOK OneWriterPerFolder
PROPERTIES OnlyStoppedGoes ComesToRest
CHECK_DEADLOCK FALSE
