CONSTANTS
    UEs = {0, 1, 2}
    CountMod = 8
    MaxGrants = 2
    Scores = {0, 1}
    BonusCap = 2
    MissCap = 5
SPECIFICATION Spec
INVARIANTS TypeOK RoundRobin
CHECK_DEADLOCK FALSE
