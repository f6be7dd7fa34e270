CONSTANTS
    ops = ops
    team = team
    w1 = w1
    w2 = w2
    Convs = {ops, team}
    Words = {w1, w2}
    MaxSends = 2
SPECIFICATION ComposerSpec
SYMMETRY Interchangeable
CONSTRAINT FewSaves
INVARIANTS WordsAtHome
CHECK_DEADLOCK FALSE
