CONSTANTS
    ann = ann
    bob = bob
    cat = cat
    Colleagues = {ann, bob, cat}
    Challenger = ann
    Colors = {"w"}
    Nobody = Nobody
    LastPly = 3
    MaxActs = 4
SPECIFICATION ChessSpec
SYMMETRY Bystanders
INVARIANTS ChessTypeOK NoGhostMove
PROPERTIES OpponentStands PlayedStands ResignStands
CHECK_DEADLOCK FALSE
