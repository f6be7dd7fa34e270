CONSTANTS
    Before = 3
    MaxSent = 4
    Control = {2}
    PageSize = 1
    Channel = FALSE
    MaxOutages = 1
    MaxEchoes = 1
    Retained = 1
    MaxOpens = 2
SPECIFICATION ViewSpec
CHECK_DEADLOCK FALSE
CONSTRAINTS Small
INVARIANTS ViewTypeOK TopIsTop FrontierHolds
