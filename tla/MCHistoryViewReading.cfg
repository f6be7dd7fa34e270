CONSTANTS
    Before = 4
    MaxSent = 5
    Control = {2, 3}
    PageSize = 2
    Channel = FALSE
    MaxOutages = 0
    MaxEchoes = 0
    Retained = 9
    MaxOpens = 1
SPECIFICATION ReadingSpec
CHECK_DEADLOCK FALSE
PROPERTIES ReaderSeesAll
