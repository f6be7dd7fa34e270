CONSTANTS
    service = service
    dev = dev
    tool = tool
    chat = chat
    trigger = trigger
    Backends = {service, dev, tool}
    ReadOnly = {tool}
    Messages = {trigger}
    Triggers = {trigger}
    PushMaxAge = 1
    AgentMaxAge = 1
    Retention = 3
    Stall = 1
    Skew = 1
    MaxEdits = 1
    MaxCrashes = 2
    MaxTime = 6
SPECIFICATION Spec
SYMMETRY Interchangeable
INVARIANTS TypeOK AtMostOnce OnlyExcusedMissed
PROPERTIES PrunedIsStale
