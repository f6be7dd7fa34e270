CONSTANTS
    service = service
    dev = dev
    tool = tool
    chat = chat
    trigger = trigger
    Backends = {service, dev}
    ReadOnly = {}
    Messages = {chat, trigger}
    Triggers = {trigger}
    PushMaxAge = 3
    AgentMaxAge = 3
    Retention = 7
    Stall = 1
    Skew = 0
    MaxEdits = 1
    MaxCrashes = 0
    MaxTime = 1
SPECIFICATION SettledSpec
PROPERTIES ExactlyOnce
