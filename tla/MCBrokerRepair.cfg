CONSTANTS
    service = service
    dev = dev
    Backends = {service, dev}
    Interval = 1
    MaxTime = 2
    MaxRepairs = 2
    MaxAsks = 2
    MaxFaults = 1
SPECIFICATION BrokerSpec
SYMMETRY Interchangeable
INVARIANTS BrokerTypeOK AutomaticSpaced RepairStaysShown RepairingIsFollowed
CHECK_DEADLOCK FALSE
