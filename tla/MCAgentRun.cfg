CONSTANTS
    service = service
    dev = dev
    r1 = r1
    Backends = {service, dev}
    Runs = {r1}
    AbandonedAfter = 2
    MaxFaults = 2
    MaxCrashes = 2
    MaxTime = 5
SPECIFICATION FairSpec
INVARIANTS TypeOK OneRepairer RepairSparesLiveRuns FrozenOnlyIfLost
PROPERTIES OrphansAreClosed
