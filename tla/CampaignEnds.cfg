SPECIFICATION FairSpec

CONSTANTS
    NoRow = NoRow
    c1 = c1
    c2 = c2
    r1 = r1
    r2 = r2
    r3 = r3
    d1 = d1
    d2 = d2
    Recipients = {r1, r2, r3}
    BadNumbers = {r2}
    Windowed = {}
    DailyLimit = 2
    MaxCrashes = 0
    MaxFaults = 1
    MaxDays = 0
    MaxLosses = 1
    Campaigns = {c1, c2}
    Devices = {d1}
    Chunks <- TwoChunks
    DeviceIds <- OneDevice
    Scheduled = {c1}
    Requests = {1}
    Operations = {"start", "pause"}

PROPERTIES
    RunningEnds
    DueStarts
