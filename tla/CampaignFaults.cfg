SPECIFICATION Spec

CONSTANTS
    NoRow = NoRow
    c1 = c1
    c2 = c2
    r1 = r1
    r2 = r2
    r3 = r3
    d1 = d1
    d2 = d2
    Recipients = {r1, r2, r3}
    BadNumbers = {r2}
    Windowed = {}
    DailyLimit = 1
    MaxCrashes = 1
    MaxFaults = 1
    MaxDays = 1
    MaxLosses = 0
    Campaigns = {c1}
    Devices = {d1, d2}
    Chunks <- OneChunks
    DeviceIds <- BothDevices
    Scheduled = {c1}
    Requests = {1}
    Operations = {"start"}

INVARIANTS
    TypeOK
    ProgressIsTrue
    NoMessageTwice
    DailyLimitHolds
