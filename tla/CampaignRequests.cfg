SPECIFICATION Spec

CONSTANTS
    NoRow = NoRow
    c1 = c1
    c2 = c2
    r1 = r1
    r2 = r2
    r3 = r3
    d1 = d1
    d2 = d2
    Recipients = {r1, r2, r3}
    BadNumbers = {r2}
    Windowed = {c1}
    DailyLimit = 3
    MaxCrashes = 0
    MaxFaults = 0
    MaxDays = 0
    MaxLosses = 1
    Campaigns = {c1, c2}
    Devices = {d1}
    Chunks <- TwoChunks
    DeviceIds <- OneDevice
    Scheduled = {c2}
    Requests = {1, 2}
    Operations = {"start", "pause", "delete"}

INVARIANT
    RowsAreTrue
