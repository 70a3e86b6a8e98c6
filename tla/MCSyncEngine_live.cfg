SPECIFICATION FairSpec
CONSTANTS
    Calls = {c1}
    Entities = {e1}
    Actions = {"update", "delete"}
    SnapshotOK = {TRUE}
    NoMeta = NoMeta
    MaxBackoff = 2
    MaxEdits = 1
    MaxForeign = 1
    MaxLog = 3
    MaxStrays = 1
    MaxFaults = 1
PROPERTY FailureRetried KeepsSending QueueDrains FirstSyncHappens
