SPECIFICATION Spec
CONSTANTS
    Calls = {c1}
    Entities = {e1}
    Actions = {"update"}
    SnapshotOK = {TRUE}
    NoMeta = NoMeta
    MaxBackoff = 2
    MaxEdits = 2
    MaxForeign = 0
    MaxLog = 2
    MaxStrays = 0
    MaxFaults = 0
PROPERTY LaterEditSurvives
