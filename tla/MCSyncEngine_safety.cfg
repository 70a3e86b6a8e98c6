\* Two edits, one foreign entry, one fault.
SPECIFICATION Spec
CONSTANTS
    Calls = {c1, c2}
    Entities = {e1}
    Actions = {"update"}
    SnapshotOK = {TRUE, FALSE}
    NoMeta = NoMeta
    MaxBackoff = 2
    MaxEdits = 2
    MaxForeign = 1
    MaxLog = 3
    MaxStrays = 1
    MaxFaults = 1
SYMMETRY Symmetry
INVARIANTS TypeOK NoLostChange CheckpointApplied EditStaysCovered FirstDeliveryInOrder
PROPERTY CheckpointMonotone
