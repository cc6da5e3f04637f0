CONSTANTS
    Items = {i1, i2}
    Statuses = {"attempting", "freed"}
    Details = {d1}
    NoDetail = NoDetail
    MaxWrites = 3
SPECIFICATION Spec
SYMMETRY Symmetry
PROPERTIES UnreadableForever ImplementsLedger
CHECK_DEADLOCK FALSE
