SPECIFICATION Spec
CONSTANTS
    Stations = {st1}
    Pages = {p1, p2}
    MaxRows = 2
    MaxSent = 4
    None = None
SYMMETRY Alike
INVARIANTS
    OneUnfinished
PROPERTIES
    ClosedStays
    RefusedOnlyWhenStale
    CooldownKept
CHECK_DEADLOCK FALSE
