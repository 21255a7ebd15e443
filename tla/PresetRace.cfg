SPECIFICATION Spec
CONSTANTS
    Handlers = {h1, h2}
    Main = main
    Presets = {p1, p2}
    Faults = {}
    MaxPresets = 2
    End = end
    Hole = hole
    Absent = absent
    Unusable = unusable
INVARIANT SavedWhenIdle
