SPECIFICATION Spec
CONSTANTS
    Handlers = {h1}
    Main = main
    Presets = {p1, p2}
    Faults = {"open", "write", "crash"}
    MaxPresets = 2
    End = end
    Hole = hole
    Absent = absent
    Unusable = unusable
INVARIANTS
    TypeOK
    SavedWhenIdle
PROPERTIES
    ImplementsRegister
