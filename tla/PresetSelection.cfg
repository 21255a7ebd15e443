SPECIFICATION Spec
CONSTANTS
    Presets = {p1, p2}
    Custom = custom
    Phones = {h1}
    MaxPresets = 2
    MaxKnobs = 1
    MaxBelow = 2
SYMMETRY PresetSymmetry
VIEW SettledView
INVARIANTS
    TypeOK
    MissesByOne
    PressRecovers
    SelectionAgrees
PROPERTIES
    PressSurvives
