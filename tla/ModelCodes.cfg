SPECIFICATION Spec
CONSTANTS
    Stations = {1, 2, 3}
    MaxRun   = 2
INVARIANTS
    CodesMeanTheSame
