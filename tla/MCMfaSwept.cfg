SPECIFICATION Spec
SYMMETRY Symmetry
CONSTANTS
    Devices = {d1, d2, d3}
    Txns = {t1, t2}
    None = none
    MaxDevices = 2
    Threshold = 3
    CodeCount = 2
    EmailLimit = 2
    MaxRequests = 2
INVARIANTS
    NeverFewerThanOne
