SPECIFICATION Spec
CONSTANTS
    d1 = d1
    d2 = d2
    d3 = d3
    d4 = d4
    NoDevice = NoDevice
    Device = {d1, d2, d3, d4}
    Root = {d1, d2}
INVARIANT TrustedIsAccepted
CHECK_DEADLOCK FALSE
