\* A probe that returns 0 must have created every port device.
CONSTANTS
    Ports <- PortsMC
    MAX_LOADS <- MAX_LOADS_MC
    EnableCanFail = TRUE
SPECIFICATION Spec
INVARIANT ProbeSuccessMeansAllPorts
CHECK_DEADLOCK FALSE
