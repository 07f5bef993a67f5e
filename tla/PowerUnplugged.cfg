\* The batteries get critical on mains power, then the machine is unplugged.
CONSTANTS
    bat0 = bat0
    dev1 = dev1
    Devices <- TwoDevices
    Percentages <- BoundaryPercentages
    CriticalActions = {"sleep"}
    Machines <- PluggedMachine
    MaxChances = 1
SPECIFICATION Spec
INVARIANT CriticalIsHandled
CHECK_DEADLOCK FALSE
