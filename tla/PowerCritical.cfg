\* Two batteries, or a battery and a mouse, on machines to which everything or nothing happens.
CONSTANTS
    bat0 = bat0
    dev1 = dev1
    Devices <- TwoDevices
    Percentages <- BoundaryPercentages
    CriticalActions = {"nothing", "sleep", "signal"}
    Machines <- AllMachines
    MaxChances = 2
SPECIFICATION Spec
INVARIANTS TypeOK OneActionPerEpisode SteadyIsHandled
PROPERTIES ActionJustified LowBatteryOnlyWhenCritical
CHECK_DEADLOCK FALSE
