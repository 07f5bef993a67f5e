\* A daemon that keeps up, one that is late, and one that nothing disturbs.
CONSTANTS
    MaxIdle = 3
    MaxEvents = 3
    MaxLevel = 2
    DimLevels <- DimmerOnBattery
    Worlds <- AllWorlds
SPECIFICATION FairSpec
INVARIANTS TypeOK DimmedHasReset BrightnessRestored ActiveIsBright
PROPERTIES SleepsWhenIdle IdleSleeps
CHECK_DEADLOCK FALSE
