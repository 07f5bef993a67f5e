CONSTANTS
    Worlds <- AllWorlds
    MaxSetting = 3
    Drags = {0, 1, 2, 3, 4, 6, 50, 105}
SPECIFICATION FairSpec
INVARIANTS TypeOK SliderIsApplied
PROPERTY KeysReachTheEnd
CHECK_DEADLOCK FALSE
