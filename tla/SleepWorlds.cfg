\* Locks that work, that fail for a user who goes on, and for one who may not.
SPECIFICATION Spec
CONSTANTS
    Levels <- TwoLevels
    Worlds <- AllWorlds
    MaxFrames = 2
INVARIANTS TypeOK ReentryBounded NetworkRestored BeliefCurrent PanelOnWhenOpen
PROPERTY SleepsWithConsent
