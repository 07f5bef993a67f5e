SPECIFICATION DisplaySpec
CONSTANTS
    DpmsSettings <- SomeDpms
    BlankMinutes <- SomeBlank
INVARIANT DisplayFollowsSettings
