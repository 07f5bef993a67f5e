\* One page of the dialog at a time, with and without light-locker, other programs and restarts.
CONSTANTS
    Worlds <- AllWorlds
    Drags = {0, 1, 9, 59, 60, 120}
    MaxInbox = 1
SPECIFICATION Spec
INVARIANTS TypeOK ShownIsApplied StaysInOrder LidSwitchFollows
PROPERTY ShowsWhatApplies
CHECK_DEADLOCK FALSE
