\* Keys, lid and settings, and rules that change.
CONSTANTS
    Worlds <- AllWorlds
    Rules <- SomeRules
    MaxChanges = 3
    MaxInbox = 3
SPECIFICATION Spec
INVARIANTS TypeOK HandledOnce AuthFollowsRules TimerFindsSubject
PROPERTY OffersAreAllowed
CHECK_DEADLOCK FALSE
