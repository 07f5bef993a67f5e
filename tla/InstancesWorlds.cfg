\* Starts, restarts and quits of two daemons; crashes; another power manager.
SPECIFICATION FairSpec
CONSTANTS
    Procs = {p1, p2}
    Nobody = Nobody
    Foreign = Foreign
    Worlds <- AllWorlds
INVARIANTS TypeOK OneManager SwitchRestored
PROPERTY RestartServes
