\* A restart in which the old daemon clears the value the new one relies on.
SPECIFICATION Spec
CONSTANTS
    Procs = {p1, p2}
    Nobody = Nobody
    Foreign = Foreign
    Worlds <- CalmWorld
INVARIANT OriginalKept
