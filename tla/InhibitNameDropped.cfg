\* A client that holds a cookie gives up a well-known name.
CONSTANTS
    c1 = c1
    c2 = c2
    c3 = c3
    n1 = n1
    NoConn = NoConn
    Conns <- TwoConns
    Plain <- Nobody
    Names <- OneName
    CookieSpread = 2
    MaxHeld = 1
    MaxCookie = 6
    MaxInbox = 2
    MaxSleeps = 1
    MaxRestarts = 0
    MaxDrops = 1
SPECIFICATION Spec
PROPERTY HeldPreventsSleep
CHECK_DEADLOCK FALSE
