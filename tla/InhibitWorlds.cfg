\* A client with two cookies that also owns and drops a well-known name, and two
\* clients with one cookie each, that go on using the cookies of a daemon that
\* restarted.
CONSTANTS
    c1 = c1
    c2 = c2
    c3 = c3
    n1 = n1
    NoConn = NoConn
    Conns <- ThreeConns
    Plain <- TwoPlain
    Names <- OneName
    CookieSpread = 1
    MaxHeld = 2
    MaxCookie = 4
    MaxInbox = 2
    MaxSleeps = 1
    MaxRestarts = 1
    MaxDrops = 1
SPECIFICATION Spec
INVARIANTS TypeOK CopiesAgree HeldCookiesLive
PROPERTIES NoIdleSleepWhileHeld ImplementsContract
CHECK_DEADLOCK FALSE
