------------------------------- MODULE Inhibit -------------------------------
(***************************************************************************)
(* The session-bus inhibit service (src/blpm-inhibit.c), the name watches  *)
(* it relies on to notice clients that die (libdbus/blpm-dbus-monitor.c),  *)
(* and the two places that copy its answer: the manager, which skips the   *)
(* idle sleep while inhibited, and the power object, which asks first.     *)
(*                                                                         *)
(* Clients and the bus daemon are concurrent with the power manager.  The  *)
(* bus delivers what it sends to the power manager in order, so `inbox` is *)
(* one FIFO of method calls and NameOwnerChanged signals; one message is   *)
(* one turn of the main loop.                                              *)
(***************************************************************************)
EXTENDS Naturals, FiniteSets, Sequences

CONSTANTS
    Conns,          \* unique connection names of the clients on the session bus
    Names,          \* well-known names clients may own
    Plain,          \* clients that hold one cookie at a time and own no name
    NoConn,         \* "no owner"
    CookieSpread,   \* a fresh cookie lies 1..CookieSpread above the largest live one
    MaxHeld,        \* cookies any other client holds at a time
    MaxCookie,      \* bound: largest cookie drawn
    MaxInbox,       \* bound: messages under way to the daemon
    MaxSleeps,      \* bound: idle sleeps counted
    MaxRestarts,    \* bound: restarts of the daemon
    MaxDrops        \* bound: well-known names given up

ASSUME InhibitAssumption ==
    /\ Plain \subseteq Conns
    /\ NoConn \notin Conns
    /\ CookieSpread \in Nat \ {0}
    /\ {MaxHeld, MaxCookie, MaxInbox, MaxSleeps, MaxRestarts, MaxDrops}
        \subseteq Nat

VARIABLES
    inhibitors,         \* GPtrArray of Inhibitor, as a set: cookies grow along it
    inhibited,          \* XfpmInhibitPrivate.inhibited
    watched,            \* unique names in XfpmDBusMonitorPrivate.names_array
    managerInhibited,   \* XfpmManagerPrivate.inhibited
    powerInhibited,     \* XfpmPowerPrivate.inhibited
    sleeps,             \* idle sleeps the manager has started
    restarts,           \* restarts of the daemon
    drops,              \* well-known names given up so far
    online,             \* clients connected to the session bus
    owner,              \* owner of each well-known name
    held,               \* cookies each client was given and has not released
    inbox               \* messages from the bus to the daemon, oldest first

daemonVars == <<inhibitors, inhibited, watched, managerInhibited, powerInhibited>>
clientVars == <<online, owner, held>>
vars == <<daemonVars, sleeps, restarts, drops, clientVars, inbox>>

\* 0 is never a cookie.
Cookie == Nat \ {0}

Inhibitor == [cookie : Cookie, conn : Conns]

Message ==
    [kind : {"inhibit"}, conn : Conns]
        \cup [kind : {"uninhibit"}, cookie : Cookie]
        \cup [kind : {"ownerlost"}, conn : Conns]

InhibitCall(c) == [kind |-> "inhibit", conn |-> c]
UnInhibitCall(k) == [kind |-> "uninhibit", cookie |-> k]
\* NameOwnerChanged with a previous owner c, whatever the name it is about.
OwnerLost(c) == [kind |-> "ownerlost", conn |-> c]

Holders == {i.conn : i \in inhibitors}

-----------------------------------------------------------------------------
(* The daemon's main loop. *)

\* Mutant: the range starts at the largest live cookie.
GetCookieFromMax(k) ==
    \E max \in {0} \cup {i.cookie : i \in inhibitors} :
        /\ \A i \in inhibitors : i.cookie <= max
        /\ k \in max..(max + CookieSpread)

\* Result of g_random_int_range (max + 1, max + 40) over the live cookies.
GetCookie(k) ==
    \E max \in {0} \cup {i.cookie : i \in inhibitors} :
        /\ \A i \in inhibitors : i.cookie <= max
        /\ k \in (max + 1)..(max + CookieSpread)

\* Mutant: the signal is emitted for new inhibitors only.
HasInhibitChangedWhenSet ==
    /\ inhibited' = (inhibitors' # {})
    /\ IF inhibited' /\ ~inhibited
       THEN managerInhibited' = TRUE /\ powerInhibited' = TRUE
       ELSE UNCHANGED <<managerInhibited, powerInhibited>>

\* Mutant: the flag is flipped on every change of the list.
HasInhibitFlipped ==
    /\ inhibited' = ~inhibited
    /\ managerInhibited' = inhibited'
    /\ powerInhibited' = inhibited'

\* Recompute the flag; the signal, and so the two copies, only on a change.
HasInhibitChanged ==
    /\ inhibited' = (inhibitors' # {})
    /\ IF inhibited' # inhibited
       THEN managerInhibited' = inhibited' /\ powerInhibited' = inhibited'
       ELSE UNCHANGED <<managerInhibited, powerInhibited>>

\* Mutant: the caller's name is not watched.
DispatchInhibitUnwatched(m) ==
    /\ m.kind = "inhibit"
    /\ \E k \in 0..MaxCookie :
        /\ GetCookie(k)
        /\ inhibitors' = inhibitors \cup {[cookie |-> k, conn |-> m.conn]}
        /\ held' = [held EXCEPT ![m.conn] = @ \cup {k}]
    /\ HasInhibitChanged
    /\ UNCHANGED <<watched, online, owner>>

DispatchInhibit(m) ==
    /\ m.kind = "inhibit"
    /\ \E k \in 0..MaxCookie :
        /\ GetCookie(k)
        /\ inhibitors' = inhibitors \cup {[cookie |-> k, conn |-> m.conn]}
        /\ held' = [held EXCEPT ![m.conn] = @ \cup {k}]
    /\ HasInhibitChanged
    /\ watched' = watched \cup {m.conn}
    /\ UNCHANGED <<online, owner>>

DispatchUnInhibit(m) ==
    /\ m.kind = "uninhibit"
    /\ \E i \in inhibitors :
        /\ i.cookie = m.cookie
        /\ watched' = watched \ {i.conn}
        /\ inhibitors' = inhibitors \ {i}
    /\ HasInhibitChanged
    /\ UNCHANGED clientVars

\* XFPM_ERROR_COOKIE_NOT_FOUND.
DispatchUnknownCookie(m) ==
    /\ m.kind = "uninhibit"
    /\ \A i \in inhibitors : i.cookie # m.cookie
    /\ UNCHANGED <<daemonVars, clientVars>>

\* The oldest inhibitor of c: cookies grow along the array.
FirstOf(c) ==
    {i \in inhibitors : /\ i.conn = c
                        /\ \A j \in inhibitors : j.conn = c => i.cookie <= j.cookie}

\* unique-name-lost for a watched name removes one inhibitor, then the watch.
DispatchOwnerLost(m) ==
    /\ m.kind = "ownerlost"
    /\ IF m.conn \in watched
       THEN /\ inhibitors' = inhibitors \ FirstOf(m.conn)
            /\ watched' = watched \ {m.conn}
            /\ HasInhibitChanged
       ELSE UNCHANGED daemonVars
    /\ UNCHANGED clientVars

Dispatch ==
    /\ inbox # <<>>
    /\ inbox' = Tail(inbox)
    /\ LET m == Head(inbox) IN
        \/ DispatchInhibit(m)
        \/ DispatchUnInhibit(m)
        \/ DispatchUnknownCookie(m)
        \/ DispatchOwnerLost(m)
    /\ UNCHANGED <<sleeps, restarts, drops>>

\* The inactivity alarm for the current power source expired and a sleep mode
\* is configured.
AlarmTimeout ==
    /\ ~managerInhibited
    /\ sleeps < MaxSleeps
    /\ sleeps' = sleeps + 1
    /\ UNCHANGED <<daemonVars, restarts, drops, clientVars, inbox>>

\* Restart over D-Bus, or the system bus came back: quit and spawn a new
\* daemon, which knows none of the inhibitors and gets none of the old inbox.
Restart ==
    /\ restarts < MaxRestarts
    /\ restarts' = restarts + 1
    /\ inhibitors' = {}
    /\ inhibited' = FALSE
    /\ watched' = {}
    /\ managerInhibited' = FALSE
    /\ powerInhibited' = FALSE
    /\ inbox' = <<>>
    /\ UNCHANGED <<sleeps, drops, online, owner, held>>

-----------------------------------------------------------------------------
(* Clients and the bus daemon. *)

Send(m) == Len(inbox) < MaxInbox /\ inbox' = Append(inbox, m)

\* Enough cookies left below the bound for this call and those under way.
RoomForCookie ==
    \A k \in {0} \cup {i.cookie : i \in inhibitors} :
        k + CookieSpread * (Len(inbox) + 1) <= MaxCookie

\* Inhibit calls of c that the daemon has not answered yet.
Unanswered(c) == Cardinality({p \in DOMAIN inbox : inbox[p] = InhibitCall(c)})

ClientInhibits(c) ==
    /\ c \in online
    /\ RoomForCookie
    /\ Unanswered(c) + Cardinality(held[c]) < (IF c \in Plain THEN 1 ELSE MaxHeld)
    /\ Send(InhibitCall(c))
    /\ UNCHANGED <<daemonVars, sleeps, restarts, drops, online, owner, held>>

ClientReleases(c) ==
    /\ c \in online
    /\ \E k \in held[c] :
        /\ held' = [held EXCEPT ![c] = @ \ {k}]
        /\ Send(UnInhibitCall(k))
    /\ UNCHANGED <<daemonVars, sleeps, restarts, drops, online, owner>>

ClientOwnsName(c, n) ==
    /\ c \in online \ Plain
    /\ owner[n] = NoConn
    /\ owner' = [owner EXCEPT ![n] = c]
    /\ UNCHANGED <<daemonVars, sleeps, restarts, drops, online, held, inbox>>

ClientDropsName(c, n) ==
    /\ owner[n] = c
    /\ owner' = [owner EXCEPT ![n] = NoConn]
    /\ Send(OwnerLost(c))
    /\ drops < MaxDrops
    /\ drops' = drops + 1
    /\ UNCHANGED <<daemonVars, sleeps, restarts, online, held>>

\* The bus drops the client's well-known names first, its unique name last,
\* and never hands the unique name out again.
ClientExits(c) ==
    /\ c \in online
    /\ \A n \in Names : owner[n] # c
    /\ online' = online \ {c}
    /\ Send(OwnerLost(c))
    /\ UNCHANGED <<daemonVars, sleeps, restarts, drops, owner, held>>

-----------------------------------------------------------------------------
Init ==
    /\ inhibitors = {}
    /\ inhibited = FALSE
    /\ watched = {}
    /\ managerInhibited = FALSE
    /\ powerInhibited = FALSE
    /\ sleeps = 0
    /\ restarts = 0
    /\ drops = 0
    /\ online = Conns
    /\ owner = [n \in Names |-> NoConn]
    /\ held = [c \in Conns |-> {}]
    /\ inbox = <<>>

Next ==
    \/ Dispatch
    \/ AlarmTimeout
    \/ Restart
    \/ \E c \in Conns :
        \/ ClientInhibits(c)
        \/ ClientReleases(c)
        \/ ClientExits(c)
        \/ \E n \in Names : ClientOwnsName(c, n) \/ ClientDropsName(c, n)

\* The main loop keeps reading its bus connection; clients promise nothing.
Spec == Init /\ [][Next]_vars /\ WF_vars(Dispatch)

-----------------------------------------------------------------------------
(* Properties. *)

\* Every variable holds a value of its type.
TypeOK ==
    /\ inhibitors \subseteq Inhibitor
    /\ inhibited \in BOOLEAN
    /\ watched \subseteq Conns
    /\ managerInhibited \in BOOLEAN
    /\ powerInhibited \in BOOLEAN
    /\ sleeps \in Nat
    /\ restarts \in Nat
    /\ drops \in Nat
    /\ online \subseteq Conns
    /\ owner \in [Names -> Conns \cup {NoConn}]
    /\ held \in [Conns -> SUBSET Cookie]
    /\ inbox \in Seq(Message)

\* HasInhibit, the manager's copy and the power object's copy all say the same:
\* inhibited exactly while there is an inhibitor, although each of the three
\* is stored on its own and the copies learn of changes only by a signal.
CopiesAgree ==
    /\ inhibited = (inhibitors # {})
    /\ managerInhibited = inhibited
    /\ powerInhibited = inhibited

\* A cookie names one inhibitor: blpm_inhibit_get_cookie never hands out a
\* cookie that is still live, so UnInhibit cannot release somebody else's.
CookiesUnique ==
    \A i, j \in inhibitors : i.cookie = j.cookie => i = j

\* The monitor watches no name for which no inhibitor is left: the watch goes
\* whenever an inhibitor of that name goes.
WatchesHold == watched \subseteq Holders

\* Nobody gave up a well-known name and the daemon was not restarted: either
\* makes it forget inhibitors that a client still wants.
NothingForgotten == drops = 0 /\ restarts = 0

\* A cookie that a connected client still holds names an inhibitor of that
\* client: it is neither dropped early nor drawn a second time for another,
\* whatever else is released, lost or requested meanwhile.
HeldCookiesLive ==
    NothingForgotten =>
        \A c \in online : \A k \in held[c] : [cookie |-> k, conn |-> c] \in inhibitors

\* No idle sleep starts while a connected client holds a cookie: between the
\* cookie and the sleep lie the list, the flag and the manager's copy of it.
NoIdleSleepWhileHeld ==
    [][sleeps' # sleeps /\ NothingForgotten => \A c \in online : held[c] = {}]_vars

\* "...the inhibit interface which allows applications to prevent automatic
\* sleep actions" (blade-pm.1): the same with no condition.
HeldPreventsSleep ==
    [][sleeps' # sleeps => \A c \in online : held[c] = {}]_vars

\* The service keeps its contract with plain clients, whatever the others do:
\* as long as nothing is forgotten an inhibition that a client wants is not
\* dropped, and one that nobody wants ends.
Contract == INSTANCE InhibitContract WITH
    Clients <- Plain,
    wanting <- {c \in Plain \cap online : held[c] # {}},
    holders <- Plain \cap Holders,
    forgotten <- ~NothingForgotten

ImplementsContract == Contract!CSpec
=============================================================================
