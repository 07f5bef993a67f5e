-------------------------- MODULE InhibitContract --------------------------
(***************************************************************************)
(* What org.freedesktop.PowerManagement.Inhibit promises its clients,      *)
(* independently of cookies, name watches and the bus: while a client      *)
(* wants the machine awake its inhibition, once granted, stays in force;   *)
(* once it no longer wants it (released, or gone from the bus) the         *)
(* inhibition eventually ends; and the daemon is inhibited while           *)
(* somebody's inhibition is in force.  A daemon that once forgot an        *)
(* inhibition may take the cookie of the one for that of another.  Module  *)
(* Inhibit implements this for clients that hold one cookie at a time and  *)
(* own no well-known name, beside others that do.                          *)
(***************************************************************************)
CONSTANT Clients

VARIABLES
    wanting,      \* clients that were granted an inhibition and have not given it up
    holders,      \* clients whose inhibition is in force in the daemon
    inhibited,    \* the answer of HasInhibit
    forgotten     \* did the daemon ever forget an inhibition?

cvars == <<wanting, holders, inhibited, forgotten>>

CTypeOK ==
    /\ wanting \subseteq Clients
    /\ holders \subseteq Clients
    /\ inhibited \in BOOLEAN
    /\ forgotten \in BOOLEAN

CInit ==
    /\ wanting = {}
    /\ holders = {}
    /\ inhibited = FALSE
    /\ forgotten = FALSE

\* Somebody's inhibition inhibits the daemon; so may those of other clients.
InForce == inhibited' \in {TRUE, holders' # {}}

\* The daemon puts an inhibition in force, which from then on its client wants
\* unless the client left while its call was under way.
Grant(c) ==
    /\ wanting' \in {wanting, wanting \cup {c}}
    /\ holders' = holders \cup {c}
    /\ InForce
    /\ UNCHANGED forgotten

\* A client gives its inhibition up, by releasing it or by leaving the bus.
Withdraw(c) ==
    /\ wanting' = wanting \ {c}
    /\ UNCHANGED <<holders, inhibited, forgotten>>

\* The daemon ends an inhibition, only ever one that nobody wants, unless it is
\* given a cookie of one it forgot.
Drop(c) ==
    /\ c \in holders
    /\ c \notin wanting \/ forgotten
    /\ holders' = holders \ {c}
    /\ InForce
    /\ UNCHANGED <<wanting, forgotten>>

\* Inhibitions of other clients come and go.
Others == InForce /\ UNCHANGED <<wanting, holders, forgotten>>

\* The daemon restarts and knows of no inhibition, or it may forget one of the
\* other clients from now on.
Forget ==
    /\ forgotten' = TRUE
    /\ holders' \in {holders, {}}
    /\ InForce
    /\ UNCHANGED wanting

CNext == Others \/ Forget \/ \E c \in Clients : Grant(c) \/ Withdraw(c) \/ Drop(c)

\* The daemon may take its time, but it does not hold on to an inhibition
\* forever that its client no longer wants.
CSpec == CInit /\ [][CNext]_cvars /\ \A c \in Clients : WF_cvars(c \notin wanting /\ Drop(c))
=============================================================================
