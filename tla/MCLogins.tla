------------------------------ MODULE MCLogins ------------------------------
(* Machines for TLC: each login manager, keys and lid, and what may fail. *)
EXTENDS Logins

AllKeys == [k \in Keysyms |-> CHOOSE n \in 1..4 : Grabs[n] = k]
OneSleepKey == [AllKeys EXCEPT !["Suspend"] = 4]
Machine == [login |-> "logind", supports |-> Sleeps, keymap |-> AllKeys,
            events |-> {}, others |-> {"rules"}]

HandlingEvents ==
    {[Machine EXCEPT !.login = l, !.events = e, !.others = o] :
        l \in {"logind", "none"}, e \in {{"power-key", "lid-switch"}, {"suspend-key"}},
        o \in {{}, {"restart"}, {"logind"}}}
    \cup {[Machine EXCEPT !.events = {"suspend-key", "hibernate-key"}, !.keymap = k] :
        k \in {OneSleepKey, [AllKeys EXCEPT !["Suspend"] = 0]}}
Asking ==
    {[Machine EXCEPT !.login = l, !.supports = s, !.others = {"rules", "clients"} \cup o] :
        l \in {"logind", "consolekit2", "none"}, s \in {Sleeps, {"hibernate"}, {}},
        o \in {{}, {"polkit"}, {"restart"}}}

AllWorlds == HandlingEvents \cup Asking
SomeRules == {Actions, {"suspend", "reboot"}, {}}
=============================================================================
