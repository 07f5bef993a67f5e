----------------------------- MODULE MCSettings -----------------------------
(* Machines for TLC: the sliders of a laptop and of a computer whose screen   *)
(* cannot be dimmed, the lock with and without light-locker, and the combos.  *)
EXTENDS Settings

Nothing == [k \in Keys |-> Unset]
Laptop ==
    [keys |-> {}, source |-> "battery", stored |-> Nothing,
     can |-> {DoSuspend, DoHibernate, DoShutdown}, auth |-> {DoSuspend, DoHibernate},
     lcd |-> TRUE, locker |-> {}, session |-> Unset, others |-> {}]
Stores(w, k, v) == [w EXCEPT !.stored = [@ EXCEPT ![k] = v]]

Times(w, blank, sleep, off, dim) ==
    Stores(Stores(Stores(Stores(w, "blank", blank), "sleep", sleep), "off", off), "dim", dim)
InTurn(w) == Times(w, 1, 9, 59, 30)
\* In each other's way from elsewhere.
Crossed(w) == Times(w, 60, 2, 59, 120)

Displays ==
    {[InTurn(Laptop) EXCEPT !.keys = Sliders, !.source = s] : s \in {"ac", "battery"}}
    \cup {[Crossed(Laptop) EXCEPT !.keys = Sliders]}
    \cup {[Laptop EXCEPT !.keys = {"sleep", "off", "dpms"}, !.lcd = FALSE, !.others = {"blank"}]}
Locks ==
    {[Laptop EXCEPT !.keys = Lids \cup {"lock"}, !.locker = {5}, !.session = s] : s \in {Unset, 0}}
    \cup {[Laptop EXCEPT !.keys = {"lock", "lid-on-ac"}, !.session = 0, !.others = {o}] :
            o \in {"session", "restart"}}
    \cup {[Laptop EXCEPT !.keys = {"locker", "lock"}, !.locker = {0, 5, 60, 300}]}
Choosing ==
    {[Laptop EXCEPT !.keys = {k, "critical-level"}, !.source = s, !.can = c, !.auth = a, !.others = {o}] :
       k \in Combos, s \in {"ac", "battery"}, c \in {{}, {DoHibernate}, {DoSuspend, DoShutdown}},
       a \in {{}, {DoSuspend, DoHibernate}}, o \in {"restart", "reset"}}
    \cup {[Laptop EXCEPT !.keys = {k, "inactivity"}, !.others = {"restart"}] :
            k \in Toggles \cup {"level", "mode"}}
\* Values from elsewhere.
Foreign ==
    {[Stores(Stores(Laptop, k, v), "off", 70) EXCEPT !.keys = {k}] :
       k \in {"critical-level", "tray", "sleep", "inactivity"}, v \in {0, 3, 61}}

AllWorlds == Displays \cup Locks \cup Choosing \cup Foreign
=============================================================================
