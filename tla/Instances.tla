----------------------------- MODULE Instances -----------------------------
(***************************************************************************)
(* Starting, restarting and stopping blade-pm: the check in main, the two  *)
(* bus names a manager reserves, and the kernel's brightness switch, which *)
(* the running daemon sets to its liking and restores on exit.  The        *)
(* original value is kept in the configuration, so that the next daemon    *)
(* can restore it when this one crashed.                                   *)
(*                                                                         *)
(* Every blocking call (to the bus, to the brightness helper, to the       *)
(* configuration) is a step: the daemons are processes, and a restart      *)
(* starts the new one while the old one is still finishing.                *)
(***************************************************************************)
EXTENDS Integers, FiniteSets

CONSTANTS
    Procs,     \* processes that may run blade-pm
    Nobody, Foreign,  \* a name without owner; another power manager
    Worlds     \* what may happen around the daemons

ASSUME ProcsAssumption == IsFiniteSet(Procs) /\ Nobody \notin Procs /\ Foreign \notin Procs
ASSUME ForeignAssumption == Foreign # Nobody

\* foreigners: the other power managers there are.  overlap: may a new daemon set up
\* while an old one is finishing?  mayCrash: may a daemon die without finishing?
ASSUME WorldsAssumption ==
    Worlds \subseteq [foreigners : SUBSET {Foreign}, overlap : BOOLEAN, mayCrash : BOOLEAN]

VARIABLES
    world,       \* the world these daemons run in; it stays the same
    pc,          \* where each process is
    blade,       \* owner of org.blade.PowerManager
    freedesktop, \* owner of org.freedesktop.PowerManagement
    kernel,      \* the kernel's brightness switch
    original,    \* its value when no daemon had touched it
    stored,      \* brightness-switch-save in the configuration, -1 if unset
    saved,       \* each process's priv->brightness_switch_save
    switch,      \* each process's priv->brightness_switch
    handleKeys   \* the setting handle-brightness-keys

nameVars   == <<blade, freedesktop>>
switchVars == <<kernel, original, stored, saved, switch, handleKeys>>
vars == <<world, pc, nameVars, switchVars>>

Bit == {0, 1}
Starting  == {"check", "check2", "register", "register2"}
Serving   == {"read", "store", "write", "running"}
Finishing == {"release", "release2", "restore", "clear"}
States    == {"off", "zombie"} \cup Starting \cup Serving \cup Finishing

Init ==
    /\ world \in Worlds
    /\ pc = [p \in Procs |-> "off"]
    /\ blade = Nobody /\ freedesktop = Nobody
    /\ original \in Bit /\ kernel = original
    /\ stored = -1
    /\ saved = [p \in Procs |-> -1] /\ switch = [p \in Procs |-> -1]
    /\ handleKeys \in BOOLEAN

Goes(p, from, to) == pc[p] = from /\ pc' = [pc EXCEPT ![p] = to]

---------------------------------------------------------------------------
(* main, and blpm_manager_reserve_names                                     *)

Launch(p) ==
    /\ Goes(p, "off", "check")
    /\ UNCHANGED <<nameVars, switchVars>>

Check(p) ==
    /\ \/ freedesktop # Nobody /\ Goes(p, "check", "off")
       \/ freedesktop = Nobody /\ Goes(p, "check", "check2")
    /\ UNCHANGED <<nameVars, switchVars>>

Check2(p) ==
    /\ \/ blade # Nobody /\ Goes(p, "check2", "off")
       \/ blade = Nobody /\ Goes(p, "check2", "register")
    /\ UNCHANGED <<nameVars, switchVars>>

\* Mutant: the bus's answer is not looked at.
RegisterAnyhow(p) ==
    /\ Goes(p, "register", "register2")
    /\ blade' = IF blade = Nobody THEN p ELSE blade
    /\ UNCHANGED <<freedesktop, switchVars>>

(* A manager that does not get a name is destroyed, but main goes on to     *)
(* gtk_main, which the gtk_main_quit before it does not end: a zombie.      *)
Register(p) ==
    /\ \/ blade = Nobody /\ blade' = p /\ Goes(p, "register", "register2")
       \/ blade # Nobody /\ UNCHANGED blade /\ Goes(p, "register", "zombie")
    /\ UNCHANGED <<freedesktop, switchVars>>

Register2(p) ==
    /\ \/ freedesktop = Nobody /\ freedesktop' = p /\ Goes(p, "register2", "read")
       \/ freedesktop # Nobody /\ UNCHANGED freedesktop /\ Goes(p, "register2", "zombie")
    /\ UNCHANGED <<blade, switchVars>>

---------------------------------------------------------------------------
(* blpm_backlight_init: the kernel's value is read, the stored one is kept  *)
(* if a crash left one, and the switch is set for who handles the keys.     *)

Alone(p) == \A q \in Procs \ {p} : pc[q] \notin {"release2", "restore", "clear"}

ReadSwitch(p) ==
    /\ Goes(p, "read", "store")
    /\ world.overlap \/ Alone(p)
    /\ switch' = [switch EXCEPT ![p] = kernel]
    /\ UNCHANGED <<nameVars, kernel, original, stored, saved, handleKeys>>

\* Mutant: a value a crash left behind is overwritten.
StoreSwitchAgain(p) ==
    /\ Goes(p, "store", "write")
    /\ stored' = switch[p]
    /\ saved' = [saved EXCEPT ![p] = stored']
    /\ UNCHANGED <<nameVars, kernel, original, switch, handleKeys>>

StoreSwitch(p) ==
    /\ Goes(p, "store", "write")
    /\ stored' = IF stored = -1 THEN switch[p] ELSE stored
    /\ saved' = [saved EXCEPT ![p] = stored']
    /\ UNCHANGED <<nameVars, kernel, original, switch, handleKeys>>

Wanted == IF handleKeys THEN 0 ELSE 1

\* Mutant: the kernel counts from one.
WriteSwitchFromOne(p) ==
    /\ Goes(p, "write", "running")
    /\ switch' = [switch EXCEPT ![p] = Wanted + 1]
    /\ kernel' = Wanted + 1
    /\ UNCHANGED <<nameVars, original, stored, saved, handleKeys>>

WriteSwitch(p) ==
    /\ Goes(p, "write", "running")
    /\ switch' = [switch EXCEPT ![p] = Wanted]
    /\ kernel' = Wanted
    /\ UNCHANGED <<nameVars, original, stored, saved, handleKeys>>

(* blpm_backlight_set_property: the settings dialog changed the switch.     *)
SettingApplied(p) ==
    /\ pc[p] = "running"
    /\ switch[p] # Wanted
    /\ switch' = [switch EXCEPT ![p] = Wanted]
    /\ kernel' = Wanted
    /\ UNCHANGED <<pc, nameVars, original, stored, saved, handleKeys>>

---------------------------------------------------------------------------
(* blpm_manager_quit: by D-Bus, by a signal, or to restart, when a new      *)
(* process is spawned after the names are released; then the manager is     *)
(* finalized.                                                               *)

Quit(p) ==
    /\ Goes(p, "running", "release")
    /\ UNCHANGED <<nameVars, switchVars>>

Release(p) ==
    /\ Goes(p, "release", "release2")
    /\ blade' = IF blade = p THEN Nobody ELSE blade
    /\ UNCHANGED <<freedesktop, switchVars>>

\* Mutant: the second name is not released before the new process starts.
Release2Kept(p) ==
    /\ \/ Goes(p, "release2", "restore")
       \/ \E q \in Procs :
            pc[q] = "off" /\ pc[p] = "release2"
            /\ pc' = [pc EXCEPT ![p] = "restore", ![q] = "check"]
    /\ UNCHANGED <<nameVars, switchVars>>

Release2(p) ==
    /\ freedesktop' = IF freedesktop = p THEN Nobody ELSE freedesktop
    /\ \/ Goes(p, "release2", "restore")
       \/ \E q \in Procs :
            pc[q] = "off" /\ pc[p] = "release2"
            /\ pc' = [pc EXCEPT ![p] = "restore", ![q] = "check"]
    /\ UNCHANGED <<blade, switchVars>>

(* blpm_backlight_finalize: a value was stored, as one could be read.       *)
RestoreSwitch(p) ==
    /\ Goes(p, "restore", "clear")
    /\ kernel' = saved[p]
    /\ switch' = [switch EXCEPT ![p] = saved[p]]
    /\ UNCHANGED <<nameVars, original, stored, saved, handleKeys>>

ClearStored(p) ==
    /\ Goes(p, "clear", "off")
    /\ stored' = -1
    /\ UNCHANGED <<nameVars, kernel, original, saved, switch, handleKeys>>

---------------------------------------------------------------------------
(* The world.                                                               *)

(* A process dies, and the bus takes its names back.                        *)
Crash(p) ==
    /\ world.mayCrash
    /\ pc[p] # "off"
    /\ pc' = [pc EXCEPT ![p] = "off"]
    /\ blade' = IF blade = p THEN Nobody ELSE blade
    /\ freedesktop' = IF freedesktop = p THEN Nobody ELSE freedesktop
    /\ UNCHANGED switchVars

ForeignStarts ==
    /\ freedesktop = Nobody /\ freedesktop' \in world.foreigners
    /\ UNCHANGED <<pc, blade, switchVars>>

ForeignStops ==
    /\ freedesktop = Foreign /\ freedesktop' = Nobody
    /\ UNCHANGED <<pc, blade, switchVars>>

Untouched == stored = -1 /\ \A p \in Procs : pc[p] = "off"

(* The administrator sets the switch while no daemon cares for it.          *)
AdminSets ==
    /\ Untouched
    /\ kernel' \in Bit \ {kernel} /\ original' = kernel'
    /\ UNCHANGED <<pc, nameVars, stored, saved, switch, handleKeys>>

UserSets ==
    /\ handleKeys' = ~handleKeys
    /\ UNCHANGED <<pc, nameVars, kernel, original, stored, saved, switch>>

Runs(p) ==
    \/ Check(p) \/ Check2(p) \/ Register(p) \/ Register2(p)
    \/ ReadSwitch(p) \/ StoreSwitch(p) \/ WriteSwitch(p) \/ SettingApplied(p)
    \/ Release(p) \/ Release2(p) \/ RestoreSwitch(p) \/ ClearStored(p)

Next ==
    /\ UNCHANGED world
    /\ \/ \E p \in Procs : Launch(p) \/ Runs(p) \/ Quit(p) \/ Crash(p)
       \/ ForeignStarts \/ ForeignStops \/ AdminSets \/ UserSets

Spec == Init /\ [][Next]_vars

(* A process that is not waiting for anything runs on.                      *)
FairSpec == Spec /\ \A p \in Procs : WF_vars(Runs(p) /\ UNCHANGED world)

---------------------------------------------------------------------------
(* Properties.                                                              *)

(* Every variable has its type.                                             *)
TypeOK ==
    /\ world \in Worlds
    /\ pc \in [Procs -> States]
    /\ blade \in Procs \cup {Nobody}
    /\ freedesktop \in Procs \cup {Nobody, Foreign}
    /\ kernel \in Bit /\ original \in Bit /\ stored \in Bit \cup {-1}
    /\ saved \in [Procs -> Bit \cup {-1}] /\ switch \in [Procs -> Bit \cup {-1}]
    /\ handleKeys \in BOOLEAN

(* However starts, restarts and crashes are interleaved, at most one        *)
(* process is past the reservation of its names, and it owns both of them.  *)
OneManager ==
    \A p \in Procs : pc[p] \in Serving =>
        /\ blade = p /\ freedesktop = p
        /\ \A q \in Procs \ {p} : pc[q] \notin Serving

(* When nobody runs and nothing is stored, the kernel's switch has its      *)
(* original value, and whenever a value is stored it is that one, if no     *)
(* daemon sets up while another one is finishing.                           *)
OriginalKept ==
    /\ Untouched => kernel = original
    /\ stored # -1 => stored = original

SwitchRestored == ~world.overlap => OriginalKept

(* The kernel's switch is what the running daemon believes it set, under    *)
(* the same condition.                                                      *)
SwitchAsSet ==
    ~world.overlap => \A p \in Procs : pc[p] = "running" => kernel = switch[p]

(* After a restart the machine has a running daemon again, unless a daemon  *)
(* may die or another power manager may take its place.                     *)
(* With two processes: a third that is launched between the releases of the *)
(* two names can get hold of the first one and stay without serving.        *)
RestartServes ==
    [](\A p, q \in Procs :
          world.foreigners = {} /\ ~world.mayCrash /\ pc[p] = "restore" /\ pc[q] = "check"
          => <>(\E r \in Procs : pc[r] = "running"))
=============================================================================
