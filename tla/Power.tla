-------------------------------- MODULE Power --------------------------------
(***************************************************************************)
(* How the charge of the batteries becomes a critical power action         *)
(* (src/blpm-power.c with src/blpm-battery.c).                             *)
(*                                                                         *)
(* UPower is outside: it knows which devices exist, their percentages and  *)
(* whether the machine runs on battery, and changes them at any time.  The *)
(* daemon learns of each change by a callback of its own, in any order,    *)
(* and every callback reads what UPower says at that moment.  A battery    *)
(* object classifies its percentage and signals a change of class; only    *)
(* that signal makes the power object look at the machine as a whole.      *)
(***************************************************************************)
EXTENDS Naturals, FiniteSets

CONSTANTS
    Devices,            \* UPower devices with a battery: object paths
    Percentages,        \* percentages UPower reports
    CriticalActions,    \* values of the critical-power-action setting
    Machines,           \* the machines the daemon may run on
    MaxChances          \* bound: times a charge rises, a device arrives or the level changes

\* The order of XfpmBatteryCharge.
UNKNOWN == 0
CRITICAL == 1
LOW == 2
OK == 3

\* What a machine has and what may happen to it: which devices are of kind BATTERY or
\* UPS (the others are mice, keyboards, phones), whether devices come and go, whether it
\* is plugged and unplugged, whether every screen lock tool can fail when it goes to
\* sleep, the values of its critical-power-level setting, and the percentages its
\* devices may have when the daemon starts.
MachineTypes ==
    [supplies : SUBSET Devices, hotPlug : BOOLEAN, acSwitches : BOOLEAN,
     lockMayFail : BOOLEAN, levels : SUBSET Nat, startups : SUBSET Percentages]

ASSUME PowerAssumption ==
    /\ Percentages \subseteq Nat
    /\ CriticalActions \subseteq {"nothing", "sleep", "signal"}
    /\ Machines \subseteq MachineTypes
    /\ MaxChances \in Nat

VARIABLES
    machine,            \* the machine this daemon runs on; it stays the same
    \* UPower and the user
    present,            \* devices UPower has
    percentage,         \* percentage of each device
    acPlugged,          \* mains power
    chances,            \* how often a charge rose, a device arrived or the critical level changed
    criticalLevel,      \* XfpmBlconf critical-power-level
    criticalAction,     \* XfpmBlconf critical-power-action: nothing, suspend or
                        \* hibernate ("sleep"), ask or shutdown ("signal")
    supportsActions,    \* XfpmNotify "actions": notifications can carry buttons
    \* XfpmBattery of each device
    charge,             \* XfpmBatteryPrivate.charge
    acOnline,           \* XfpmBatteryPrivate.ac_online
    \* XfpmPowerPrivate
    known,              \* keys of hash
    onBattery,          \* on_battery
    overallState,       \* overall_state
    onLowBattery,       \* on_low_battery
    actionDone,         \* critical_action_done
    dialog,             \* dialog # NULL
    asking,             \* critical sleeps waiting in "Do you still want to continue?"
    actions             \* critical actions carried out so far

upowerVars == <<present, percentage, acPlugged, chances>>
configVars == <<criticalLevel, criticalAction, supportsActions>>
batteryVars == <<charge, acOnline>>
stateVars == <<overallState, onLowBattery, actionDone, dialog, asking, actions>>
vars == <<machine, upowerVars, configVars, batteryVars, known, onBattery, stateVars>>

Supplies == machine.supplies

MaxOf(S) == CHOOSE x \in S : \A y \in S : y <= x

-----------------------------------------------------------------------------
(* A battery object. *)

\* low_level is critical_level + 10; both bounds belong to the lower class.
ChargeOf(p) ==
    CASE p > criticalLevel + 10 -> OK
      [] p > criticalLevel /\ p <= criticalLevel + 10 -> LOW
      [] p <= criticalLevel -> CRITICAL

-----------------------------------------------------------------------------
(* The power object. *)

\* Mutant: the weakest battery decides.
WeakestCharge ==
    LET counted == {charge'[d] : d \in {e \in known : e \in Supplies \/ acOnline[e]}} IN
    IF counted = {} THEN UNKNOWN ELSE CHOOSE x \in counted : \A y \in counted : x <= y

\* Mutant: the power object looks before the battery has stored its new class.
EarlierCharge ==
    MaxOf({UNKNOWN} \cup {charge[d] : d \in {e \in known : e \in Supplies \/ acOnline[e]}})

\* The best charge of all devices, leaving out those that are neither a
\* battery nor a UPS, but only when the object is told it is off mains.
CurrentCharge ==
    MaxOf({UNKNOWN} \cup {charge'[d] : d \in {e \in known : e \in Supplies \/ acOnline[e]}})

\* on_battery is copied to every known battery object's ac-online.
CheckPower(battery) ==
    IF battery # onBattery
    THEN /\ onBattery' = battery
         /\ acOnline' = [d \in Devices |-> IF d \in known THEN ~battery ELSE acOnline[d]]
    ELSE UNCHANGED <<onBattery, acOnline>>

\* blpm_power_sleep returns after the machine woke up: mains may have come or
\* gone, and it reads the properties again.
SleepAndWake ==
    /\ acPlugged' \in IF machine.acSwitches /\ present \cap Supplies # {} THEN BOOLEAN ELSE {acPlugged}
    /\ CheckPower(~acPlugged')

NoSleep == UNCHANGED <<acPlugged, onBattery, acOnline>>

\* No action configured, or done already: the notification, or the dialog when
\* the notification server has no buttons.
WarnOnCriticalPower ==
    /\ criticalAction = "nothing" \/ actionDone
    /\ dialog' = (dialog \/ ~supportsActions)
    /\ onLowBattery' = TRUE
    /\ UNCHANGED <<actionDone, asking, actions>>
    /\ NoSleep

\* A critical sleep whose screen lock fails asks the user, in a main loop of its
\* own: the handler stays where it is and every other callback goes on.
AskFirst ==
    /\ machine.lockMayFail
    /\ asking' = asking + 1
    /\ UNCHANGED onLowBattery
    /\ NoSleep

DontAsk(sleeps) ==
    /\ onLowBattery' = TRUE
    /\ IF sleeps THEN SleepAndWake ELSE NoSleep
    /\ UNCHANGED asking

ActOnCriticalPower ==
    /\ criticalAction # "nothing"
    /\ ~actionDone
    /\ actionDone' = TRUE
    /\ actions' = actions + 1
    /\ DontAsk(criticalAction = "sleep") \/ (criticalAction = "sleep" /\ AskFirst)
    /\ UNCHANGED dialog

\* The machine as a whole got critical on battery.
OnCritical(current) ==
    /\ current = CRITICAL /\ onBattery
    /\ WarnOnCriticalPower \/ ActOnCriticalPower

\* Mutant: the low battery flag survives.
OffCriticalFlagKept(current) ==
    /\ ~(current = CRITICAL /\ onBattery)
    /\ actionDone' = (actionDone /\ current < LOW)
    /\ dialog' = FALSE
    /\ UNCHANGED <<onLowBattery, asking, actions>>
    /\ NoSleep

OffCritical(current) ==
    /\ ~(current = CRITICAL /\ onBattery)
    /\ actionDone' = (actionDone /\ current < LOW)
    /\ onLowBattery' = FALSE
    /\ dialog' = FALSE
    /\ UNCHANGED <<asking, actions>>
    /\ NoSleep

\* battery-charge-changed, whichever battery sent it.
BatteryChargeChanged ==
    LET current == CurrentCharge IN
    \/ /\ current = overallState
       /\ UNCHANGED stateVars
       /\ NoSleep
    \/ /\ current # overallState
       /\ overallState' = current
       /\ OnCritical(current) \/ OffCritical(current)

-----------------------------------------------------------------------------
(* Callbacks of the daemon, one turn of its main loop each. *)

\* "notify" of a device: reclassify, and signal any change of class.
Refresh(d) ==
    /\ d \in known \cap present
    /\ charge' = [charge EXCEPT ![d] = ChargeOf(percentage[d])]
    /\ IF charge'[d] # charge[d]
       THEN BatteryChargeChanged
       ELSE UNCHANGED <<stateVars, acPlugged, onBattery, acOnline>>
    /\ UNCHANGED <<present, percentage, chances, configVars, known>>

\* Mutant: the new battery object waits for the first change of its device.
DeviceAddedUnread(d) ==
    /\ d \in present \ known
    /\ known' = known \cup {d}
    /\ acOnline' = [acOnline EXCEPT ![d] = TRUE]
    /\ UNCHANGED <<upowerVars, configVars, charge, onBattery, stateVars>>

\* The new battery object reads its device before the power object listens to
\* it, and believes in mains power until told otherwise.
DeviceAdded(d) ==
    /\ d \in present \ known
    /\ known' = known \cup {d}
    /\ charge' = [charge EXCEPT ![d] = ChargeOf(percentage[d])]
    /\ acOnline' = [acOnline EXCEPT ![d] = TRUE]
    /\ UNCHANGED <<upowerVars, configVars, onBattery, stateVars>>

DeviceRemoved(d) ==
    /\ d \in known \ present
    /\ known' = known \ {d}
    /\ charge' = [charge EXCEPT ![d] = UNKNOWN]
    /\ UNCHANGED <<upowerVars, configVars, acOnline, onBattery, stateVars>>

\* "notify" of the UPower client, and the end of any sleep the user, a button
\* or the idle alarm asked for.
PowerChanged ==
    /\ CheckPower(~acPlugged)
    /\ UNCHANGED <<upowerVars, configVars, charge, known, stateVars>>

\* Cancel, Shutdown, Suspend or Hibernate clicked in the critical dialog.
DialogClicked ==
    /\ dialog
    /\ dialog' = FALSE
    /\ NoSleep \/ SleepAndWake
    /\ UNCHANGED <<present, percentage, chances, configVars, charge, known, overallState,
                   onLowBattery, actionDone, asking, actions>>

\* The question of a critical sleep is answered, and its handler goes on where it
\* was: it sleeps or not, and marks the battery low.
LockAnswered ==
    /\ asking > 0
    /\ asking' = asking - 1
    /\ NoSleep \/ SleepAndWake
    /\ onLowBattery' = TRUE
    /\ UNCHANGED <<present, percentage, chances, configVars, charge, known, overallState,
                   actionDone, dialog, actions>>

-----------------------------------------------------------------------------
(* UPower, the machine and the user. *)

daemonVars == <<batteryVars, known, onBattery, stateVars>>

Discharges(d, p) ==
    /\ d \in present
    /\ p < percentage[d]
    /\ percentage' = [percentage EXCEPT ![d] = p]
    /\ UNCHANGED <<present, acPlugged, chances, configVars, daemonVars>>

Charges(d, p) ==
    /\ d \in present
    /\ p > percentage[d]
    /\ chances < MaxChances
    /\ chances' = chances + 1
    /\ percentage' = [percentage EXCEPT ![d] = p]
    /\ UNCHANGED <<present, acPlugged, configVars, daemonVars>>

Arrives(d, p) ==
    /\ machine.hotPlug
    /\ d \notin present
    /\ d \notin known
    /\ chances < MaxChances
    /\ chances' = chances + 1
    /\ present' = present \cup {d}
    /\ percentage' = [percentage EXCEPT ![d] = p]
    /\ UNCHANGED <<acPlugged, configVars, daemonVars>>

\* On battery the machine keeps running only while a supply is there.
Leaves(d) ==
    /\ machine.hotPlug
    /\ d \in present
    /\ acPlugged \/ (present \ {d}) \cap Supplies # {}
    /\ present' = present \ {d}
    /\ UNCHANGED <<percentage, acPlugged, chances, configVars, daemonVars>>

PlugOrUnplug ==
    /\ machine.acSwitches
    /\ present \cap Supplies # {}
    /\ acPlugged' = ~acPlugged
    /\ UNCHANGED <<present, percentage, chances, configVars, daemonVars>>

\* A setting changes; no battery object is told.
ConfigureAction ==
    /\ criticalAction' \in CriticalActions
    /\ supportsActions' \in BOOLEAN
    /\ UNCHANGED <<upowerVars, criticalLevel, daemonVars>>

ConfigureLevel ==
    /\ criticalLevel' \in machine.levels \ {criticalLevel}
    /\ chances < MaxChances
    /\ chances' = chances + 1
    /\ UNCHANGED <<present, percentage, acPlugged, criticalAction, supportsActions, daemonVars>>

-----------------------------------------------------------------------------
\* blpm_power_init: the devices are read first, the properties next, and no
\* charge that is found is looked at.
Init ==
    /\ machine \in Machines
    /\ present \in SUBSET Devices
    /\ machine.hotPlug \/ present = Devices
    /\ percentage \in [Devices -> machine.startups]
    /\ acPlugged \in BOOLEAN
    /\ acPlugged \/ present \cap Supplies # {}
    /\ chances = 0
    /\ criticalLevel \in machine.levels
    /\ criticalAction \in CriticalActions
    /\ supportsActions \in BOOLEAN
    /\ known = present
    /\ charge = [d \in Devices |-> IF d \in present THEN ChargeOf(percentage[d]) ELSE UNKNOWN]
    /\ acOnline = [d \in Devices |-> d \in present => acPlugged]
    /\ onBattery = ~acPlugged
    /\ overallState = OK
    /\ onLowBattery = FALSE
    /\ actionDone = FALSE
    /\ dialog = FALSE
    /\ asking = 0
    /\ actions = 0

Next ==
    /\ UNCHANGED machine
    /\ \/ PowerChanged
       \/ DialogClicked
       \/ LockAnswered
       \/ PlugOrUnplug
       \/ ConfigureAction
       \/ ConfigureLevel
       \/ \E d \in Devices :
            \/ Refresh(d)
            \/ DeviceAdded(d)
            \/ DeviceRemoved(d)
            \/ Leaves(d)
            \/ \E p \in Percentages : Discharges(d, p) \/ Charges(d, p) \/ Arrives(d, p)

Spec == Init /\ [][Next]_vars

-----------------------------------------------------------------------------
(* Properties. *)

\* The type of every variable; a battery object has a charge class as soon as
\* the power object knows it.
TypeOK ==
    /\ machine \in Machines
    /\ present \subseteq Devices
    /\ percentage \in [Devices -> Percentages]
    /\ acPlugged \in BOOLEAN
    /\ chances \in 0..MaxChances
    /\ criticalLevel \in machine.levels
    /\ criticalAction \in CriticalActions
    /\ supportsActions \in BOOLEAN
    /\ charge \in [Devices -> UNKNOWN..OK]
    /\ \A d \in Devices : charge[d] = UNKNOWN <=> d \notin known
    /\ acOnline \in [Devices -> BOOLEAN]
    /\ known \subseteq Devices
    /\ onBattery \in BOOLEAN
    /\ overallState \in UNKNOWN..OK
    /\ onLowBattery \in BOOLEAN
    /\ actionDone \in BOOLEAN
    /\ dialog \in BOOLEAN
    /\ asking \in 0..actions
    /\ actions \in Nat

\* "When all the power sources of the computer reach this charge level"
\* (settings/blpm-settings.c:1495): the critical action is carried out only on
\* battery and only when no battery or UPS the daemon knows is above critical.
ActionJustified ==
    [][actions' # actions =>
        onBattery /\ \A d \in known \cap Supplies : charge'[d] = CRITICAL]_vars

\* With batteries only and a level that stays, a stretch of critical power costs one
\* critical action: however the callbacks interleave, the machine is not put to sleep
\* again until some device charged or a new one arrived.  (A mouse counts while the
\* machine is on mains, so plugging in ends a stretch; each battery learns of a new level
\* at a time of its own, so one change of the level may end two.)
OneActionPerEpisode ==
    Devices = Supplies /\ machine.levels = {criticalLevel} => actions <= chances + 1

\* The dialog never outlives the critical state ("Current charge is okay now, then
\* close the dialog").
DialogOnlyWhenCritical == dialog => overallState = CRITICAL

\* The low battery flag other programs read does not outlive the critical state
\* either, with one exception: a handler that was kept waiting by its question
\* raises the flag when it is answered, whatever happened in the meantime.
StaleLowBattery == onLowBattery /\ overallState # CRITICAL

LowBatteryOnlyWhenCritical ==
    [][StaleLowBattery' => StaleLowBattery \/ asking' < asking]_vars

\* The daemon has caught up with everything UPower says.
CaughtUp ==
    /\ onBattery = ~acPlugged
    /\ known = present
    /\ \A d \in known : charge[d] = ChargeOf(percentage[d])

\* The other half of the settings text: once the daemon has caught up, a machine
\* on battery whose supplies are all critical has been dealt with.
CriticalIsHandled ==
    CaughtUp /\ onBattery /\ (\A d \in known \cap Supplies : charge[d] = CRITICAL)
        => onLowBattery

\* Batteries only, none of them leaving, mains power as it was, a screen lock that
\* works, and no battery critical at the start.
SteadyMachine ==
    /\ ~machine.hotPlug /\ ~machine.acSwitches /\ ~machine.lockMayFail
    /\ Devices = Supplies
    /\ \A p \in machine.startups, l \in machine.levels : p > l

\* What is left of CriticalIsHandled in the code: it holds on a steady machine.
SteadyIsHandled == SteadyMachine => CriticalIsHandled
=============================================================================
