------------------------------- MODULE Sleep -------------------------------
(***************************************************************************)
(* Putting the machine to sleep: blpm_manager_sleep_request and the four   *)
(* things that lead to it (a key, the lid, the idle alarm, a critical      *)
(* battery) or to blpm_power_sleep directly (a D-Bus call), with the       *)
(* dialogs blpm_power_sleep may open on the way, the Network Manager, the  *)
(* panel's brightness, and UPower's lid and power-source properties, which *)
(* blpm_power_get_properties applies.                                      *)
(*                                                                         *)
(* The daemon has one thread.  A handler runs to its end unless it opens a *)
(* dialog, whose gtk_dialog_run is a main loop of its own: any other       *)
(* handler may run, and sleep the machine, before the dialog is answered.  *)
(* `stack' is the call stack, innermost call first, one frame for each     *)
(* blpm_power_sleep, blpm_power_get_properties and lid-lock error dialog   *)
(* that has not returned.                                                  *)
(***************************************************************************)
EXTENDS Naturals, Sequences

CONSTANTS
    Levels,       \* brightness levels of the panel
    Worlds,       \* what may happen around the daemon
    MaxFrames     \* no handler is started on a stack this deep

Sleeps    == {"suspend", "hibernate"}
Requests  == Sleeps \cup {"nothing", "shutdown", "ask"}
LidActions == Sleeps \cup {"nothing", "lock"}

ConfigType == [nm : BOOLEAN, lock : BOOLEAN, logindLid : BOOLEAN,
               lidOnAc : LidActions, lidOnBattery : LidActions,
               key : Requests, idle : Requests]

\* configs: the settings the user may choose.  answers: those the user may give to "Do you
\* still want to continue?" when no tool could lock the screen, none if locking never fails.
\* batched: may UPower report the lid and the power source in one signal?
ASSUME WorldsAssumption ==
    Worlds \subseteq [configs : SUBSET ConfigType, answers : SUBSET BOOLEAN, batched : BOOLEAN]
ASSUME BoundsAssumption == MaxFrames \in Nat /\ Levels \subseteq Nat /\ Levels # {}

VARIABLES
    world,        \* the world this daemon runs in; it stays the same
    conf,         \* the settings
    hw,           \* the machine: is the lid closed, does it run on battery
    upower,       \* what the UPower client last heard of that
    lidIsClosed,  \* priv->lid_is_closed
    onBattery,    \* priv->on_battery
    inhibited,    \* priv->inhibited, of the manager and of the power object
    recent,       \* g_timer_elapsed (manager->priv->timer) <= SLEEP_KEY_TIMEOUT
    nmAsleep,     \* the last Sleep call made to the Network Manager
    level,        \* the panel's brightness
    dpmsOff,      \* did the lid switch the panel off?
    stack

vars == <<world, conf, hw, upower, lidIsClosed, onBattery, inhibited, recent, nmAsleep, level, dpmsOff, stack>>

Hardware == [lid : BOOLEAN, bat : BOOLEAN]

(* blpm_power_sleep: its argument and locals, and whether the user said yes *)
(* to sleeping although inhibited.                                          *)
SleepFrames == [at : {"confirm", "prepare", "lock", "suspend", "restore"},
                force : BOOLEAN, nm : BOOLEAN, saved : Levels, yes : BOOLEAN]
PropsFrames == [at : {"lid", "power"}, lid : BOOLEAN, bat : BOOLEAN]
ErrorFrames == [at : {"error"}]
Dialogs     == {"confirm", "lock", "error"}

Init ==
    /\ world \in Worlds
    /\ conf \in world.configs
    /\ hw \in Hardware /\ upower = hw
    /\ lidIsClosed = hw.lid /\ onBattery = hw.bat
    /\ inhibited = FALSE /\ recent = TRUE
    /\ nmAsleep = FALSE /\ dpmsOff = FALSE
    /\ level \in Levels
    /\ stack = <<>>

At(pc)      == stack # <<>> /\ Head(stack).at = pc
Return      == Tail(stack)
Goto(frame) == <<frame>> \o Tail(stack)
Call(frame, below) == <<frame>> \o below

(* A main loop is running, the outermost one or a dialog's.                 *)
MainLoop == stack # <<>> => Head(stack).at \in Dialogs
Room     == MainLoop /\ Len(stack) < MaxFrames

(* blpm_power_sleep up to its question: an inhibited daemon asks first,     *)
(* unless it is forced.                                                     *)
PowerSleep(force) ==
    [at |-> IF inhibited /\ ~force THEN "confirm" ELSE "prepare",
     force |-> force, nm |-> FALSE, saved |-> level, yes |-> FALSE]

GetProperties(read) == [at |-> "lid", lid |-> read.lid, bat |-> read.bat]

---------------------------------------------------------------------------
(* The handlers that ask for sleep.                                         *)

SleepRequest(req, force) ==
    /\ stack' = IF req \in Sleeps THEN Call(PowerSleep(force), stack) ELSE stack
    /\ UNCHANGED <<conf, hw, upower, lidIsClosed, onBattery, inhibited, nmAsleep, level, dpmsOff>>

(* blpm_manager_button_pressed_cb: a key that asks for the session dialog   *)
(* is not held back by the timer, and changes nothing here.                 *)
ButtonPressed ==
    /\ Room
    /\ conf.key # "ask"
    /\ ~recent
    /\ recent' = TRUE
    /\ SleepRequest(conf.key, FALSE)

(* blpm_manager_alarm_timeout_cb, for the alarm of the present power source *)
AlarmTimeout ==
    /\ Room
    /\ ~inhibited
    /\ SleepRequest(conf.idle, FALSE)
    /\ UNCHANGED recent

(* Suspend and Hibernate of org.freedesktop.PowerManagement, for a caller   *)
(* that is allowed to.                                                      *)
DBusSleep ==
    /\ Room
    /\ SleepRequest("suspend", FALSE)
    /\ UNCHANGED recent

(* The critical battery's action, and its dialog's buttons (module Power).  *)
CriticalBattery ==
    /\ Room
    /\ SleepRequest("hibernate", TRUE)
    /\ UNCHANGED recent

(* blpm_manager_lid_changed_cb, called by CheckLid; it returns to `caller'. *)
(* With several monitors neither the panel nor the session is touched.      *)
LidAction(battery) == IF battery THEN conf.lidOnBattery ELSE conf.lidOnAc

LidClosed(caller) ==
    \/ /\ LidAction(onBattery) = "nothing"
       /\ dpmsOff' \in {dpmsOff, TRUE}
       /\ stack' = caller
    \/ /\ LidAction(onBattery) = "lock"
       /\ \/ stack' = caller
          \/ world.answers # {} /\ stack' = Call([at |-> "error"], caller)
       /\ UNCHANGED dpmsOff
    \/ /\ LidAction(onBattery) \in Sleeps
       /\ stack' = Call(PowerSleep(TRUE), caller)
       /\ UNCHANGED dpmsOff

\* Mutant: the panel comes back only under the setting that switched it off.
LidChangedByAction(closed, caller) ==
    \/ conf.logindLid /\ stack' = caller /\ UNCHANGED dpmsOff
    \/ ~conf.logindLid /\ closed /\ LidClosed(caller)
    \/ /\ ~conf.logindLid /\ ~closed
       /\ dpmsOff' = (dpmsOff /\ LidAction(onBattery) # "nothing")
       /\ stack' = caller

LidChanged(closed, caller) ==
    \/ conf.logindLid /\ stack' = caller /\ UNCHANGED dpmsOff
    \/ ~conf.logindLid /\ closed /\ LidClosed(caller)
    \/ ~conf.logindLid /\ ~closed /\ dpmsOff' = FALSE /\ stack' = caller

---------------------------------------------------------------------------
(* blpm_power_get_properties: both values are read first, then the lid is   *)
(* checked, then the power source.                                          *)

(* blpm_power_changed_cb: UPower's news reach the client.                   *)
UpowerChanged ==
    /\ Room
    /\ upower # hw
    /\ upower' \in IF world.batched THEN {hw}
                   ELSE {[upower EXCEPT !.lid = hw.lid], [upower EXCEPT !.bat = hw.bat]} \ {upower}
    /\ stack' = Call(GetProperties(upower'), stack)
    /\ UNCHANGED <<conf, hw, lidIsClosed, onBattery, inhibited, recent, nmAsleep, level, dpmsOff>>

\* Mutant: the power source is not checked after a lid that changed.
CheckLidAlone ==
    /\ At("lid")
    /\ LET closed == Head(stack).lid
       IN  /\ lidIsClosed' = closed
           /\ IF closed = lidIsClosed
              THEN stack' = Goto([Head(stack) EXCEPT !.at = "power"]) /\ UNCHANGED dpmsOff
              ELSE LidChanged(closed, Return)
    /\ UNCHANGED <<conf, hw, upower, onBattery, inhibited, recent, nmAsleep, level>>

\* Mutant: the signal is emitted before the lid is recorded.
CheckLidUnrecorded ==
    /\ At("lid")
    /\ LET caller == Goto([Head(stack) EXCEPT !.at = "power"])
           closed == Head(stack).lid
       IN  IF closed = lidIsClosed
           THEN stack' = caller /\ UNCHANGED dpmsOff
           ELSE LidChanged(closed, caller)
    /\ UNCHANGED <<conf, hw, upower, lidIsClosed, onBattery, inhibited, recent, nmAsleep, level>>

CheckLid ==
    /\ At("lid")
    /\ LET caller == Goto([Head(stack) EXCEPT !.at = "power"])
           closed == Head(stack).lid
       IN  /\ lidIsClosed' = closed
           /\ IF closed = lidIsClosed
              THEN stack' = caller /\ UNCHANGED dpmsOff
              ELSE LidChanged(closed, caller)
    /\ UNCHANGED <<conf, hw, upower, onBattery, inhibited, recent, nmAsleep, level>>

CheckPower ==
    /\ At("power")
    /\ onBattery' = Head(stack).bat
    /\ stack' = Return
    /\ UNCHANGED <<conf, hw, upower, lidIsClosed, inhibited, recent, nmAsleep, level, dpmsOff>>

---------------------------------------------------------------------------
(* blpm_power_sleep after its question.                                     *)

\* Mutant: the answer is not looked at.
ConfirmAnsweredAnyhow(yes) ==
    /\ At("confirm")
    /\ stack' = Goto([Head(stack) EXCEPT !.at = "prepare", !.yes = yes])
    /\ UNCHANGED <<conf, hw, upower, lidIsClosed, onBattery, inhibited, recent,
                   nmAsleep, level, dpmsOff>>

(* The user answers "An application is currently disabling ...".            *)
ConfirmAnswered(yes) ==
    /\ At("confirm")
    /\ stack' = IF yes THEN Goto([Head(stack) EXCEPT !.at = "prepare", !.yes = TRUE])
                       ELSE Return
    /\ UNCHANGED <<conf, hw, upower, lidIsClosed, onBattery, inhibited, recent,
                   nmAsleep, level, dpmsOff>>

\* Mutant: the brightness is not read before the machine sleeps.
PrepareLevelUnread ==
    /\ At("prepare")
    /\ recent' = TRUE
    /\ nmAsleep' = (nmAsleep \/ conf.nm)
    /\ \E at \in IF conf.lock /\ world.answers # {} THEN {"lock", "suspend"} ELSE {"suspend"} :
          stack' = Goto([Head(stack) EXCEPT !.at = at, !.nm = conf.nm, !.saved = 0])
    /\ UNCHANGED <<conf, hw, upower, lidIsClosed, onBattery, inhibited, level, dpmsOff>>

(* From SLEEPING, which resets the manager's timer, to the screen lock.     *)
Prepare ==
    /\ At("prepare")
    /\ recent' = TRUE
    /\ nmAsleep' = (nmAsleep \/ conf.nm)
    /\ \E at \in IF conf.lock /\ world.answers # {} THEN {"lock", "suspend"} ELSE {"suspend"} :
          stack' = Goto([Head(stack) EXCEPT !.at = at, !.nm = conf.nm, !.saved = level])
    /\ UNCHANGED <<conf, hw, upower, lidIsClosed, onBattery, inhibited, level, dpmsOff>>

(* No locker ran, and the user says whether to go on.                       *)
LockAnswered(yes) ==
    /\ At("lock")
    /\ yes \in world.answers
    /\ stack' = IF yes THEN Goto([Head(stack) EXCEPT !.at = "suspend"]) ELSE Return
    /\ UNCHANGED <<conf, hw, upower, lidIsClosed, onBattery, inhibited, recent,
                   nmAsleep, level, dpmsOff>>

(* The blocking call to the login manager: meanwhile the lid, the power     *)
(* source and the panel may change, but nothing is dispatched.  A call that *)
(* fails leaves them alone and goes on all the same.  WAKING_UP resets the  *)
(* timer, and the properties are checked.                                   *)
Suspend ==
    /\ At("suspend")
    /\ hw' \in Hardware
    /\ level' \in Levels
    /\ recent' = TRUE
    /\ stack' = Call(GetProperties(upower),
                     Goto([Head(stack) EXCEPT !.at = "restore"]))
    /\ UNCHANGED <<conf, upower, lidIsClosed, onBattery, inhibited, nmAsleep, dpmsOff>>

\* Mutant: the setting is read again instead of kept.
RestoreBySetting ==
    /\ At("restore")
    /\ level' = Head(stack).saved
    /\ nmAsleep' = (nmAsleep /\ ~conf.nm)
    /\ stack' = Return
    /\ UNCHANGED <<conf, hw, upower, lidIsClosed, onBattery, inhibited, recent,
                   dpmsOff>>

Restore ==
    /\ At("restore")
    /\ level' = Head(stack).saved
    /\ nmAsleep' = (nmAsleep /\ ~Head(stack).nm)
    /\ stack' = Return
    /\ UNCHANGED <<conf, hw, upower, lidIsClosed, onBattery, inhibited, recent,
                   dpmsOff>>

(* The user closes the error dialog of a lid that could not lock.           *)
ErrorClosed ==
    /\ At("error")
    /\ stack' = Return
    /\ UNCHANGED <<conf, hw, upower, lidIsClosed, onBattery, inhibited, recent,
                   nmAsleep, level, dpmsOff>>

---------------------------------------------------------------------------
(* The world, while a main loop waits.                                      *)

HardwareChanges ==
    /\ MainLoop
    /\ hw' \in {[hw EXCEPT !.lid = ~@], [hw EXCEPT !.bat = ~@]}
    /\ UNCHANGED <<conf, upower, lidIsClosed, onBattery, inhibited, recent, nmAsleep, level, dpmsOff, stack>>

InhibitChanged ==
    /\ MainLoop
    /\ inhibited' = ~inhibited
    /\ UNCHANGED <<conf, hw, upower, lidIsClosed, onBattery, recent, nmAsleep, level, dpmsOff, stack>>

LevelChanges ==
    /\ MainLoop
    /\ level' \in Levels \ {level}
    /\ UNCHANGED <<conf, hw, upower, lidIsClosed, onBattery, inhibited, recent,
                   nmAsleep, dpmsOff, stack>>

ConfigChanges ==
    /\ MainLoop
    /\ conf' \in world.configs \ {conf}
    /\ UNCHANGED <<hw, upower, lidIsClosed, onBattery, inhibited, recent, nmAsleep, level, dpmsOff, stack>>

TimePasses ==
    /\ MainLoop
    /\ recent
    /\ recent' = FALSE
    /\ UNCHANGED <<conf, hw, upower, lidIsClosed, onBattery, inhibited, nmAsleep,
                   level, dpmsOff, stack>>

Requested == ButtonPressed \/ AlarmTimeout \/ DBusSleep \/ CriticalBattery
Answered  == ErrorClosed \/ \E yes \in BOOLEAN : ConfirmAnswered(yes) \/ LockAnswered(yes)
Runs      == CheckLid \/ CheckPower \/ Prepare \/ Suspend \/ Restore
Outside   == HardwareChanges \/ InhibitChanged \/ LevelChanges \/ ConfigChanges \/ TimePasses

Next ==
    /\ UNCHANGED world
    /\ Requested \/ UpowerChanged \/ Answered \/ Runs \/ Outside

Spec == Init /\ [][Next]_vars

---------------------------------------------------------------------------
(* Properties.                                                              *)

(* Every variable has its type.                                             *)
TypeOK ==
    /\ world \in Worlds
    /\ conf \in world.configs
    /\ hw \in Hardware /\ upower \in Hardware
    /\ lidIsClosed \in BOOLEAN /\ onBattery \in BOOLEAN /\ inhibited \in BOOLEAN
    /\ recent \in BOOLEAN
    /\ nmAsleep \in BOOLEAN /\ level \in Levels /\ dpmsOff \in BOOLEAN
    /\ stack \in Seq(SleepFrames \cup PropsFrames \cup ErrorFrames)

(* The conditions some of the properties need: the lock never fails, or the *)
(* user always goes on.  See the README for what happens without them.      *)
LockWorks == world.answers = {}
GoesOn    == FALSE \notin world.answers

(* However the lid, the dialogs and the wake-ups follow each other, a       *)
(* handler started by the main loop adds at most a check of the lid, the    *)
(* sleep it asks for and the check after that sleep: checking the lid after *)
(* a sleep that the lid itself asked for finds nothing new, so the machine  *)
(* is not put to sleep again and again from inside one handler.             *)
ReentryBounded == Len(stack) <= MaxFrames + 2

(* The Network Manager is told to wake up for every time it was told to     *)
(* sleep: when no handler is under way the network is up, even if the       *)
(* setting was changed while a dialog was open, or sleeps were nested.      *)
NetworkAwake == stack = <<>> => ~nmAsleep
NetworkRestored == GoesOn => NetworkAwake

(* What the daemon believes of the lid and of the power source is what      *)
(* UPower told it last, whenever no handler is under way.                   *)
BeliefCurrent ==
    LockWorks /\ stack = <<>> => lidIsClosed = upower.lid /\ onBattery = upower.bat

(* While an application inhibits the power manager the machine is put to    *)
(* sleep only by a request that is forced, or once the user said yes.  No   *)
(* application starts to inhibit it between the question and the sleep,     *)
(* unless the question about the lock comes in between.                     *)
SleepsWithConsent ==
    [][LockWorks /\ At("suspend") /\ inhibited => Head(stack).force \/ Head(stack).yes]_vars

(* A panel the closed lid switched off is on again when the lid is open,    *)
(* unless the user hands the lid over to logind.                            *)
PanelOnWhenOpen ==
    (\A c \in world.configs : ~c.logindLid) /\ stack = <<>> /\ ~lidIsClosed => ~dpmsOff

=============================================================================
