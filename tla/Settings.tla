------------------------------ MODULE Settings ------------------------------
(***************************************************************************)
(* The settings: the dialog that changes them (settings/blpm-settings.c),  *)
(* the configuration channel that keeps them, and the daemon's copy of     *)
(* them (src/blpm-blconf.c), which follows by the channel's notifications. *)
(*                                                                         *)
(* The dialog moves one slider when another is in its way.  A slider that  *)
(* is moved runs its own handler at once, inside the handler that moves    *)
(* it; handlers are kept on a stack and run step by step, so that the      *)
(* daemon and other programs act between two steps.                        *)
(***************************************************************************)
EXTENDS Integers, Sequences

CONSTANTS
    Worlds,      \* the machines, what is stored on them and what the user touches
    Drags,       \* bound: the values the user drags the sliders to
    MaxInbox     \* bound: the user waits while more notifications are on their way

(* A Boolean setting is 0 or 1.  The settings of the display and of         *)
(* inactivity exist for each power source; a world has those of one.        *)
Unset == -1
Sliders == {"blank", "sleep", "off", "dim"}
Ranges == {"level", "inactivity", "critical-level"}
Buttons == {"power", "sleep-button", "hibernate-button"}
Lids == {"lid-on-ac", "lid-on-battery"}
Combos == Buttons \cup Lids \cup {"mode", "critical-action"}
Toggles == {"dpms", "notify", "tray", "handle-keys", "lock"}
Widgets == Sliders \cup Ranges \cup Combos \cup Toggles
Keys == Widgets \cup {"brightness-switch", "logind-lid"}
Flags == {"dpms", "notify", "handle-keys", "lock", "logind-lid"}

DoNothing == 0
DoSuspend == 1
DoHibernate == 2
DoAsk == 3
DoShutdown == 4
LidLock == 3

\* What the channel may have; a flag is stored as a Boolean.
Storable ==
    {c \in [Keys -> Nat \cup {Unset}] : \A k \in Flags : c[k] \in {Unset, 0, 1}}

\* keys: the widgets the user touches.  stored: what the channel has at first.  can, auth: the
\* actions the daemon reports as possible and as authorised.  locker: the seconds light-locker
\* may have been set to, none without light-locker.  session: the session's own lock setting,
\* if it has one.  others: what other programs do.
WorldTypes ==
    [keys : SUBSET (Widgets \cup {"locker"}), source : {"ac", "battery"},
     stored : Storable, can : SUBSET {DoSuspend, DoHibernate, DoShutdown},
     auth : SUBSET {DoSuspend, DoHibernate}, lcd : BOOLEAN, locker : SUBSET Nat,
     session : {Unset, 0, 1}, others : SUBSET {"session", "blank", "reset", "restart"}]

ASSUME SettingsAssumption ==
    /\ Worlds \subseteq WorldTypes
    /\ Drags \subseteq Nat /\ MaxInbox \in Nat

VARIABLES
    world,      \* the world; it stays the same
    channel,    \* the channel blade-pm
    session,    \* the session's /shutdown/LockScreen
    inbox,      \* notifications on their way to the daemon
    conf,       \* XfpmBlconf, the blank time of XfpmPower and the tray icon of XfpmManager
    running,    \* is the daemon running?
    dialog,     \* is the dialog open?
    shown,      \* what its widgets show
    stack,      \* its handlers that run, the innermost first
    locker,     \* light-locker's settings
    lockerShown \* what the dialog shows of them

storeVars == <<channel, session>>
daemonVars == <<conf, running>>
dialogVars == <<dialog, shown, stack>>
lockerVars == <<locker, lockerShown>>
vars == <<world, storeVars, inbox, daemonVars, dialogVars, lockerVars>>

HasLocker == world.locker # {}

Clamp(v, low, high) == IF v < low THEN low ELSE IF v > high THEN high ELSE v

-----------------------------------------------------------------------------
(* The daemon's copy. *)

MaxInt16 == 32767
MaxUint16 == 65535

\* The tray icon and the blank time do not follow XfpmBlconf: XfpmManager and XfpmPower
\* have properties of their own, bound to the channel, whose construction sets the default.
TrayRange == 0..5
TrayDefault == 0
BlankRange == 0..MaxInt16
BlankDefault == 10

\* blpm_blconf_class_init: the values a property takes, and the one it has at first.
Accepts(k) ==
    CASE k = "critical-level" -> 1..20
      [] k = "level" -> 1..100
      [] k \in {"sleep", "off"} -> 0..MaxUint16
      [] k = "blank" -> BlankRange
      [] k = "tray" -> TrayRange
      [] k = "inactivity" -> Nat
      [] k = "dim" -> Nat \ 0..8
      [] k = "mode" -> {DoSuspend, DoHibernate}
      [] k \in Buttons \cup {"critical-action"} -> DoNothing..DoShutdown
      [] k \in Lids -> 0..3
      [] OTHER -> {0, 1}

DefaultOnAc(k) ==
    CASE k = "sleep" -> 10 [] k = "off" -> 15 [] k = "dim" -> 9 [] k = "level" -> 80
      [] k = "mode" -> DoSuspend [] k = "blank" -> BlankDefault

\* Mutant: the defaults of a computer that is plugged in.
DefaultOnBatteryPluggedIn(k) == DefaultOnAc(k)

DefaultOnBattery(k) ==
    CASE k = "sleep" -> 5 [] k = "off" -> 10 [] k = "dim" -> 120 [] k = "level" -> 20
      [] k = "mode" -> DoHibernate [] k = "blank" -> BlankDefault

GeneralDefault(k) ==
    CASE k \in Buttons \cup {"critical-action", "logind-lid", "brightness-switch"} -> 0
      [] k \in Lids -> LidLock
      [] k = "critical-level" -> 5
      [] k = "inactivity" -> 14
      [] k = "tray" -> TrayDefault
      [] k \in Toggles \ {"tray"} -> 1

OfSource(k) == k \in Sliders \cup {"level", "mode"}
Default(k) ==
    IF ~OfSource(k) THEN GeneralDefault(k)
    ELSE IF world.source = "ac" THEN DefaultOnAc(k) ELSE DefaultOnBattery(k)

\* Mutant: the range is not looked at.
SetPropertyUnchecked(old, k, v) == [old EXCEPT ![k] = v]

\* blpm_blconf_set_property: what is out of range is refused.
SetProperty(old, k, v) == IF v \in Accepts(k) THEN [old EXCEPT ![k] = v] ELSE old

\* blpm_blconf_load: every property is set to what is stored, or else to its default.
Load(old) ==
    [k \in Keys |-> LET v == IF channel[k] = Unset THEN Default(k) ELSE channel[k]
                    IN  SetProperty(old, k, v)[k]]

\* blpm_blconf_init takes over the session's lock setting, and then loads.
InitialConf ==
    Load([k \in Keys |-> IF k = "lock" /\ session # Unset THEN session ELSE Default(k)])

\* The channel tells of changes only.
Tells(k, v) == IF channel[k] = v THEN <<>> ELSE <<[key |-> k, value |-> v]>>
Write(k, v) ==
    /\ channel' = [channel EXCEPT ![k] = v]
    /\ inbox' = IF running THEN inbox \o Tells(k, v) ELSE inbox
WriteSession(v) ==
    /\ session' = v
    /\ inbox' = IF running /\ session # v THEN Append(inbox, [key |-> "session", value |-> v])
                ELSE inbox

\* blpm_blconf_property_changed_cb: a reset is left alone, and the brightness switch is the
\* backlight's business.  The blank time reaches XfpmPower by a binding.
PropertyChanged ==
    /\ running /\ inbox # <<>> /\ Head(inbox).key # "session"
    /\ LET k == Head(inbox).key  v == Head(inbox).value IN
       conf' = IF v = Unset \/ k = "brightness-switch" THEN conf ELSE SetProperty(conf, k, v)
    /\ inbox' = Tail(inbox)
    /\ UNCHANGED <<world, storeVars, running, dialogVars, lockerVars>>

\* blpm_xfsession_property_changed_cb: the session's setting is written to the channel.
SessionPropertyChanged ==
    /\ running /\ inbox # <<>> /\ Head(inbox).key = "session"
    /\ channel' = [channel EXCEPT !["lock"] = Head(inbox).value]
    /\ inbox' = Tail(inbox) \o Tells("lock", Head(inbox).value)
    /\ UNCHANGED <<world, session, daemonVars, dialogVars, lockerVars>>

DaemonStops ==
    /\ "restart" \in world.others /\ running
    /\ running' = FALSE /\ inbox' = <<>>
    /\ UNCHANGED <<world, storeVars, conf, dialogVars, lockerVars>>

DaemonStarts ==
    /\ ~running /\ running' = TRUE
    /\ conf' = InitialConf
    /\ UNCHANGED <<world, storeVars, inbox, dialogVars, lockerVars>>

-----------------------------------------------------------------------------
(* The dialog opens: what its widgets offer and show. *)

Permitted == world.can \cap world.auth
Sleeps == {DoSuspend, DoHibernate}

\* What may be chosen in the combos, and dragged to in the ranges.
SleepModeChoices == world.can \cap Sleeps
LidChoices == {DoNothing, LidLock} \cup (Permitted \cap Sleeps)
ButtonChoices(k) ==
    {DoNothing, DoAsk} \cup (Permitted \cap Sleeps)
    \cup (IF k = "power" THEN world.can \cap {DoShutdown} ELSE {})
CriticalChoices ==
    {DoNothing, DoAsk} \cup (Permitted \cap Sleeps) \cup (world.can \cap {DoShutdown})
Low(k) == CASE k = "dim" -> 9 [] k \in {"level", "critical-level"} -> 1
            [] k = "inactivity" -> 14 [] OTHER -> 0
High(k) == CASE k = "dim" -> 120 [] k = "level" -> 100 [] k = "critical-level" -> 20
             [] k = "inactivity" -> 360 [] OTHER -> 60

Choices(k) ==
    CASE k = "mode" -> SleepModeChoices
      [] k \in Lids -> LidChoices
      [] k \in Buttons -> ButtonChoices(k)
      [] k = "critical-action" -> CriticalChoices
      [] k \in Sliders \cup Ranges -> Low(k)..High(k)
      [] k \in Toggles -> {0, 1}

Stored(k, default) == IF channel[k] = Unset THEN default ELSE channel[k]

\* A combo shows its first entry when the stored value is not among its choices.
ShowChoice(k, v, first) == IF v \in Choices(k) THEN v ELSE first
ShowRange(k, v) == Clamp(v, Low(k), High(k))
FirstMode == IF DoSuspend \in world.can THEN DoSuspend
             ELSE IF DoHibernate \in world.can THEN DoHibernate ELSE Unset

\* blpm_settings_on_ac; the blank slider keeps the place it has in blpm-settings.ui
\* unless the binding finds a value.
ShowOnAc(k) ==
    CASE k = "mode" -> ShowChoice(k, Stored(k, DoSuspend), FirstMode)
      [] k = "inactivity" -> ShowRange(k, Stored(k, 14))
      [] k = "sleep" -> ShowRange(k, Stored(k, 10))
      [] k = "off" -> ShowRange(k, Stored(k, 15))
      [] k = "blank" -> ShowRange(k, Stored(k, 10))
      [] k = "dim" -> IF world.lcd THEN ShowRange(k, Stored(k, 9)) ELSE 9
      [] k = "level" -> IF world.lcd THEN ShowRange(k, Stored(k, 80)) ELSE 80

\* blpm_settings_on_battery
ShowOnBattery(k) ==
    CASE k = "mode" -> ShowChoice(k, Stored(k, DoHibernate), FirstMode)
      [] k = "inactivity" -> ShowRange(k, Stored(k, 14))
      [] k = "sleep" -> ShowRange(k, Stored(k, 5))
      [] k = "off" -> ShowRange(k, Stored(k, 10))
      [] k = "blank" -> ShowRange(k, Stored(k, 1))
      [] k = "dim" -> IF world.lcd THEN ShowRange(k, Stored(k, 120)) ELSE 30
      [] k = "level" -> IF world.lcd THEN ShowRange(k, Stored(k, 20)) ELSE 20

\* blpm_settings_general, and the lid's combos.  The combo of the critical action has no first
\* entry chosen.
ShowGeneral(k) ==
    CASE k \in Buttons -> ShowChoice(k, Stored(k, DoNothing), DoNothing)
      [] k \in Lids -> ShowChoice(k, Stored(k, LidLock), DoNothing)
      [] k = "critical-action" -> ShowChoice(k, Stored(k, DoNothing), Unset)
      [] k \in {"dpms", "notify"} -> Stored(k, 1)
      [] k = "tray" -> IF Stored(k, 0) = 0 THEN 0 ELSE 1

\* blpm_settings_advanced
ShowAdvanced(k) ==
    CASE k = "critical-level" -> IF Stored(k, 10) \in 1..20 THEN Stored(k, 10) ELSE 10
      [] k \in {"lock", "handle-keys"} -> Stored(k, 1)

Show(k) ==
    CASE k \in {"critical-level", "lock", "handle-keys"} -> ShowAdvanced(k)
      [] OfSource(k) \/ k = "inactivity" ->
            IF world.source = "ac" THEN ShowOnAc(k) ELSE ShowOnBattery(k)
      [] OTHER -> ShowGeneral(k)

-----------------------------------------------------------------------------
(* The handlers.  A frame has what its handler read when it was entered and *)
(* what is left of it to do.                                                *)

BrightnessDisabled == 9

\* Where a slider that is in the way of another one is moved; r is what the handler read.
\* Mutant: to the same minute.
BlankMovesSleepTo(r) == IF r.sleep # 0 /\ r.blank >= r.sleep THEN {r.blank} ELSE {}

BlankMovesSleep(r) == IF r.sleep # 0 /\ r.blank >= r.sleep THEN {r.blank + 1} ELSE {}
SleepMovesOff(r) == IF r.off # 0 /\ r.sleep >= r.off THEN {r.sleep + 1} ELSE {}
SleepMovesBlank(r) == IF r.blank # 0 /\ r.blank >= r.sleep THEN {r.sleep - 1} ELSE {}
OffMovesSleep(r) == IF r.sleep # 0 /\ r.off <= r.sleep THEN {r.off - 1} ELSE {}
DimMovesSleep(r) ==
    IF r.dim # BrightnessDisabled /\ r.sleep # 0 /\ r.sleep * 60 <= r.dim
    THEN {(r.dim \div 60) + 1} ELSE {}
\* Dimming is given up when the screen is blank before.
GivesUpDimming(minutes) ==
    IF world.lcd /\ minutes * 60 <= shown["dim"] /\ shown["dim"] # BrightnessDisabled
    THEN {BrightnessDisabled} ELSE {}

Moves(k, target, r) ==
    CASE target = "sleep" /\ k = "blank" -> BlankMovesSleep(r)
      [] target = "sleep" /\ k = "off" -> OffMovesSleep(r)
      [] target = "sleep" /\ k = "dim" -> DimMovesSleep(r)
      [] target = "off" -> SleepMovesOff(r)
      [] target = "blank" -> SleepMovesBlank(r)
      [] target = "dim" -> GivesUpDimming(IF k = "blank" THEN r.blank ELSE r.sleep)

\* The steps of the sliders' handlers.  The blank time is stored by a binding, which comes last.
\* On AC two of them look at the sliders' range first.
BlankSteps == <<"sleep", "dim", "bind">>
SleepSteps == <<"off", "blank", "dim", "store">>
DimSteps == <<"sleep", "store">>

\* Mutant: off is not stored.
OffStepsUnstored == <<"sleep">>
OffSteps == <<"sleep", "store">>

TooLong(r) == r.off > 60 \/ r.sleep > 60
OnAcSteps(steps, r) == IF TooLong(r) THEN <<>> ELSE steps

SliderSteps(k, r) ==
    CASE k = "blank" -> BlankSteps
      [] k = "dim" -> DimSteps
      [] k = "sleep" -> IF world.source = "ac" THEN OnAcSteps(SleepSteps, r) ELSE SleepSteps
      [] k = "off" -> IF world.source = "ac" THEN OnAcSteps(OffSteps, r) ELSE OffSteps

\* Choosing for a lid or for the lock also decides whether logind is to handle the lid.
LidChanged == <<"store", "logind">>
\* Mutant: the lid switch is decided when a lid's action is chosen only.
LockScreenToggledLidLeft ==
    <<"session", "store">> \o (IF HasLocker THEN <<"locker">> ELSE <<>>)

LockScreenToggled ==
    <<"session", "store">> \o (IF HasLocker THEN <<"locker", "logind">> ELSE <<>>)
HandleKeysToggled == <<"store", "switch">>

Steps(k, r) ==
    CASE k \in Sliders -> SliderSteps(k, r)
      [] k \in Lids -> LidChanged
      [] k = "lock" -> LockScreenToggled
      [] k = "handle-keys" -> HandleKeysToggled
      [] OTHER -> <<"store">>

\* What a handler reads at its start.
Reads(k, s) ==
    IF k \in Sliders THEN [t \in Sliders |-> s[t]] ELSE [t \in {k} |-> s[t]]
Frame(k, s) == [key |-> k, read |-> Reads(k, s), todo |-> Steps(k, Reads(k, s))]

Top == Head(stack)
Step == Head(Top.todo)
Done == <<[Top EXCEPT !.todo = Tail(@)]>> \o Tail(stack)

\* A step that moves another slider: its handler runs before the present one goes on.
Move ==
    /\ stack # <<>> /\ Top.todo # <<>> /\ Step \in Sliders
    /\ LET new == {Clamp(v, Low(Step), High(Step)) : v \in Moves(Top.key, Step, Top.read)} \ {shown[Step]}
       IN  IF new = {} THEN stack' = Done /\ UNCHANGED shown
           ELSE \E v \in new : /\ shown' = [shown EXCEPT ![Step] = v]
                               /\ stack' = <<Frame(Step, shown')>> \o Done
    /\ UNCHANGED <<world, storeVars, inbox, daemonVars, dialog, lockerVars>>

\* The handler stores the value it read.
StoreValue ==
    /\ stack # <<>> /\ Top.todo # <<>> /\ Step = "store"
    /\ Write(Top.key, Top.read[Top.key])
    /\ stack' = Done
    /\ UNCHANGED <<world, session, daemonVars, dialog, shown, lockerVars>>

\* The binding stores what the slider shows by then.
StoreBound ==
    /\ stack # <<>> /\ Top.todo # <<>> /\ Step = "bind"
    /\ Write("blank", shown["blank"])
    /\ stack' = Done
    /\ UNCHANGED <<world, session, daemonVars, dialog, shown, lockerVars>>

StoreSession ==
    /\ stack # <<>> /\ Top.todo # <<>> /\ Step = "session"
    /\ WriteSession(Top.read["lock"])
    /\ stack' = Done
    /\ UNCHANGED <<world, channel, daemonVars, dialog, shown, lockerVars>>

SetLockOnSuspend ==
    /\ stack # <<>> /\ Top.todo # <<>> /\ Step = "locker"
    /\ locker' = [locker EXCEPT !.onSuspend = Top.read["lock"]]
    /\ stack' = Done
    /\ UNCHANGED <<world, storeVars, inbox, daemonVars, dialog, shown, lockerShown>>

StoreSwitch ==
    /\ stack # <<>> /\ Top.todo # <<>> /\ Step = "switch"
    /\ Write("brightness-switch", 1 - Top.read["handle-keys"])
    /\ stack' = Done
    /\ UNCHANGED <<world, session, daemonVars, dialog, shown, lockerVars>>

LogindHandlesLid ==
    Stored("lock", 1) = 1 /\ \E k \in Lids : Stored(k, LidLock) = DoSuspend

\* blpm_update_logind_handle_lid_switch
UpdateLogindHandleLidSwitch ==
    /\ stack # <<>> /\ Top.todo # <<>> /\ Step = "logind"
    /\ Write("logind-lid", IF LogindHandlesLid THEN 1 ELSE 0)
    /\ stack' = Done
    /\ UNCHANGED <<world, session, daemonVars, dialog, shown, lockerVars>>

HandlerReturns ==
    /\ stack # <<>> /\ Top.todo = <<>>
    /\ stack' = Tail(stack)
    /\ UNCHANGED <<world, storeVars, inbox, daemonVars, dialog, shown, lockerVars>>

-----------------------------------------------------------------------------
(* The user. *)

Idle == dialog /\ stack = <<>>

\* light-locker's delay: up to a minute in seconds, beyond that in minutes.
DelaySeconds(delay) == IF delay > 60 THEN (delay - 60) * 60 ELSE delay
SliderOf(after) == IF after > 60 THEN (after \div 60) + 60 ELSE after

\* blpm_settings_light_locker
LockerShows(l) ==
    [auto |-> IF l.after = 0 THEN 0 ELSE IF l.late THEN 2 ELSE 1,
     delay |-> IF l.after = 0 THEN 1 ELSE Clamp(SliderOf(l.after), 1, 120)]

\* main of blpm-settings-main.c: the daemon tells what is possible; without one the dialog is
\* not opened.
OpenDialog ==
    /\ ~dialog /\ running
    /\ dialog' = TRUE
    /\ shown' = [k \in Widgets |-> Show(k)]
    /\ IF HasLocker
       THEN /\ locker' = [locker EXCEPT !.onSuspend = Stored("lock", 1)]
            /\ lockerShown' = LockerShows(locker)
       ELSE UNCHANGED lockerVars
    /\ UNCHANGED <<world, storeVars, inbox, daemonVars, stack>>

\* settings_quit
CloseDialog ==
    /\ Idle
    /\ dialog' = FALSE
    /\ shown' = [k \in Widgets |-> Unset]
    /\ UNCHANGED <<world, storeVars, inbox, daemonVars, stack, lockerVars>>

\* A widget can be used when it is shown and sensitive.
Usable(k) ==
    /\ k \in {"sleep", "off"} => shown["dpms"] = 1
    /\ k \in {"dim", "level", "handle-keys"} => world.lcd
    /\ k \in {"lock", "inactivity"} => world.can \cap Sleeps # {} /\ world.auth # {}

\* The user sets a widget, and its handler is entered.
Touches(k) == Idle /\ k \in world.keys /\ Usable(k) /\ Len(inbox) < MaxInbox
Sets(k, v) ==
    /\ v # shown[k]
    /\ shown' = [shown EXCEPT ![k] = v]
    /\ stack' = <<Frame(k, shown')>>
    /\ UNCHANGED <<world, storeVars, inbox, daemonVars, dialog, lockerVars>>

DragSlider(k) == Touches(k) /\ \E v \in (Low(k)..High(k)) \cap Drags : Sets(k, v)
DragRange(k) == Touches(k) /\ \E v \in (Low(k)..High(k)) \cap Drags : Sets(k, v)
SpinCriticalLevel ==
    Touches("critical-level") /\ \E v \in (1..20) \cap Drags : Sets("critical-level", v)
ChooseAction(k) == Touches(k) /\ \E v \in Choices(k) : Sets(k, v)
ChooseSleepMode == Touches("mode") /\ \E v \in SleepModeChoices : Sets("mode", v)
ChooseLid(k) == Touches(k) /\ \E v \in LidChoices : Sets(k, v)
Toggle(k) == Touches(k) /\ Sets(k, 1 - shown[k])
DpmsToggled == Touches("dpms") /\ Sets("dpms", 1 - shown["dpms"])

\* light_locker_late_locking_value_changed_cb
LateLockingChanged ==
    /\ Idle /\ "locker" \in world.keys /\ lockerShown.auto # 0
    /\ \E d \in (1..120 \cap Drags) \ {lockerShown.delay} :
          /\ lockerShown' = [lockerShown EXCEPT !.delay = d]
          /\ locker' = [locker EXCEPT !.after = DelaySeconds(d)]
    /\ UNCHANGED <<world, storeVars, inbox, daemonVars, dialogVars>>

\* light_locker_automatic_locking_changed_cb
AutomaticLockingChanged ==
    /\ Idle /\ "locker" \in world.keys
    /\ \E a \in (0..2) \ {lockerShown.auto} :
          /\ lockerShown' = [lockerShown EXCEPT !.auto = a]
          /\ locker' = [locker EXCEPT !.late = (a = 2),
                                      !.after = IF a = 0 THEN 0 ELSE DelaySeconds(lockerShown.delay)]
    /\ UNCHANGED <<world, storeVars, inbox, daemonVars, dialogVars>>

-----------------------------------------------------------------------------
(* Other programs. *)

\* The session's own dialog.
SessionToggles ==
    /\ "session" \in world.others /\ Len(inbox) < MaxInbox
    /\ WriteSession(IF session = 1 THEN 0 ELSE 1)
    /\ UNCHANGED <<world, channel, daemonVars, dialogVars, lockerVars>>

\* A new blank time moves the slider that is bound to it.
BlankChanges ==
    /\ "blank" \in world.others /\ Len(inbox) < MaxInbox /\ stack = <<>>
    /\ \E v \in (Drags \cap 0..60) \ {channel["blank"]} :
          /\ Write("blank", v)
          /\ IF dialog /\ v # shown["blank"]
             THEN /\ shown' = [shown EXCEPT !["blank"] = v]
                  /\ stack' = <<Frame("blank", shown')>>
             ELSE UNCHANGED <<shown, stack>>
    /\ UNCHANGED <<world, session, daemonVars, dialog, lockerVars>>

Reset(k) ==
    /\ "reset" \in world.others /\ k \in world.keys /\ channel[k] # Unset /\ Len(inbox) < MaxInbox
    /\ Write(k, Unset)
    /\ UNCHANGED <<world, session, daemonVars, dialogVars, lockerVars>>

-----------------------------------------------------------------------------
Init ==
    /\ world \in Worlds
    /\ channel = world.stored /\ session = world.session
    /\ inbox = <<>>
    /\ running = TRUE /\ conf = InitialConf
    /\ dialog = FALSE /\ shown = [k \in Widgets |-> Unset] /\ stack = <<>>
    /\ locker \in [late : {FALSE}, onSuspend : {0},
                   after : IF HasLocker THEN world.locker ELSE {0}]
    /\ lockerShown = LockerShows(locker)

HandlerStep ==
    Move \/ StoreValue \/ StoreBound \/ StoreSession \/ SetLockOnSuspend \/ StoreSwitch
    \/ UpdateLogindHandleLidSwitch \/ HandlerReturns

Next ==
    \/ PropertyChanged \/ SessionPropertyChanged \/ DaemonStops \/ DaemonStarts
    \/ OpenDialog \/ CloseDialog \/ LateLockingChanged \/ AutomaticLockingChanged
    \/ HandlerStep
    \/ \E k \in Sliders : DragSlider(k)
    \/ \E k \in {"level", "inactivity"} : DragRange(k)
    \/ SpinCriticalLevel \/ ChooseSleepMode \/ DpmsToggled
    \/ \E k \in Buttons \cup {"critical-action"} : ChooseAction(k)
    \/ \E k \in Lids : ChooseLid(k)
    \/ \E k \in Toggles \ {"dpms"} : Toggle(k)
    \/ SessionToggles \/ BlankChanges \/ \E k \in Widgets : Reset(k)

Spec == Init /\ [][Next]_vars

-----------------------------------------------------------------------------
(* Properties. *)

\* Types; the handlers of the dialog call each other no deeper than this.
TypeOK ==
    /\ channel \in Storable /\ session \in {Unset, 0, 1}
    /\ inbox \in Seq([key : Keys \cup {"session"}, value : Nat \cup {Unset}])
    /\ \A k \in Keys : conf[k] \in Accepts(k)
    /\ shown \in [Widgets -> Unset..360]
    /\ ~dialog => stack = <<>>
    /\ Len(stack) <= 5
    /\ locker.after \in Nat /\ lockerShown \in [auto : 0..2, delay : 1..120]

AtRest == Idle /\ inbox = <<>> /\ running
AtTheEnd == \E k \in {"blank", "sleep", "off"} : shown[k] = 60

InOrder(s) ==
    /\ s["sleep"] # 0 /\ s["off"] # 0 => s["sleep"] < s["off"]
    /\ s["sleep"] # 0 => s["blank"] < s["sleep"]
    /\ s["sleep"] # 0 /\ s["dim"] # BrightnessDisabled => s["dim"] < 60 * s["sleep"]

\* The sliders are stored within their ranges and not in each other's way, and the dialog alone
\* changes them.
Orderly ==
    /\ \A k \in Sliders : world.stored[k] \in Choices(k)
    /\ InOrder(world.stored)
    /\ world.others \cap {"blank", "reset"} = {}

\* The daemon ends up with what the dialog shows, of every slider the user can move or that the
\* handlers moved for him, unless a slider is at its very end: there handlers that run inside
\* another one move the slider once more, and the outer one stores what it read before.  The
\* slider for dimming does the same to itself where sliders are in each other's way at first.
ShownIsApplied ==
    AtRest /\ ~AtTheEnd =>
        \A k \in Sliders :
            channel[k] \in Choices(k) /\ (k = "dim" => world.lcd /\ Orderly) =>
                shown[k] = channel[k] /\ conf[k] = channel[k]

\* Sliders that are not in each other's way at first never are once the handlers are done: the
\* screen is blank before it sleeps, sleeps before it is off and is dimmed before it sleeps,
\* except at the very end of the sliders.
StaysInOrder == Idle /\ ~AtTheEnd /\ world.lcd /\ Orderly => InOrder(shown)

\* Where light-locker is installed and the dialog alone changes the lock setting, logind is
\* told to handle the lid just when the screen is locked for sleep and a lid suspends.
LidSwitchFollows ==
    /\ Idle /\ HasLocker /\ world.others \cap {"session", "reset"} = {}
    /\ world.stored["logind-lid"] = Unset /\ channel["logind-lid"] # Unset
    => (channel["logind-lid"] = 1) = LogindHandlesLid

\* The settings of which the dialog and the daemon have different defaults.
Diverging == {"critical-level"} \cup (IF world.source = "battery" THEN {"blank"} ELSE {})

\* The dialog opens with what the daemon does, also of settings that were never made.
ShowsWhatApplies ==
    [][OpenDialog /\ inbox = <<>> /\ "reset" \notin world.others =>
        \A k \in Widgets :
            /\ channel[k] \in Choices(k) \cup (IF k \in Diverging THEN {} ELSE {Unset})
            /\ conf[k] \in Choices(k) /\ Usable(k)'
            => shown'[k] = conf[k]]_vars
=============================================================================
