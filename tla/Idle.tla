--------------------------------- MODULE Idle ---------------------------------
(***************************************************************************)
(* What happens when the user goes away: the idle alarms                   *)
(* (src/egg-idletime.c), the dimming of the screen (src/blpm-backlight.c)  *)
(* and the idle sleep (src/blpm-manager.c, src/blpm-power.c).              *)
(*                                                                         *)
(* The X server counts idle time and sends an event when an alarm          *)
(* triggers; the daemon handles the events later, in the order they were   *)
(* sent.  An alarm of a timeout triggers each time the counter reaches it. *)
(* The reset alarm triggers when the counter falls back, and is armed by   *)
(* the first timeout only, just below the counter value of that event.     *)
(* While the machine sleeps the handler that asked for it does not return. *)
(***************************************************************************)
EXTENDS Naturals, Sequences, SequencesExt

CONSTANTS
    MaxIdle,            \* bound: idle time is counted up to here
    MaxEvents,          \* bound: alarm and key events on their way
    MaxLevel,           \* brightness levels are 0..MaxLevel
    DimLevels,          \* level to dim to, on mains (FALSE) and on battery (TRUE)
    Worlds              \* what may happen around the daemon

DimAlarms == {"dimOnAc", "dimOnBattery"}
SleepAlarms == {"sleepOnAc", "sleepOnBattery"}
Alarms == DimAlarms \cup SleepAlarms
Never == 0
Disarmed == MaxIdle + 1
Levels == 0..MaxLevel
Keys == {"up", "down"}

\* prompt: does the daemon catch up before the user's next move?  acSwitches: when mains
\* power may be switched.  presentations: when presentation mode may be switched.
\* inhibits: do inhibitions come and go?  setMayFail: may writing the brightness fail?
\* timeouts: for each alarm, the timeouts its setting may have.
WorldTypes ==
    [prompt : BOOLEAN, acSwitches : SUBSET {"present", "away", "asleep"},
     presentations : SUBSET {"present", "away"}, inhibits : BOOLEAN,
     setMayFail : BOOLEAN, timeouts : [Alarms -> SUBSET (0..MaxIdle)]]

ASSUME IdleAssumption ==
    /\ MaxIdle \in Nat /\ MaxEvents \in Nat /\ MaxLevel \in Nat
    /\ DimLevels \in [BOOLEAN -> Levels]
    /\ Worlds \subseteq WorldTypes

VARIABLES
    world,              \* the world this daemon runs in; it stays the same
    \* The X server, the machine and the user
    idle,               \* the IDLETIME counter
    events,             \* alarm and key events not handled yet, oldest first
    acPlugged,          \* mains power
    level,              \* brightness of the screen
    wanted,             \* the brightness the user last chose
    \* EggIdletime
    timeout,            \* timeout of each alarm, Never when it is removed
    resetAt,            \* wait value of the reset alarm, or Disarmed
    resetSet,           \* reset_set
    \* XfpmBacklight
    dimmed,
    block,
    lastLevel,          \* last_level
    \* XfpmManager and XfpmPower
    onBattery,          \* on_battery
    presentation,       \* presentation_mode
    inhibited,
    asleep,             \* blpm_power_sleep has been called and has not returned
    savedLevel,         \* its brightness_level
    sleptAt             \* counter value of the alarm that asked for the sleep, or Disarmed

serverVars == <<idle, events, acPlugged, wanted>>
alarmVars == <<resetAt, resetSet>>
backlightVars == <<level, dimmed, block, lastLevel>>
modeVars == <<presentation, inhibited>>
napVars == <<asleep, savedLevel, sleptAt>>
vars == <<world, serverVars, timeout, alarmVars, backlightVars, onBattery, modeVars, napVars>>

-----------------------------------------------------------------------------
(* The pieces handlers are made of. *)

\* Levels the screen may have after l was written, when it had before.
Written(before, l) == {l} \cup IF world.setMayFail THEN {before} ELSE {}

\* An alarm is destroyed: its events in the queue are no longer recognised.
Forget(queue, id) ==
    [i \in DOMAIN queue |-> IF queue[i].id = id THEN [queue[i] EXCEPT !.id = "stale"] ELSE queue[i]]

\* Mutant: the reset alarm waits at the counter value itself.
SetResetAlarmAtCounter(counter) ==
    /\ resetAt' = IF resetSet THEN resetAt ELSE counter
    /\ resetSet' = TRUE

\* Only the first alarm since the last reset sets the reset alarm.
SetResetAlarm(counter) ==
    /\ resetAt' = IF resetSet THEN resetAt ELSE counter - 1
    /\ resetSet' = TRUE

\* What "reset" does to the backlight: the old level comes back, unless the user
\* pressed a brightness key in between.
Restored == IF dimmed /\ ~block THEN Written(level, lastLevel) ELSE {level}

\* The alarms of the power source in use.
DimAlarm == IF onBattery THEN "dimOnBattery" ELSE "dimOnAc"
SleepAlarm == IF onBattery THEN "sleepOnBattery" ELSE "sleepOnAc"

\* The level is read, then lowered when it is above the level to dim to.
DimBrightness ==
    /\ lastLevel' = level
    /\ IF level > DimLevels[onBattery]
       THEN /\ level' \in Written(level, DimLevels[onBattery])
            /\ dimmed' = (level' = DimLevels[onBattery])
       ELSE UNCHANGED <<level, dimmed>>

\* Mutant: the backlight is not told.
ResetAllUnseen(queue) ==
    /\ resetAt' = Disarmed
    /\ resetSet' = FALSE
    /\ events' = Forget(queue, "reset")
    /\ UNCHANGED backlightVars

\* Mutant: the reset alarm is destroyed, its flag stays.
ResetAllStillSet(queue) ==
    /\ resetAt' = Disarmed
    /\ level' \in Restored
    /\ dimmed' = FALSE
    /\ events' = Forget(queue, "reset")
    /\ UNCHANGED <<resetSet, block, lastLevel>>

\* All alarms are set anew, the reset alarm is destroyed, the backlight hears "reset".
ResetAll(queue) ==
    /\ resetAt' = Disarmed
    /\ resetSet' = FALSE
    /\ level' \in Restored
    /\ dimmed' = FALSE
    /\ events' = Forget(queue, "reset")
    /\ UNCHANGED <<block, lastLevel>>

\* The daemon has handled everything that happened.
CaughtUp == events = <<>> /\ onBattery = ~acPlugged
Ready == world.prompt => CaughtUp

-----------------------------------------------------------------------------
(* Handlers of the daemon. *)

Handles(id) == ~asleep /\ events # <<>> /\ Head(events).id = id

\* Mutant: the alarm of the other power source asks for a sleep.
SleepsSwapped(id) ==
    /\ id = IF onBattery THEN "sleepOnAc" ELSE "sleepOnBattery"
    /\ ~presentation /\ ~inhibited

\* Mutant: the alarms of both power sources ask for a sleep.
SleepsEither(id) == id \in SleepAlarms /\ ~presentation /\ ~inhibited

\* The alarm of the power source in use asks for a sleep, unless it is held off.
Sleeps(id) == id = SleepAlarm /\ ~presentation /\ ~inhibited

\* Any other alarm: the backlight dims or does not, and the reset alarm is set.
AlarmExpired(id) ==
    /\ Handles(id) /\ ~Sleeps(id)
    /\ block' = FALSE
    /\ IF id = DimAlarm /\ ~presentation
       THEN DimBrightness
       ELSE UNCHANGED <<level, dimmed, lastLevel>>
    /\ SetResetAlarm(Head(events).counter)
    /\ events' = Tail(events)
    /\ UNCHANGED <<idle, acPlugged, wanted, timeout, onBattery, modeVars, napVars>>

\* The manager's handler comes before the backlight's, and returns after the sleep.
SleepOnIdle(id) ==
    /\ Handles(id) /\ Sleeps(id)
    /\ asleep' = TRUE
    /\ savedLevel' = level
    /\ sleptAt' = Head(events).counter
    /\ events' = Tail(events)
    /\ UNCHANGED <<idle, acPlugged, wanted, timeout, alarmVars, backlightVars, onBattery, modeVars>>

\* The user is back.
ResetAlarmExpired ==
    /\ Handles("reset")
    /\ ResetAll(Tail(events))
    /\ UNCHANGED <<idle, acPlugged, wanted, timeout, onBattery, modeVars, napVars>>

\* The event of an alarm that is no more.
EventIgnored ==
    /\ Handles("stale")
    /\ events' = Tail(events)
    /\ UNCHANGED <<idle, acPlugged, wanted, timeout, alarmVars, backlightVars, onBattery, modeVars, napVars>>

\* A brightness key: one step up or down, from the level the screen has.
BrightnessKey(k) ==
    /\ Handles(k)
    /\ block' = TRUE
    /\ level' \in Written(level, IF k = "up" THEN IF level < MaxLevel THEN level + 1 ELSE level
                                 ELSE IF level > 0 THEN level - 1 ELSE level)
    /\ wanted' = level'
    /\ events' = Tail(events)
    /\ UNCHANGED <<idle, acPlugged, timeout, alarmVars, dimmed, lastLevel, onBattery, modeVars, napVars>>

\* "notify" of UPower: a change of the power source resets all alarms.
PowerChanged ==
    /\ ~asleep /\ onBattery = acPlugged
    /\ onBattery' = ~acPlugged
    /\ ResetAll(events)
    /\ UNCHANGED <<idle, acPlugged, wanted, timeout, modeVars, napVars>>

\* When the user's presence allows it, as "present" or "away".
In(moments) == (IF idle = 0 THEN "present" ELSE "away") \in moments

\* Mutant: the level is left as it is, though the backlight takes it for bright.
ChangePresentationModeDimly ==
    /\ ~asleep /\ Ready
    /\ In(world.presentations)
    /\ presentation' = ~presentation
    /\ IF presentation
       THEN /\ resetAt' = Disarmed
            /\ resetSet' = FALSE
            /\ dimmed' = FALSE
            /\ events' = Forget(events, "reset")
            /\ UNCHANGED <<level, block, lastLevel>>
       ELSE UNCHANGED <<events, alarmVars, backlightVars>>
    /\ UNCHANGED <<idle, acPlugged, wanted, timeout, onBattery, inhibited, napVars>>

\* The setting "presentation-mode" changes; leaving the mode resets all alarms.
ChangePresentationMode ==
    /\ ~asleep /\ Ready
    /\ In(world.presentations)
    /\ presentation' = ~presentation
    /\ IF presentation THEN ResetAll(events) ELSE UNCHANGED <<events, alarmVars, backlightVars>>
    /\ UNCHANGED <<idle, acPlugged, wanted, timeout, onBattery, inhibited, napVars>>

\* The first inhibition comes or the last one goes.
InhibitionChanged ==
    /\ world.inhibits /\ ~asleep /\ Ready
    /\ inhibited' = ~inhibited
    /\ UNCHANGED <<serverVars, timeout, alarmVars, backlightVars, onBattery, presentation, napVars>>

\* A button, the lid or another program asks for the sleep.
SleepOnRequest ==
    /\ ~asleep /\ Ready
    /\ asleep' = TRUE
    /\ savedLevel' = level
    /\ sleptAt' = Disarmed
    /\ UNCHANGED <<serverVars, timeout, alarmVars, backlightVars, onBattery, modeVars>>

\* blpm_power_sleep goes on: it looks for a change of the power source, then
\* restores the brightness it saw before, then the handlers return.
Wake ==
    LET changed == onBattery = acPlugged
        now == IF changed THEN Restored ELSE {level} IN
    /\ asleep
    /\ asleep' = FALSE
    /\ onBattery' = ~acPlugged
    /\ dimmed' = (dimmed /\ ~changed)
    /\ level' \in UNION {Written(l, savedLevel) : l \in now}
    /\ events' = IF changed THEN Forget(events, "reset") ELSE events
    /\ IF sleptAt = Disarmed
       THEN /\ resetAt' = IF changed THEN Disarmed ELSE resetAt
            /\ resetSet' = (resetSet /\ ~changed)
            /\ UNCHANGED block
       ELSE /\ resetAt' = IF resetSet /\ ~changed THEN resetAt ELSE sleptAt - 1
            /\ resetSet' = TRUE
            /\ block' = FALSE
    /\ UNCHANGED <<idle, acPlugged, wanted, timeout, lastLevel, modeVars, savedLevel, sleptAt>>

\* A timeout setting changes, or is set to never and back, by a user at the machine.
SetTimeout(id, t) ==
    /\ ~asleep /\ Ready
    /\ idle = 0
    /\ t \in world.timeouts[id] \ {timeout[id]}
    /\ timeout' = [timeout EXCEPT ![id] = t]
    /\ events' = IF t = Never THEN Forget(events, id) ELSE events
    /\ UNCHANGED <<idle, acPlugged, wanted, alarmVars, backlightVars, onBattery, modeVars, napVars>>

-----------------------------------------------------------------------------
(* The X server, the machine and the user. *)

daemonVars == <<timeout, alarmVars, backlightVars, onBattery, napVars>>

\* Time passes; alarms with the same timeout trigger in any order.
Tick ==
    LET due == {a \in Alarms : timeout[a] = idle + 1} IN
    /\ ~asleep /\ Ready
    /\ idle < MaxIdle
    /\ Len(events) < MaxEvents
    /\ idle' = idle + 1
    /\ \E order \in SetToSeqs(due) :
        events' = events \o [i \in DOMAIN order |-> [id |-> order[i], counter |-> idle + 1]]
    /\ UNCHANGED <<acPlugged, wanted, modeVars, daemonVars>>

\* The events of an armed reset alarm when the counter falls to 0.
ResetEvents ==
    IF resetAt # Disarmed /\ idle > resetAt THEN <<[id |-> "reset", counter |-> 0]>> ELSE <<>>

\* The user moves, which also wakes a sleeping machine.
Activity ==
    /\ asleep \/ Ready
    /\ idle > 0
    /\ Len(events) < MaxEvents
    /\ idle' = 0
    /\ events' = events \o ResetEvents
    /\ UNCHANGED <<acPlugged, wanted, modeVars, daemonVars>>

\* The user presses a brightness key; the reset alarm triggers before or after it.
KeyPressed(k) ==
    LET key == <<[id |-> k, counter |-> 0]>> IN
    /\ ~asleep /\ Ready
    /\ Len(events) < MaxEvents
    /\ idle' = 0
    /\ events' \in {events \o ResetEvents \o key, events \o key \o ResetEvents}
    /\ UNCHANGED <<acPlugged, wanted, modeVars, daemonVars>>

\* The user sets the brightness with another program, say the bar plugin's slider,
\* which takes longer than the daemon needs for its events.
SliderMoved(l) ==
    /\ ~asleep /\ Ready
    /\ idle = 0 /\ events = <<>>
    /\ level' = l
    /\ wanted' = l
    /\ UNCHANGED <<idle, events, acPlugged, timeout, alarmVars, dimmed, block, lastLevel,
                   onBattery, modeVars, napVars>>

\* With the user at the machine, with the user away, or while the machine sleeps.
PlugOrUnplug ==
    /\ IF asleep THEN "asleep" \in world.acSwitches
       ELSE Ready /\ In(world.acSwitches)
    /\ acPlugged' = ~acPlugged
    /\ UNCHANGED <<idle, events, wanted, modeVars, daemonVars>>

-----------------------------------------------------------------------------
Init ==
    /\ world \in Worlds
    /\ idle = 0
    /\ events = <<>>
    /\ acPlugged \in BOOLEAN
    /\ level \in Levels
    /\ wanted = level
    /\ timeout \in {t \in [Alarms -> 0..MaxIdle] : \A a \in Alarms : t[a] \in world.timeouts[a]}
    /\ resetAt = Disarmed
    /\ resetSet = FALSE
    /\ dimmed = FALSE
    /\ block = FALSE
    /\ lastLevel = level
    /\ onBattery = ~acPlugged
    /\ presentation \in IF world.presentations # {} THEN BOOLEAN ELSE {FALSE}
    /\ inhibited \in IF world.inhibits THEN BOOLEAN ELSE {FALSE}
    /\ asleep = FALSE
    /\ savedLevel = level
    /\ sleptAt = Disarmed

Handler ==
    \/ \E id \in Alarms : AlarmExpired(id) \/ SleepOnIdle(id)
    \/ ResetAlarmExpired
    \/ EventIgnored
    \/ \E k \in Keys : BrightnessKey(k)
    \/ PowerChanged

Next ==
    /\ UNCHANGED world
    /\ \/ \E id \in Alarms : AlarmExpired(id)
       \/ \E id \in SleepAlarms : SleepOnIdle(id)
       \/ ResetAlarmExpired
       \/ EventIgnored
       \/ \E k \in Keys : BrightnessKey(k)
       \/ PowerChanged
       \/ ChangePresentationMode
       \/ InhibitionChanged
       \/ SleepOnRequest
       \/ Wake
       \/ \E id \in Alarms, t \in 0..MaxIdle : SetTimeout(id, t)
       \/ Tick
       \/ Activity
       \/ \E k \in Keys : KeyPressed(k)
       \/ \E l \in Levels : SliderMoved(l)
       \/ PlugOrUnplug

\* The main loop handles every event that arrives, and a machine that sleeps is
\* woken some day.
Fairness == WF_vars(Handler /\ UNCHANGED world) /\ WF_vars(Wake /\ UNCHANGED world)

Spec == Init /\ [][Next]_vars
FairSpec == Spec /\ Fairness

-----------------------------------------------------------------------------
(* Properties. *)

\* The type of every variable; the flag of the reset alarm says whether it is armed.
TypeOK ==
    /\ world \in Worlds
    /\ idle \in 0..MaxIdle
    /\ events \in Seq([id : Alarms \cup Keys \cup {"reset", "stale"}, counter : 0..MaxIdle])
    /\ {acPlugged, resetSet, dimmed, block, onBattery, presentation, inhibited, asleep} \subseteq BOOLEAN
    /\ {level, wanted, lastLevel, savedLevel} \subseteq Levels
    /\ timeout \in [Alarms -> 0..MaxIdle]
    /\ resetAt \in 0..Disarmed /\ sleptAt \in 1..Disarmed
    /\ resetSet = (resetAt # Disarmed)

\* A dimmed screen always has a way back: the reset alarm is armed, whatever the
\* order of alarms, keys, sleeps and changes of the power source.
DimmedHasReset == dimmed => resetAt # Disarmed

\* The conditions the properties below need.  The code does not provide them: see the
\* README for what happens without each.
SourceKeptAsleep == "asleep" \notin world.acSwitches
KeepsUp == world.prompt /\ SourceKeptAsleep /\ ~world.setMayFail
Undisturbed == world.acSwitches = {} /\ world.presentations = {} /\ ~world.inhibits

\* "save the actual brightness before dimming the screen on idle to restore it
\* afterword" (NEWS, 0.8.4.1): whenever the screen is not dimmed and the machine is
\* awake, its brightness is the one the user chose.
BrightnessRestored == KeepsUp /\ ~asleep /\ ~dimmed => level = wanted

\* A screen is not left dim in front of an active user once the daemon has handled
\* every event ("On inactivity reduce to").
ActiveIsBright == KeepsUp /\ ~asleep /\ CaughtUp /\ idle = 0 => ~dimmed

\* An idle alarm puts the machine to sleep only while the user is away for the
\* configured time ("When inactive for").
SleepsWhenIdle ==
    [][KeepsUp => \A id \in SleepAlarms : SleepOnIdle(id) => idle >= timeout[id]]_vars

\* A user who is away for good, with nothing in the way, finds the machine asleep.
Away ==
    /\ timeout[SleepAlarm] # Never
    /\ idle >= timeout[SleepAlarm]
    /\ ~presentation /\ ~inhibited

IdleSleeps == <>[](Undisturbed /\ Away) => <>asleep
=============================================================================
