------------------------------ MODULE Brightness ------------------------------
(***************************************************************************)
(* The brightness of the screen, which two processes change: the daemon    *)
(* for the brightness keys (src/blpm-backlight.c) and the panel plugin for *)
(* its slider and the scroll wheel (power-manager-button.c).  Both use     *)
(* common/blpm-brightness.c, which reads the level, sets another one and   *)
(* reads again, through an output property of the X server or through      *)
(* blpm-power-backlight-helper, and keep what they read in between.  The   *)
(* keyboard's light (src/blpm-kbd-backlight.c) has the daemon alone.       *)
(*                                                                         *)
(* The calls block the process that makes them: no other handler of that   *)
(* process runs, but the other process does.                               *)
(***************************************************************************)
EXTENDS Integers, Sequences

CONSTANTS
    Worlds,         \* the machines, and who changes the brightness on them
    MaxSetting,     \* bound: the panel's brightness-slider-min-level is at most this
    Drags           \* bound: the values the user drags the slider to

Directions == {"up", "down"}
Processes == {"daemon", "panel"}

\* Exit codes of the helper.
Success == 0
ArgumentsInvalid == 3
InvalidUser == 4

\* outputs: the outputs of the X server.  backlights: the kernel's interfaces.  root: does
\* pkexec run the helper as root?  keys: the brightness keys the user presses.  panel: does
\* the user touch the panel?  kbdMax: levels of the keyboard's light.  kbdKeys: its keys.
WorldTypes ==
    [outputs : SUBSET [builtin : BOOLEAN, min : Nat, max : Nat],
     backlights : SUBSET [name : STRING, max : Nat], root : BOOLEAN,
     keys : SUBSET Directions, panel : BOOLEAN, kbdMax : Nat, kbdKeys : SUBSET Directions]

ASSUME BrightnessAssumption ==
    /\ Worlds \subseteq WorldTypes
    /\ \A w \in Worlds : \A o \in w.outputs : o.min <= o.max
    /\ MaxSetting \in Nat /\ Drags \subseteq Nat

VARIABLES
    world,      \* the world; it stays the same
    hw,         \* what blpm_brightness_setup found, in either process
    level,      \* the screen's brightness
    kbdLevel,   \* the keyboard's light
    doing,      \* for each process, the change it is at: how far, where to, the level it read
    menu,       \* is the panel's menu open?  Then range is the slider, else NULL
    slider,     \* value of the slider
    touched,    \* has the slider moved since the menu opened?
    timer,      \* set_level_timeout
    minLevel    \* brightness_min_level of the panel

hwVars == <<world, hw>>
panelVars == <<menu, slider, touched, timer>>
vars == <<hwVars, level, kbdLevel, doing, panelVars, minLevel>>

Least(a, b) == IF a <= b THEN a ELSE b
Greatest(a, b) == IF a >= b THEN a ELSE b
Clamp(v, low, high) == Greatest(low, Least(v, high))

-----------------------------------------------------------------------------
(* The helper. *)

BacklightInterfaces ==
    <<"nv_backlight", "asus_laptop", "toshiba", "eeepc", "thinkpad_screen", "gmux_backlight",
      "intel_backlight", "acpi_video1", "mbp_backlight", "acpi_video0", "fujitsu-laptop",
      "sony", "samsung">>

\* Where an interface is in the order of preference; the others come last.
Rank(name) ==
    IF \E i \in 1..13 : BacklightInterfaces[i] = name
    THEN CHOOSE i \in 1..13 : BacklightInterfaces[i] = name
    ELSE 14

\* The interface used: the first one of the list that exists, else any.
BestBacklights(backlights) ==
    {b \in backlights : \A c \in backlights : Rank(b.name) <= Rank(c.name)}

\* A level of -1 is the same as no option.
NoOption(option, value) == option = "set-brightness" /\ value = -1

\* Only setting a level needs root.  (The helper's options for the kernel's brightness switch
\* are used in module Instances.)
HelperExit(option, value, w, written) ==
    CASE NoOption(option, value) -> ArgumentsInvalid
      [] ~NoOption(option, value) /\ w.backlights = {} -> InvalidUser
      [] ~NoOption(option, value) /\ w.backlights # {} ->
            IF option = "set-brightness" /\ ~(w.root /\ written) THEN ArgumentsInvalid ELSE Success

-----------------------------------------------------------------------------
(* The hardware, as both processes see it. *)

\* Mutant: a tenth of the range, whatever the range.
TenthStep(max) == max \div 10

\* Levels a key or the wheel moves by: a tenth of them, but at least one.
Step(max) == IF max <= 20 THEN 1 ELSE max \div 10

XrandrLimits(w) == {o \in w.outputs : o.builtin /\ o.min # o.max}

SetupXrandr(w) ==
    {[driver |-> "xrandr", min |-> o.min, max |-> o.max, step |-> Step(o.max)] : o \in XrandrLimits(w)}

SetupHelper(w) ==
    {[driver |-> "helper", min |-> 0, max |-> b.max, step |-> Step(b.max)] : b \in BestBacklights(w.backlights)}

NoHardware == [driver |-> "none", min |-> 0, max |-> 0, step |-> 0]

\* The output that is looked at last is used when there are several.
Setup(w) ==
    IF XrandrLimits(w) # {} THEN SetupXrandr(w)
    ELSE IF HelperExit("get-max-brightness", 0, w, FALSE) = Success THEN SetupHelper(w)
    ELSE {NoHardware}

HasHw == hw.driver # "none"

\* The level after l was set: the X server and the kernel refuse what is out of range.
XrandrSetLevel(l) == IF l \in hw.min..hw.max THEN l ELSE level
HelperWrite(l) == l \in 0..hw.max
HelperSetLevel(l) ==
    IF HelperExit("set-brightness", l, world, HelperWrite(l)) = Success THEN l ELSE level
SetLevel(l) == IF hw.driver = "xrandr" THEN XrandrSetLevel(l) ELSE HelperSetLevel(l)

\* The levels up and down set when they read l: none at the end of the range.
XrandUp(l) == IF l = hw.max THEN {} ELSE {Least(l + hw.step, hw.max)}
XrandDown(l) == IF l = hw.min THEN {} ELSE {Greatest(l - hw.step, hw.min)}
HelperUp(l) == IF l >= hw.max THEN {} ELSE {Least(l + hw.step, hw.max)}
HelperDown(l) == IF l <= hw.min THEN {} ELSE {Greatest(l - hw.step, hw.min)}

Up(l) == IF hw.driver = "xrandr" THEN XrandUp(l) ELSE HelperUp(l)
Down(l) == IF hw.driver = "xrandr" THEN XrandDown(l) ELSE HelperDown(l)
Asked(dir, l) == IF dir = "up" THEN Up(l) ELSE Down(l)

-----------------------------------------------------------------------------
(* The panel's minimum. *)

SafeSliderMinLevel == 5

\* Mutant: automatic is not told from a level.
MinLevelForAny(setting) ==
    IF setting > hw.max THEN IF hw.max > 100 THEN SafeSliderMinLevel ELSE 0 ELSE setting

MinLevelFor(setting) ==
    IF setting = -1 \/ setting > hw.max THEN IF hw.max > 100 THEN SafeSliderMinLevel ELSE 0
    ELSE setting

Idle == [at |-> "idle", dir |-> "up", read |-> 0]

Init ==
    /\ world \in Worlds
    /\ hw \in Setup(world)
    /\ level \in hw.min..hw.max
    /\ kbdLevel \in 0..world.kbdMax
    /\ doing = [p \in Processes |-> Idle]
    /\ menu = FALSE /\ slider = 0 /\ touched = FALSE /\ timer = FALSE
    /\ minLevel = MinLevelFor(-1)

-----------------------------------------------------------------------------
(* The panel's slider. *)

\* gtk_range_set_value: a new value emits "value-changed", for which range_value_changed_cb
\* starts the timer unless it runs.
MoveRange(v) ==
    /\ slider' = v
    /\ touched' = (touched \/ v # slider)
    /\ timer' = (timer \/ v # slider)

Shown(v) == Clamp(v, minLevel, hw.max)

PanelReady == world.panel /\ HasHw /\ doing["panel"].at = "idle"

\* power_manager_button_show_menu: the slider gets its value before its handler.
ShowMenu ==
    /\ PanelReady /\ ~menu
    /\ menu' = TRUE /\ slider' = Shown(level) /\ touched' = FALSE
    /\ UNCHANGED <<hwVars, level, kbdLevel, doing, timer, minLevel>>

\* menu_destroyed_cb; the timer stays.
MenuDestroyed ==
    /\ PanelReady /\ menu
    /\ menu' = FALSE /\ slider' = 0 /\ touched' = FALSE
    /\ UNCHANGED <<hwVars, level, kbdLevel, doing, timer, minLevel>>

\* The user drags the slider.
RangeValueChanged ==
    /\ PanelReady /\ menu
    /\ \E v \in Drags \cap minLevel..hw.max : v # slider /\ MoveRange(v)
    /\ UNCHANGED <<hwVars, level, kbdLevel, doing, menu, minLevel>>

\* brightness_set_level_with_timeout.  Without a slider gtk_range_get_value gives 0, the
\* value slider has while the menu is closed.
SetLevelTimeout ==
    /\ PanelReady /\ timer
    /\ level' = IF slider # level THEN SetLevel(slider) ELSE level
    /\ timer' = FALSE
    /\ UNCHANGED <<hwVars, kbdLevel, doing, menu, slider, touched, minLevel>>

\* Mutant: the range is changed and the level is not.
SetMinLevelQuietly ==
    /\ PanelReady
    /\ \E setting \in -1..MaxSetting : minLevel' = MinLevelFor(setting)
    /\ minLevel' < hw.max
    /\ slider' = IF menu THEN Clamp(slider, minLevel', hw.max) ELSE slider
    /\ touched' = (touched \/ slider' # slider)
    /\ UNCHANGED <<hwVars, level, kbdLevel, doing, menu, timer>>

\* set_brightness_min_level.  A shown slider may be pushed by its new range.
SetMinLevel ==
    /\ PanelReady
    /\ \E setting \in -1..MaxSetting : minLevel' = MinLevelFor(setting)
    /\ minLevel' < hw.max       \* bound: the slider has an extent
    /\ IF menu THEN MoveRange(Clamp(slider, minLevel', hw.max))
               ELSE UNCHANGED <<slider, touched, timer>>
    /\ UNCHANGED <<hwVars, level, kbdLevel, doing, menu>>

-----------------------------------------------------------------------------
(* Up and down, by a key or the wheel. *)

\* blpm_backlight_button_pressed_cb
ButtonPressed ==
    /\ HasHw /\ doing["daemon"].at = "idle"
    /\ \E dir \in world.keys :
           doing' = [doing EXCEPT !["daemon"] = [at |-> "read", dir |-> dir, read |-> 0]]
    /\ UNCHANGED <<hwVars, level, kbdLevel, panelVars, minLevel>>

\* The wheel over the panel's icon or slider, for which the guards below are the same: the
\* icon's handler looks at the level once more before them.
ScrollEvent(dir) ==
    /\ PanelReady
    /\ doing' = [doing EXCEPT !["panel"] = [at |-> "guard", dir |-> dir, read |-> 0]]
    /\ UNCHANGED <<hwVars, level, kbdLevel, panelVars, minLevel>>

\* decrease_brightness and increase_brightness, up to their call of down and up
DecreaseBrightness ==
    /\ doing["panel"].at = "guard" /\ doing["panel"].dir = "down"
    /\ doing' = [doing EXCEPT !["panel"] =
                    IF level > minLevel THEN [at |-> "read", dir |-> "down", read |-> 0] ELSE Idle]
    /\ UNCHANGED <<hwVars, level, kbdLevel, panelVars, minLevel>>

IncreaseBrightness ==
    /\ doing["panel"].at = "guard" /\ doing["panel"].dir = "up"
    /\ doing' = [doing EXCEPT !["panel"] =
                    IF level < hw.max THEN [at |-> "read", dir |-> "up", read |-> 0] ELSE Idle]
    /\ UNCHANGED <<hwVars, level, kbdLevel, panelVars, minLevel>>

\* A change is over and its caller has the level: the panel moves its slider there.
Finish(p, result) ==
    /\ doing' = [doing EXCEPT ![p] = Idle]
    /\ IF p = "panel" /\ menu THEN MoveRange(Shown(result))
                              ELSE UNCHANGED <<slider, touched, timer>>

\* The first reading, which may end it
Read(p) ==
    /\ doing[p].at = "read"
    /\ IF Asked(doing[p].dir, level) = {} THEN Finish(p, level)
       ELSE /\ doing' = [doing EXCEPT ![p].at = "set", ![p].read = level]
            /\ UNCHANGED <<slider, touched, timer>>
    /\ UNCHANGED <<hwVars, level, kbdLevel, menu, minLevel>>

Set(p) ==
    /\ doing[p].at = "set"
    /\ \E l \in Asked(doing[p].dir, doing[p].read) : level' = SetLevel(l)
    /\ doing' = [doing EXCEPT ![p].at = "back"]
    /\ UNCHANGED <<hwVars, kbdLevel, panelVars, minLevel>>

ReadBack(p) ==
    /\ doing[p].at = "back"
    /\ Finish(p, level)
    /\ UNCHANGED <<hwVars, level, kbdLevel, menu, minLevel>>

-----------------------------------------------------------------------------
(* The keyboard's light: a twentieth for each key press. *)

KbdStep(max) == IF max < 20 THEN 1 ELSE max \div 20

\* A keyboard without light handles no keys.
KbdReady(dir) == world.kbdMax # 0 /\ dir \in world.kbdKeys

KbdSetLevel(l) ==
    /\ kbdLevel' = l
    /\ UNCHANGED <<hwVars, level, doing, panelVars, minLevel>>

KbdUp ==
    /\ KbdReady("up") /\ kbdLevel # world.kbdMax
    /\ KbdSetLevel(Least(kbdLevel + KbdStep(world.kbdMax), world.kbdMax))

KbdDown ==
    /\ KbdReady("down") /\ kbdLevel # 0
    /\ KbdSetLevel(Greatest(kbdLevel - KbdStep(world.kbdMax), 0))

Proceed(p) == Read(p) \/ Set(p) \/ ReadBack(p)

Next ==
    \/ ShowMenu \/ MenuDestroyed \/ RangeValueChanged \/ SetLevelTimeout \/ SetMinLevel
    \/ ButtonPressed \/ DecreaseBrightness \/ IncreaseBrightness
    \/ \E dir \in Directions : ScrollEvent(dir)
    \/ \E p \in Processes : Proceed(p)
    \/ KbdUp \/ KbdDown

Spec == Init /\ [][Next]_vars

\* What a process has begun it goes on with, and the user keeps pressing the keys.
FairSpec ==
    /\ Spec
    /\ \A p \in Processes : WF_vars(Proceed(p))
    /\ WF_vars(ButtonPressed) /\ WF_vars(KbdUp) /\ WF_vars(KbdDown)

-----------------------------------------------------------------------------
(* Properties. *)

\* The types, and that neither a key, nor the wheel, nor the slider ever brings the screen
\* out of its range, whichever level was read and whatever was set since.
TypeOK ==
    /\ world \in Worlds /\ hw \in Setup(world)
    /\ level \in hw.min..hw.max /\ kbdLevel \in 0..world.kbdMax
    /\ doing \in [Processes -> [at : {"idle", "guard", "read", "set", "back"}, dir : Directions, read : Nat]]
    /\ \A p \in Processes : doing[p].at = "set" => doing[p].read \in hw.min..hw.max
    /\ menu \in BOOLEAN /\ touched \in BOOLEAN /\ timer \in BOOLEAN
    /\ slider \in Nat /\ minLevel \in Nat

\* A user who keeps pressing one key gets to that end of the range, on every machine that
\* lets the brightness be set: the steps are never zero and stop at the end.
KeysReachTheEnd ==
    /\ world.keys = {"up"} /\ ~world.panel /\ world.root => <>(level = hw.max)
    /\ world.keys = {"down"} /\ ~world.panel /\ world.root => <>(level = hw.min)
    /\ world.kbdKeys = {"up"} => <>(kbdLevel = world.kbdMax)
    /\ world.kbdKeys = {"down"} => <>(kbdLevel = 0)

\* A step up lowers the screen, and a step down raises it, only when the other process
\* changed the level since it was read.
StepsGoTheirWay ==
    [][\A p \in Processes :
         Set(p) /\ level = doing[p].read =>
           IF doing[p].dir = "up" THEN level' >= level ELSE level' <= level]_vars

\* When the panel is alone and the slider has moved, the screen has the slider's level or the
\* timer that will set it runs: no change of the slider is lost, however the wheel, the user
\* and new minimum levels move it.  (A slider may begin below the hardware's minimum.)
SliderIsApplied ==
    world.keys = {} /\ world.root /\ menu /\ touched /\ doing["panel"].at = "idle" =>
        timer \/ level = slider \/ slider < hw.min

=============================================================================
