--------------------------- MODULE BrightnessProofs ---------------------------
(* Theorems about Brightness, for every machine and every use of it. *)
EXTENDS Brightness, TLAPS

-----------------------------------------------------------------------------
(* Arithmetic of the steps. *)

\* A key moves the brightness by at least one level, and at most twenty presses go from one
\* end of the range to the other (calculation of step in blpm_brightness_setup_xrandr and
\* blpm_brightness_setup_helper).
THEOREM StepSuffices == \A max \in Nat : Step(max) \in Nat \ {0} /\ 20 * Step(max) >= max
<1> SUFFICES ASSUME NEW max \in Nat PROVE Step(max) \in Nat \ {0} /\ 20 * Step(max) >= max
  OBVIOUS
<1>1. CASE max <= 20 BY <1>1 DEF Step
<1>2. CASE max > 20
  <2>1. max \div 10 \in Nat /\ 10 * (max \div 10) + 10 > max /\ max \div 10 >= 1 BY <1>2
  <2> QED BY <1>2, <2>1 DEF Step
<1> QED BY <1>1, <1>2

\* The same for the light of the keyboard, whose steps are half as large: forty presses
\* (calculate_step of blpm-kbd-backlight.c).
THEOREM KbdStepSuffices == \A max \in Nat : KbdStep(max) \in Nat \ {0} /\ 40 * KbdStep(max) >= max
<1> SUFFICES ASSUME NEW max \in Nat PROVE KbdStep(max) \in Nat \ {0} /\ 40 * KbdStep(max) >= max
  OBVIOUS
<1>1. CASE max < 20 BY <1>1 DEF KbdStep
<1>2. CASE max >= 20
  <2>1. max \div 20 \in Nat /\ 20 * (max \div 20) + 20 > max /\ max \div 20 >= 1 BY <1>2
  <2> QED BY <1>2, <2>1 DEF KbdStep
<1> QED BY <1>1, <1>2

\* What setup found is a range and a step.
Range == /\ hw.min \in Nat /\ hw.max \in Nat /\ hw.step \in Nat
         /\ hw.min <= hw.max

LEMMA SetupRange ==
    ASSUME world \in Worlds, hw \in Setup(world)
    PROVE  Range
<1>1. world \in WorldTypes /\ \A o \in world.outputs : o.min <= o.max BY BrightnessAssumption
<1>2. CASE hw \in SetupXrandr(world)
  <2>1. PICK o \in world.outputs :
          hw = [driver |-> "xrandr", min |-> o.min, max |-> o.max, step |-> Step(o.max)]
    BY <1>2 DEF SetupXrandr, XrandrLimits
  <2>2. o.min \in Nat /\ o.max \in Nat /\ o.min <= o.max BY <1>1 DEF WorldTypes
  <2> QED BY <2>1, <2>2, StepSuffices DEF Range
<1>3. CASE hw \in SetupHelper(world)
  <2>1. PICK b \in world.backlights :
          hw = [driver |-> "helper", min |-> 0, max |-> b.max, step |-> Step(b.max)]
    BY <1>3 DEF SetupHelper, BestBacklights
  <2>2. b.max \in Nat BY <1>1 DEF WorldTypes
  <2> QED BY <2>1, <2>2, StepSuffices DEF Range
<1>4. CASE hw = NoHardware BY <1>4 DEF NoHardware, Range
<1> QED BY <1>2, <1>3, <1>4 DEF Setup

\* The levels asked for are in the range when the one that was read is, and on the right side.
LEMMA AskedFacts ==
    ASSUME Range, NEW l \in hw.min..hw.max, NEW dir, NEW a \in Asked(dir, l)
    PROVE  /\ a \in hw.min..hw.max
           /\ IF dir = "up" THEN a >= l ELSE a <= l
BY DEF Range, Asked, Up, Down, XrandUp, XrandDown, HelperUp, HelperDown, Least, Greatest

LEMMA SetLevelFacts ==
    ASSUME Range, level \in hw.min..hw.max, NEW l \in Int
    PROVE  /\ SetLevel(l) \in {l, level}
           /\ hw.driver = "xrandr" \/ hw.min = 0 => SetLevel(l) \in hw.min..hw.max
<1>1. CASE hw.driver = "xrandr" BY <1>1 DEF SetLevel, XrandrSetLevel
<1>2. CASE hw.driver # "xrandr"
  <2>1. SetLevel(l) = HelperSetLevel(l) BY <1>2 DEF SetLevel
  <2>2. HelperExit("set-brightness", l, world, HelperWrite(l)) = Success => l \in 0..hw.max
    BY DEF HelperExit, NoOption, HelperWrite, Success, ArgumentsInvalid, InvalidUser
  <2>3. SetLevel(l) \in {l, level} BY <2>1 DEF HelperSetLevel
  <2>4. hw.min = 0 => SetLevel(l) \in hw.min..hw.max BY <2>1, <2>2 DEF HelperSetLevel
  <2> QED BY <1>2, <2>3, <2>4
<1> QED BY <1>1, <1>2

\* Only the X server's range may begin elsewhere than at zero.
LEMMA SetupDriver ==
    ASSUME hw \in Setup(world)
    PROVE  hw.driver = "xrandr" \/ hw.min = 0
<1>1. CASE hw \in SetupXrandr(world)
  <2>1. PICK o \in XrandrLimits(world) :
          hw = [driver |-> "xrandr", min |-> o.min, max |-> o.max, step |-> Step(o.max)]
    BY <1>1 DEF SetupXrandr
  <2> QED BY <2>1
<1>2. CASE hw \in SetupHelper(world)
  <2>1. PICK b \in BestBacklights(world.backlights) :
          hw = [driver |-> "helper", min |-> 0, max |-> b.max, step |-> Step(b.max)]
    BY <1>2 DEF SetupHelper
  <2> QED BY <2>1
<1>3. CASE hw = NoHardware BY <1>3 DEF NoHardware
<1> QED BY <1>1, <1>2, <1>3 DEF Setup

-----------------------------------------------------------------------------
(* Types. *)

LEMMA MinLevelType ==
    ASSUME Range, NEW setting \in -1..MaxSetting
    PROVE  MinLevelFor(setting) \in Nat
BY BrightnessAssumption DEF MinLevelFor, Range, SafeSliderMinLevel

DoingType ==
    doing \in [Processes -> [at : {"idle", "guard", "read", "set", "back"}, dir : Directions, read : Nat]]

LEMMA TypeInit == Init => TypeOK
<1> SUFFICES ASSUME Init PROVE TypeOK OBVIOUS
<1>1. Range BY SetupRange DEF Init
<1>2. minLevel \in Nat BY <1>1, MinLevelType, BrightnessAssumption DEF Init
<1>3. Idle \in [at : {"idle", "guard", "read", "set", "back"}, dir : Directions, read : Nat]
  BY DEF Idle, Directions
<1>4. DoingType /\ \A p \in Processes : doing[p].at # "set" BY <1>3 DEF Init, DoingType, Idle
<1> QED BY <1>2, <1>4 DEF Init, TypeOK, DoingType

\* What a finished change leaves.
LEMMA FinishType ==
    ASSUME TypeOK, Range, NEW p \in Processes, NEW r \in Int, Finish(p, r)
    PROVE  /\ DoingType'
           /\ \A q \in Processes : doing'[q].at = "set" => doing'[q] = doing[q]
           /\ slider' \in Nat /\ touched' \in BOOLEAN /\ timer' \in BOOLEAN
<1>1. Idle \in [at : {"idle", "guard", "read", "set", "back"}, dir : Directions, read : Nat] /\ Idle.at = "idle"
  BY DEF Idle, Directions
<1>2. DoingType' /\ \A q \in Processes : doing'[q].at = "set" => doing'[q] = doing[q]
  BY <1>1 DEF Finish, TypeOK, DoingType
<1>3. minLevel \in Nat /\ hw.max \in Nat BY DEF TypeOK, Range
<1>4. Shown(r) \in Nat BY <1>3 DEF Shown, Clamp, Least, Greatest
<1>5. slider' \in Nat /\ touched' \in BOOLEAN /\ timer' \in BOOLEAN
  BY <1>4 DEF Finish, MoveRange, TypeOK
<1> QED BY <1>2, <1>5

LEMMA TypeStep == TypeOK /\ [Next]_vars => TypeOK'
<1> SUFFICES ASSUME TypeOK, [Next]_vars PROVE TypeOK' OBVIOUS
<1> USE DEF hwVars, panelVars
<1>r. Range BY SetupRange DEF TypeOK
<1>1. CASE ShowMenu
  <2>1. Shown(level) \in Nat
    <3>1. level \in Int /\ minLevel \in Nat /\ hw.max \in Nat BY <1>r DEF TypeOK, Range
    <3> QED BY <3>1 DEF Shown, Clamp, Least, Greatest
  <2> QED BY <1>1, <2>1 DEF TypeOK, ShowMenu
<1>2. CASE MenuDestroyed BY <1>2 DEF TypeOK, MenuDestroyed
<1>3. CASE RangeValueChanged
  <2>1. PICK v \in Drags \cap minLevel..hw.max : MoveRange(v) BY <1>3 DEF RangeValueChanged
  <2>2. v \in Nat BY BrightnessAssumption
  <2> QED BY <1>3, <2>1, <2>2 DEF TypeOK, RangeValueChanged, MoveRange
<1>4. CASE SetLevelTimeout
  <2>1. slider \in Int BY DEF TypeOK
  <2>2. SetLevel(slider) \in hw.min..hw.max
    BY <1>r, <2>1, SetLevelFacts, SetupDriver DEF TypeOK
  <2>3. level' \in hw.min..hw.max BY <1>4, <2>2 DEF SetLevelTimeout, TypeOK
  <2> QED BY <1>4, <2>3 DEF TypeOK, SetLevelTimeout
<1>5. CASE SetMinLevel
  <2>1. minLevel' \in Nat BY <1>5, <1>r, MinLevelType DEF SetMinLevel
  <2>2. Clamp(slider, minLevel', hw.max) \in Nat
    BY <2>1, <1>r DEF TypeOK, Range, Clamp, Least, Greatest
  <2>3. slider' \in Nat /\ touched' \in BOOLEAN /\ timer' \in BOOLEAN
    BY <1>5, <2>2 DEF SetMinLevel, MoveRange, TypeOK
  <2> QED BY <1>5, <2>1, <2>3 DEF TypeOK, SetMinLevel
<1>6. CASE ButtonPressed
  <2>1. PICK dir \in world.keys :
          doing' = [doing EXCEPT !["daemon"] = [at |-> "read", dir |-> dir, read |-> 0]]
    BY <1>6 DEF ButtonPressed
  <2>2. dir \in Directions BY BrightnessAssumption DEF TypeOK, WorldTypes
  <2>3. DoingType' /\ \A q \in Processes : doing'[q].at = "set" => doing'[q] = doing[q]
    BY <2>1, <2>2 DEF TypeOK, DoingType, Processes
  <2> QED BY <1>6, <2>3 DEF TypeOK, ButtonPressed, DoingType
<1>7. CASE \E dir \in Directions : ScrollEvent(dir)
  <2>1. PICK dir \in Directions : ScrollEvent(dir) BY <1>7
  <2>2. DoingType' /\ \A q \in Processes : doing'[q].at = "set" => doing'[q] = doing[q]
    BY <2>1 DEF TypeOK, DoingType, Processes, ScrollEvent
  <2> QED BY <2>1, <2>2 DEF TypeOK, ScrollEvent, DoingType
<1>8. CASE DecreaseBrightness \/ IncreaseBrightness
  <2>1. DoingType' /\ \A q \in Processes : doing'[q].at = "set" => doing'[q] = doing[q]
    BY <1>8 DEF TypeOK, DoingType, Processes, Directions, DecreaseBrightness, IncreaseBrightness, Idle
  <2> QED BY <1>8, <2>1 DEF TypeOK, DecreaseBrightness, IncreaseBrightness, DoingType
<1>9. ASSUME NEW p \in Processes, Read(p) PROVE TypeOK'
  <2>0. level \in Nat BY <1>r DEF TypeOK, Range
  <2>1. CASE Asked(doing[p].dir, level) = {}
    <3>1. Finish(p, level) BY <1>9, <2>1 DEF Read
    <3>2. /\ DoingType'
          /\ \A q \in Processes : doing'[q].at = "set" => doing'[q] = doing[q]
          /\ slider' \in Nat /\ touched' \in BOOLEAN /\ timer' \in BOOLEAN
      BY <1>r, <2>0, <3>1, FinishType
    <3> QED BY <1>9, <3>2 DEF Read, TypeOK, DoingType
  <2>2. CASE Asked(doing[p].dir, level) # {}
    <3>1. doing' = [doing EXCEPT ![p].at = "set", ![p].read = level] BY <1>9, <2>2 DEF Read
    <3>2. DoingType' /\ \A q \in Processes : doing'[q].at = "set" => doing'[q].read \in hw.min..hw.max
      BY <2>0, <3>1 DEF TypeOK, DoingType
    <3> QED BY <1>9, <2>2, <3>2 DEF Read, TypeOK, DoingType
  <2> QED BY <2>1, <2>2
<1>10. ASSUME NEW p \in Processes, Set(p) PROVE TypeOK'
  <2>1. PICK l \in Asked(doing[p].dir, doing[p].read) : level' = SetLevel(l) BY <1>10 DEF Set
  <2>2. doing[p].read \in hw.min..hw.max BY <1>10 DEF Set, TypeOK
  <2>3. l \in hw.min..hw.max BY <1>r, <2>2, AskedFacts
  <2>4. level' \in hw.min..hw.max
    BY <1>r, <2>1, <2>3, SetLevelFacts DEF TypeOK, Range
  <2>5. DoingType' /\ \A q \in Processes : doing'[q].at = "set" => doing'[q] = doing[q]
    BY <1>10 DEF Set, TypeOK, DoingType
  <2> QED BY <1>10, <2>4, <2>5 DEF Set, TypeOK, DoingType
<1>11. ASSUME NEW p \in Processes, ReadBack(p) PROVE TypeOK'
  <2>1. Finish(p, level) /\ level \in Int BY <1>11, <1>r DEF ReadBack, TypeOK, Range
  <2>2. /\ DoingType'
        /\ \A q \in Processes : doing'[q].at = "set" => doing'[q] = doing[q]
        /\ slider' \in Nat /\ touched' \in BOOLEAN /\ timer' \in BOOLEAN
    BY <1>r, <2>1, FinishType
  <2> QED BY <1>11, <2>2 DEF ReadBack, TypeOK, DoingType
<1>12. CASE KbdUp \/ KbdDown
  <2>1. world.kbdMax \in Nat BY BrightnessAssumption DEF TypeOK, WorldTypes
  <2>2. KbdStep(world.kbdMax) \in Nat BY <2>1, KbdStepSuffices
  <2>3. kbdLevel' \in 0..world.kbdMax
    BY <1>12, <2>1, <2>2 DEF TypeOK, KbdUp, KbdDown, KbdSetLevel, Least, Greatest
  <2> QED BY <1>12, <2>3 DEF TypeOK, KbdUp, KbdDown, KbdSetLevel
<1>13. CASE UNCHANGED vars BY <1>13 DEF TypeOK, vars
<1> QED BY <1>1, <1>2, <1>3, <1>4, <1>5, <1>6, <1>7, <1>8, <1>9, <1>10, <1>11, <1>12, <1>13
        DEF Next, Proceed

\* Whatever is read and set in between, the brightness stays in the range of the hardware and
\* every level a process is about to set was computed from one in that range.
THEOREM TypeCorrect == Spec => []TypeOK
<1>1. Init => TypeOK BY TypeInit
<1>2. TypeOK /\ [Next]_vars => TypeOK' BY TypeStep
<1> QED BY <1>1, <1>2, PTL DEF Spec

-----------------------------------------------------------------------------
(* Directions. *)

\* A key or the wheel moves the brightness to its own side, unless the other process has set
\* another level since it was read (blpm_brightness_up and blpm_brightness_down).
THEOREM OwnWay == Spec => StepsGoTheirWay
<1> DEFINE A == \A p \in Processes :
                  Set(p) /\ level = doing[p].read =>
                    IF doing[p].dir = "up" THEN level' >= level ELSE level' <= level
<1>1. TypeOK /\ [Next]_vars => [A]_vars
  <2> SUFFICES ASSUME TypeOK, NEW p \in Processes, Set(p), level = doing[p].read
               PROVE  IF doing[p].dir = "up" THEN level' >= level ELSE level' <= level
    OBVIOUS
  <2>1. Range /\ level \in hw.min..hw.max /\ level \in Int BY SetupRange DEF TypeOK, Range
  <2>2. PICK l \in Asked(doing[p].dir, level) : level' = SetLevel(l) BY DEF Set
  <2>3. l \in hw.min..hw.max /\ (IF doing[p].dir = "up" THEN l >= level ELSE l <= level)
    BY <2>1, <2>2, AskedFacts
  <2>4. level' \in {l, level} BY <2>1, <2>2, <2>3, SetLevelFacts DEF Range
  <2> QED BY <2>1, <2>3, <2>4
<1> QED BY <1>1, TypeCorrect, PTL DEF Spec, StepsGoTheirWay

-----------------------------------------------------------------------------
(* The slider. *)

Applied == timer \/ level = slider \/ slider < hw.min
Moved == world.keys = {} /\ world.root /\ menu /\ touched

\* While the panel alone changes the level, a slider that was moved is applied when the wheel
\* is turned, and what the wheel then does to the level moves the slider with it.
WheelInv ==
    LET at == doing["panel"].at
        down == doing["panel"].dir = "down"
        start == doing["panel"].read
    IN  /\ at \in {"idle", "guard", "read", "set"} => Applied
        /\ at \in {"read", "set"} /\ down => level > minLevel
        /\ at = "set" => start = level
        /\ at = "back" =>
             \/ timer \/ slider < hw.min
             \/ ~down /\ level >= slider
             \/ down /\ slider > minLevel /\ level <= slider

SliderInv ==
    /\ world.keys = {} => doing["daemon"].at = "idle"
    /\ minLevel <= hw.max /\ (menu => slider <= hw.max)
    /\ Moved => WheelInv

\* A level of the range is set when the helper may run.
LEMMA SetLevelWorks ==
    ASSUME hw \in Setup(world), world.root, HasHw, Range, NEW l \in hw.min..hw.max
    PROVE  SetLevel(l) = l
<1>1. CASE hw.driver = "xrandr" BY <1>1 DEF SetLevel, XrandrSetLevel
<1>2. CASE hw.driver # "xrandr"
  <2>1. world.backlights # {}
    <3>1. hw \notin SetupXrandr(world)
      <4>1. ASSUME NEW o \in XrandrLimits(world),
                   hw = [driver |-> "xrandr", min |-> o.min, max |-> o.max, step |-> Step(o.max)]
            PROVE  FALSE
        BY <1>2, <4>1
      <4> QED BY <4>1 DEF SetupXrandr
    <3>2. hw # NoHardware BY DEF HasHw, NoHardware
    <3>3. hw \in SetupHelper(world) BY <3>1, <3>2 DEF Setup
    <3> QED BY <3>3 DEF SetupHelper, BestBacklights
  <2>2. l \in 0..hw.max /\ l # -1 BY DEF Range
  <2>3. HelperExit("set-brightness", l, world, HelperWrite(l)) = Success
    BY <2>1, <2>2 DEF HelperExit, NoOption, HelperWrite
  <2> QED BY <1>2, <2>3 DEF SetLevel, HelperSetLevel
<1> QED BY <1>1, <1>2

\* The end of a change by the wheel.
LEMMA FinishKeepsApplied ==
    ASSUME TypeOK, Range, minLevel <= hw.max, Finish("panel", level), menu, menu' = menu,
           UNCHANGED <<hwVars, level, minLevel>>,
           touched => \/ Applied
                      \/ doing["panel"].dir # "down" /\ level >= slider
                      \/ slider > minLevel /\ level <= slider
    PROVE  slider' <= hw.max /\ (touched' => Applied')
<1>1. /\ slider' = Shown(level)
      /\ touched' = (touched \/ slider' # slider)
      /\ timer' = (timer \/ slider' # slider)
  BY DEF Finish, MoveRange
<1>2. level \in Int /\ minLevel \in Int /\ hw.max \in Int /\ slider \in Int /\ level <= hw.max
  BY DEF TypeOK, Range
<1>3. Shown(level) <= hw.max BY <1>2 DEF Shown, Clamp, Least, Greatest
<1>4. level >= slider /\ Shown(level) = slider /\ minLevel <= level => level = slider
  BY <1>2 DEF Shown, Clamp, Least, Greatest
<1>5. slider > minLevel /\ Shown(level) = slider => level = slider
  BY <1>2 DEF Shown, Clamp, Least, Greatest
<1>6. level >= slider /\ Shown(level) = slider /\ level < minLevel => FALSE
  BY <1>2 DEF Shown, Clamp, Least, Greatest
<1>7. ASSUME touched', slider' = slider PROVE Applied'
  <2>1. touched BY <1>1, <1>7
  <2>2. Shown(level) = slider BY <1>1, <1>7
  <2>3. Applied \/ level = slider BY <1>2, <1>4, <1>5, <1>6, <2>1, <2>2
  <2>4. Applied BY <2>3 DEF Applied
  <2> QED BY <1>1, <1>7, <2>4 DEF Applied, hwVars
<1>8. ASSUME slider' # slider PROVE Applied' BY <1>1, <1>8 DEF Applied
<1> QED BY <1>1, <1>3, <1>7, <1>8

LEMMA SliderInit == Init => SliderInv
<1> SUFFICES ASSUME Init PROVE SliderInv OBVIOUS
<1>1. Range BY SetupRange DEF Init
<1>2. minLevel <= hw.max BY <1>1 DEF Init, MinLevelFor, Range, SafeSliderMinLevel
<1>3. doing["daemon"].at = "idle" BY DEF Init, Idle, Processes
<1> QED BY <1>2, <1>3 DEF Init, SliderInv, Moved

LEMMA SliderStep == TypeOK /\ SliderInv /\ [Next]_vars => SliderInv'
<1> SUFFICES ASSUME TypeOK, SliderInv, [Next]_vars PROVE SliderInv' OBVIOUS
<1> USE DEF hwVars, panelVars
<1>r. Range BY SetupRange DEF TypeOK
<1>n. level \in Int /\ minLevel \in Int /\ hw.max \in Int /\ slider \in Int /\ level <= hw.max
  BY <1>r DEF TypeOK, Range
<1>1. CASE ShowMenu
  <2>1. Shown(level) <= hw.max
    BY <1>n DEF SliderInv, Shown, Clamp, Least, Greatest
  <2> QED BY <1>1, <2>1 DEF ShowMenu, SliderInv, Moved
<1>2. CASE MenuDestroyed BY <1>2 DEF MenuDestroyed, SliderInv, Moved
<1>3. CASE RangeValueChanged
  <2>1. PICK v \in minLevel..hw.max : v # slider /\ MoveRange(v) BY <1>3 DEF RangeValueChanged
  <2>2. timer' /\ slider' <= hw.max
    <3>1. timer' BY <2>1, Zenon DEF MoveRange
    <3>2. slider' = v BY <2>1 DEF MoveRange
    <3> QED BY <1>n, <2>1, <3>1, <3>2
  <2>3. doing' = doing /\ doing["panel"].at = "idle" BY <1>3 DEF RangeValueChanged, PanelReady
  <2>4. WheelInv' BY <2>2, <2>3 DEF WheelInv, Applied
  <2> QED BY <1>3, <2>2, <2>4 DEF RangeValueChanged, SliderInv
<1>4. CASE SetLevelTimeout
  <2>1. doing' = doing /\ doing["panel"].at = "idle" /\ HasHw BY <1>4 DEF SetLevelTimeout, PanelReady
  <2>2. ASSUME Moved, slider >= hw.min PROVE level' = slider
    <3>1. slider \in hw.min..hw.max
      BY <1>n, <1>r, <2>2 DEF SliderInv, Moved, Range
    <3>2. SetLevel(slider) = slider
      BY <1>r, <2>1, <2>2, <3>1, SetLevelWorks DEF TypeOK, Moved
    <3> QED BY <1>4, <3>2 DEF SetLevelTimeout
  <2>3. Moved => WheelInv'
    BY <1>4, <1>r, <1>n, <2>1, <2>2 DEF WheelInv, Applied, SetLevelTimeout, Range
  <2> QED BY <1>4, <2>3 DEF SetLevelTimeout, SliderInv, Moved
<1>5. CASE SetMinLevel
  <2>1. doing' = doing /\ doing["panel"].at = "idle" BY <1>5 DEF SetMinLevel, PanelReady
  <2>2. minLevel' \in Int /\ minLevel' <= hw.max
    <3>1. minLevel' \in Nat BY <1>5, <1>r, MinLevelType DEF SetMinLevel
    <3> QED BY <1>5, <1>n, <3>1 DEF SetMinLevel
  <2>3. Clamp(slider, minLevel', hw.max) <= hw.max
    BY <1>n, <2>2 DEF Clamp, Least, Greatest
  <2>4. menu => slider' <= hw.max BY <1>5, <2>3 DEF SetMinLevel, MoveRange
  <2>5. ASSUME Moved' PROVE WheelInv'
    <3>1. slider' # slider => timer' BY <1>5, <2>5 DEF SetMinLevel, MoveRange, Moved
    <3>2. slider' = slider => touched /\ timer' = timer
      <4>1. menu' = menu /\ menu /\ touched' BY <1>5, <2>5 DEF SetMinLevel, Moved
      <4>2. /\ touched' = (touched \/ slider' # slider)
            /\ timer' = (timer \/ slider' # slider)
        BY <1>5, <4>1 DEF SetMinLevel, MoveRange
      <4>3. timer \in BOOLEAN /\ touched \in BOOLEAN BY DEF TypeOK
      <4> QED BY <4>1, <4>2, <4>3, Zenon
    <3>3. slider' = slider => Applied
      BY <1>5, <2>1, <2>5, <3>2 DEF SliderInv, WheelInv, Moved, SetMinLevel
    <3>4. Applied' BY <1>5, <3>1, <3>2, <3>3 DEF Applied, SetMinLevel
    <3> QED BY <2>1, <3>4 DEF WheelInv
  <2> QED BY <1>5, <2>1, <2>2, <2>4, <2>5 DEF SetMinLevel, SliderInv
<1>6. CASE ButtonPressed
  <2>1. world.keys # {} BY <1>6 DEF ButtonPressed
  <2> QED BY <1>6, <2>1 DEF ButtonPressed, SliderInv, Moved
<1>7. CASE \E dir \in Directions : ScrollEvent(dir)
  <2>1. PICK dir \in Directions : ScrollEvent(dir) BY <1>7
  <2>2. /\ doing'["daemon"] = doing["daemon"] /\ doing'["panel"].at = "guard"
        /\ doing["panel"].at = "idle"
    BY <2>1 DEF ScrollEvent, TypeOK, Processes, PanelReady
  <2> QED BY <2>1, <2>2 DEF ScrollEvent, SliderInv, Moved, WheelInv, Applied
<1>8. CASE DecreaseBrightness \/ IncreaseBrightness
  <2>1. /\ doing'["daemon"] = doing["daemon"] /\ doing["panel"].at = "guard"
        /\ doing'["panel"].at = "idle" \/
             /\ doing'["panel"].at = "read"
             /\ doing'["panel"].dir = "down" => level > minLevel
    BY <1>8 DEF DecreaseBrightness, IncreaseBrightness, TypeOK, Processes, Idle
  <2> QED BY <1>8, <2>1 DEF DecreaseBrightness, IncreaseBrightness, SliderInv, Moved, WheelInv, Applied
<1>9. ASSUME NEW p \in Processes, Read(p) \/ Set(p) \/ ReadBack(p), p = "daemon" PROVE SliderInv'
  <2>1. world.keys # {} BY <1>9 DEF SliderInv, Read, Set, ReadBack
  <2>2. hw' = hw /\ world' = world /\ minLevel' = minLevel /\ menu' = menu
    BY <1>9 DEF Read, Set, ReadBack
  <2>3. UNCHANGED slider BY <1>9 DEF Read, Set, ReadBack, Finish
  <2> QED BY <2>1, <2>2, <2>3 DEF SliderInv, Moved
<1>10. ASSUME Read("panel") \/ ReadBack("panel"), doing' = [doing EXCEPT !["panel"] = Idle],
              Finish("panel", level)
       PROVE SliderInv'
  <2>1. UNCHANGED <<hwVars, level, menu, minLevel>> BY <1>10 DEF Read, ReadBack
  <2>2. doing'["daemon"] = doing["daemon"] /\ doing'["panel"].at = "idle"
    BY <1>10 DEF TypeOK, Processes, Idle
  <2>3. CASE menu /\ world.keys = {} /\ world.root
    <3>1. touched => \/ Applied
                     \/ doing["panel"].dir # "down" /\ level >= slider
                     \/ slider > minLevel /\ level <= slider
      BY <1>10, <2>3 DEF SliderInv, Moved, WheelInv, Applied, Read, ReadBack
    <3>2. slider' <= hw.max /\ (touched' => Applied')
      BY <1>10, <1>r, <2>1, <2>3, <3>1, FinishKeepsApplied DEF SliderInv
    <3> QED BY <2>1, <2>2, <2>3, <3>2 DEF SliderInv, Moved, WheelInv
  <2>4. CASE ~(menu /\ world.keys = {} /\ world.root)
    <3>1. menu => slider' <= hw.max
      <4>1. Shown(level) <= hw.max BY <1>n DEF SliderInv, Shown, Clamp, Least, Greatest
      <4> QED BY <1>10, <4>1 DEF Finish, MoveRange
    <3> QED BY <2>1, <2>2, <2>4, <3>1 DEF SliderInv, Moved
  <2> QED BY <2>3, <2>4
<1>11. ASSUME Read("panel"), Asked(doing["panel"].dir, level) # {} PROVE SliderInv'
  <2>1. doing' = [doing EXCEPT !["panel"].at = "set", !["panel"].read = level]
        /\ UNCHANGED <<hwVars, level, menu, minLevel, slider, touched, timer>>
    BY <1>11 DEF Read
  <2>2. /\ doing'["daemon"] = doing["daemon"] /\ doing'["panel"].at = "set"
        /\ doing'["panel"].read = level /\ doing'["panel"].dir = doing["panel"].dir
        /\ doing["panel"].at = "read"
    BY <1>11, <2>1 DEF TypeOK, Processes, Read
  <2> QED BY <2>1, <2>2 DEF SliderInv, Moved, WheelInv, Applied
<1>12. ASSUME Set("panel") PROVE SliderInv'
  <2>1. /\ doing'["daemon"] = doing["daemon"] /\ doing'["panel"].at = "back"
        /\ doing'["panel"].dir = doing["panel"].dir /\ doing["panel"].at = "set"
        /\ UNCHANGED <<hwVars, panelVars, minLevel>>
    BY <1>12 DEF Set, TypeOK, Processes
  <2>2. ASSUME Moved PROVE WheelInv'
    <3>1. doing["panel"].read = level /\ Applied /\ (doing["panel"].dir = "down" => level > minLevel)
      BY <2>1, <2>2 DEF SliderInv, WheelInv
    <3>2. PICK l \in Asked(doing["panel"].dir, level) : level' = SetLevel(l) BY <1>12, <3>1 DEF Set
    <3>3. /\ l \in Int /\ level \in hw.min..hw.max
          /\ IF doing["panel"].dir = "up" THEN l >= level ELSE l <= level
      BY <1>r, <3>2, AskedFacts DEF TypeOK, Range
    <3>4. level' \in {l, level} BY <1>r, <3>2, <3>3, SetLevelFacts
    <3>5. doing["panel"].dir \in Directions BY DEF TypeOK, Processes
    <3>6. IF doing["panel"].dir = "up" THEN level' >= level ELSE level' <= level
      BY <1>n, <3>3, <3>4
    <3> QED BY <1>n, <2>1, <3>1, <3>5, <3>6 DEF WheelInv, Applied, Directions
  <2> QED BY <2>1, <2>2 DEF SliderInv, Moved
<1>13. CASE KbdUp \/ KbdDown BY <1>13 DEF KbdUp, KbdDown, KbdSetLevel, SliderInv, Moved, WheelInv, Applied
<1>14. CASE UNCHANGED vars BY <1>14 DEF vars, SliderInv, Moved, WheelInv, Applied
<1>15. ASSUME NEW p \in Processes, Proceed(p) PROVE SliderInv'
  <2>1. CASE p = "daemon" BY <1>9, <1>15, <2>1 DEF Proceed
  <2>2. CASE p = "panel" BY <1>10, <1>11, <1>12, <1>15, <2>2 DEF Proceed, Read, ReadBack, Finish
  <2> QED BY <2>1, <2>2 DEF Processes
<1> QED BY <1>1, <1>2, <1>3, <1>4, <1>5, <1>6, <1>7, <1>8, <1>13, <1>14, <1>15 DEF Next

\* No movement of the panel's slider is lost: while nobody else changes the brightness, the
\* screen has the level of a slider that was moved, or set_level_timeout runs.
THEOREM SliderApplied == Spec => []SliderIsApplied
<1>1. Init => SliderInv BY SliderInit
<1>2. TypeOK /\ SliderInv /\ [Next]_vars => SliderInv' BY SliderStep
<1>3. SliderInv => SliderIsApplied BY DEF SliderInv, SliderIsApplied, Moved, WheelInv, Applied
<1> QED BY <1>1, <1>2, <1>3, TypeCorrect, PTL DEF Spec
=============================================================================
