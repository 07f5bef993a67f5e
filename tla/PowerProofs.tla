----------------------------- MODULE PowerProofs -----------------------------
(* Theorems about Power, for every set of devices, percentages and settings. *)
EXTENDS Power, FiniteSetTheorems, TLAPS

-----------------------------------------------------------------------------
(* Helpers of the model. *)

\* The best class of a set that has one is in the set and bounds it.
LEMMA MaxOfCharges ==
    ASSUME NEW S \in SUBSET (UNKNOWN..OK), UNKNOWN \in S
    PROVE  MaxOf(S) \in S /\ \A y \in S : y <= MaxOf(S)
<1>1. \E x \in S : \A y \in S : y <= x
  <2>1. CASE OK \in S BY <2>1 DEF OK, UNKNOWN
  <2>2. CASE OK \notin S /\ LOW \in S BY <2>2 DEF OK, LOW, UNKNOWN
  <2>3. CASE OK \notin S /\ LOW \notin S /\ CRITICAL \in S
    BY <2>3 DEF OK, LOW, CRITICAL, UNKNOWN
  <2>4. CASE OK \notin S /\ LOW \notin S /\ CRITICAL \notin S
    BY <2>4 DEF OK, LOW, CRITICAL, UNKNOWN
  <2> QED BY <2>1, <2>2, <2>3, <2>4
<1> QED BY <1>1 DEF MaxOf

\* Every percentage has a class, and none of them is UNKNOWN.
LEMMA ChargeOfType ==
    ASSUME NEW p \in Nat, criticalLevel \in Nat
    PROVE  ChargeOf(p) \in CRITICAL..OK
<1>1. CASE p > criticalLevel + 10 BY <1>1 DEF ChargeOf, OK, LOW, CRITICAL
<1>2. CASE p > criticalLevel /\ p <= criticalLevel + 10 BY <1>2 DEF ChargeOf, OK, LOW, CRITICAL
<1>3. CASE p <= criticalLevel BY <1>3 DEF ChargeOf, OK, LOW, CRITICAL
<1> QED BY <1>1, <1>2, <1>3

\* The state of the machine is a class, and bounds the class of every supply.
LEMMA CurrentChargeBounds ==
    ASSUME charge' \in [Devices -> UNKNOWN..OK], known \subseteq Devices
    PROVE  /\ CurrentCharge \in UNKNOWN..OK
           /\ \A d \in known \cap Supplies : charge'[d] <= CurrentCharge
<1> DEFINE counted == {charge'[d] : d \in {e \in known : e \in Supplies \/ acOnline[e]}}
<1>1. {UNKNOWN} \cup counted \in SUBSET (UNKNOWN..OK)
  <2>1. UNKNOWN \in UNKNOWN..OK BY DEF UNKNOWN, OK
  <2> QED BY <2>1
<1>2. \A d \in known \cap Supplies : charge'[d] \in counted OBVIOUS
<1> HIDE DEF counted
<1>3. CurrentCharge = MaxOf({UNKNOWN} \cup counted) BY DEF CurrentCharge, counted
<1>4. /\ CurrentCharge \in {UNKNOWN} \cup counted
      /\ \A y \in {UNKNOWN} \cup counted : y <= CurrentCharge
  BY <1>1, <1>3, MaxOfCharges
<1> QED BY <1>1, <1>2, <1>4

-----------------------------------------------------------------------------
(* Types. *)

LEMMA MachineFacts ==
    ASSUME machine \in Machines
    PROVE  machine.levels \subseteq Nat /\ machine.startups \subseteq Percentages
BY PowerAssumption DEF MachineTypes

LEMMA TypeInit == Init => TypeOK
<1> SUFFICES ASSUME Init PROVE TypeOK OBVIOUS
<1> USE PowerAssumption
<1>1. \A d \in Devices : ChargeOf(percentage[d]) \in CRITICAL..OK
  <2> SUFFICES ASSUME NEW d \in Devices PROVE ChargeOf(percentage[d]) \in CRITICAL..OK OBVIOUS
  <2>1. percentage[d] \in Nat /\ criticalLevel \in Nat BY MachineFacts DEF Init
  <2> QED BY <2>1, ChargeOfType
<1>2. /\ charge \in [Devices -> UNKNOWN..OK]
      /\ \A d \in Devices : charge[d] = UNKNOWN <=> d \notin known
  BY <1>1 DEF Init, UNKNOWN, CRITICAL, OK
<1>3. acOnline \in [Devices -> BOOLEAN] BY DEF Init
<1>4. /\ present \subseteq Devices /\ percentage \in [Devices -> Percentages]
      /\ acPlugged \in BOOLEAN /\ known \subseteq Devices /\ onBattery \in BOOLEAN
  BY MachineFacts DEF Init
<1>5. /\ chances \in 0..MaxChances /\ actions \in Nat /\ asking \in 0..actions
      /\ overallState \in UNKNOWN..OK
  BY DEF Init, UNKNOWN, OK
<1> QED BY <1>2, <1>3, <1>4, <1>5 DEF Init, TypeOK

\* What the power object's steps do to mains power and its copies.
LEMMA MainsType ==
    ASSUME TypeOK, NoSleep \/ SleepAndWake \/ (UNCHANGED acPlugged /\ CheckPower(~acPlugged))
    PROVE  acPlugged' \in BOOLEAN /\ onBattery' \in BOOLEAN /\ acOnline' \in [Devices -> BOOLEAN]
<1>1. CASE NoSleep BY <1>1 DEF TypeOK, NoSleep
<1>2. CASE SleepAndWake
  <2>1. acPlugged' \in BOOLEAN BY <1>2 DEF TypeOK, SleepAndWake
  <2>2. CheckPower(~acPlugged') BY <1>2 DEF SleepAndWake
  <2> QED BY <2>1, <2>2 DEF CheckPower, TypeOK
<1>3. CASE UNCHANGED acPlugged /\ CheckPower(~acPlugged) BY <1>3 DEF CheckPower, TypeOK
<1> QED BY <1>1, <1>2, <1>3

\* The types of everything battery-charge-changed assigns.
LEMMA ChangedType ==
    ASSUME TypeOK, BatteryChargeChanged, charge' \in [Devices -> UNKNOWN..OK]
    PROVE  /\ overallState' \in UNKNOWN..OK
           /\ onLowBattery' \in BOOLEAN /\ actionDone' \in BOOLEAN /\ dialog' \in BOOLEAN
           /\ actions' \in Nat /\ asking' \in 0..actions'
           /\ NoSleep \/ SleepAndWake
<1>1. CurrentCharge \in UNKNOWN..OK BY CurrentChargeBounds DEF TypeOK
<1>2. CASE UNCHANGED stateVars /\ NoSleep BY <1>2 DEF TypeOK, stateVars
<1>3. CASE overallState' = CurrentCharge /\ OnCritical(CurrentCharge)
  <2>1. CASE WarnOnCriticalPower BY <1>1, <1>3, <2>1 DEF WarnOnCriticalPower, TypeOK
  <2>2. CASE ActOnCriticalPower
    <3>1. actions' = actions + 1 /\ actionDone' = TRUE /\ dialog' = dialog
      BY <2>2 DEF ActOnCriticalPower
    <3>2. CASE DontAsk(criticalAction = "sleep")
      BY <1>1, <1>3, <3>1, <3>2 DEF DontAsk, TypeOK
    <3>3. CASE AskFirst BY <1>1, <1>3, <3>1, <3>3 DEF AskFirst, TypeOK
    <3> QED BY <2>2, <3>2, <3>3 DEF ActOnCriticalPower
  <2> QED BY <1>3, <2>1, <2>2 DEF OnCritical
<1>4. CASE overallState' = CurrentCharge /\ OffCritical(CurrentCharge)
  BY <1>1, <1>4 DEF OffCritical, TypeOK
<1> QED BY <1>2, <1>3, <1>4 DEF BatteryChargeChanged

LEMMA RefreshCharge ==
    ASSUME TypeOK, NEW d \in Devices, Refresh(d)
    PROVE  /\ charge' \in [Devices -> UNKNOWN..OK]
           /\ \A e \in Devices : charge'[e] = UNKNOWN <=> e \notin known
<1> USE PowerAssumption
<1>1. ChargeOf(percentage[d]) \in CRITICAL..OK
  <2>1. percentage[d] \in Nat /\ criticalLevel \in Nat BY MachineFacts DEF TypeOK
  <2> QED BY <2>1, ChargeOfType
<1>2. charge' = [charge EXCEPT ![d] = ChargeOf(percentage[d])] /\ d \in known BY DEF Refresh
<1> QED BY <1>1, <1>2 DEF TypeOK, UNKNOWN, CRITICAL, OK

LEMMA TypeNext == TypeOK /\ [Next]_vars => TypeOK'
<1> SUFFICES ASSUME TypeOK, [Next]_vars PROVE TypeOK' OBVIOUS
<1>0. machine' = machine /\ machine \in Machines BY DEF Next, vars, TypeOK
<1> USE PowerAssumption, <1>0
<1>1. ASSUME NEW d \in Devices, Refresh(d) PROVE TypeOK'
  <2>1. /\ charge' \in [Devices -> UNKNOWN..OK]
        /\ \A e \in Devices : charge'[e] = UNKNOWN <=> e \notin known'
    BY <1>1, RefreshCharge DEF Refresh
  <2>2. /\ present' \subseteq Devices /\ percentage' \in [Devices -> Percentages]
        /\ chances' \in 0..MaxChances /\ known' \subseteq Devices
        /\ criticalLevel' \in machine'.levels /\ criticalAction' \in CriticalActions
        /\ supportsActions' \in BOOLEAN
    BY <1>1 DEF Refresh, TypeOK, configVars
  <2>3. CASE BatteryChargeChanged
    <3>1. /\ overallState' \in UNKNOWN..OK
          /\ onLowBattery' \in BOOLEAN /\ actionDone' \in BOOLEAN /\ dialog' \in BOOLEAN
          /\ actions' \in Nat /\ asking' \in 0..actions'
          /\ NoSleep \/ SleepAndWake
      BY <2>1, <2>3, ChangedType
    <3>2. acPlugged' \in BOOLEAN /\ onBattery' \in BOOLEAN /\ acOnline' \in [Devices -> BOOLEAN]
      BY <3>1, MainsType
    <3> QED BY <2>1, <2>2, <3>1, <3>2 DEF TypeOK
  <2>4. CASE UNCHANGED <<stateVars, acPlugged, onBattery, acOnline>>
    BY <2>1, <2>2, <2>4 DEF TypeOK, stateVars
  <2> QED BY <1>1, <2>3, <2>4 DEF Refresh
<1>2. ASSUME NEW d \in Devices, DeviceAdded(d) PROVE TypeOK'
  <2>1. ChargeOf(percentage[d]) \in CRITICAL..OK
    <3>1. percentage[d] \in Nat /\ criticalLevel \in Nat BY MachineFacts DEF TypeOK
    <3> QED BY <3>1, ChargeOfType
  <2>2. /\ charge' \in [Devices -> UNKNOWN..OK] /\ known' \subseteq Devices
        /\ \A e \in Devices : charge'[e] = UNKNOWN <=> e \notin known'
    BY <1>2, <2>1 DEF DeviceAdded, TypeOK, UNKNOWN, CRITICAL, OK
  <2>3. acOnline' \in [Devices -> BOOLEAN] BY <1>2 DEF DeviceAdded, TypeOK
  <2> QED BY <1>2, <2>2, <2>3 DEF DeviceAdded, TypeOK, upowerVars, configVars, stateVars
<1>3. ASSUME NEW d \in Devices, DeviceRemoved(d) PROVE TypeOK'
  <2>1. /\ charge' \in [Devices -> UNKNOWN..OK] /\ known' \subseteq Devices
        /\ \A e \in Devices : charge'[e] = UNKNOWN <=> e \notin known'
    BY <1>3 DEF DeviceRemoved, TypeOK, UNKNOWN, OK
  <2> QED BY <1>3, <2>1 DEF DeviceRemoved, TypeOK, upowerVars, configVars, stateVars
<1>4. CASE PowerChanged
  <2>1. acPlugged' \in BOOLEAN /\ onBattery' \in BOOLEAN /\ acOnline' \in [Devices -> BOOLEAN]
    BY <1>4, MainsType DEF PowerChanged, upowerVars
  <2> QED BY <1>4, <2>1 DEF PowerChanged, TypeOK, upowerVars, configVars, stateVars
<1>5. CASE DialogClicked \/ LockAnswered
  <2>1. NoSleep \/ SleepAndWake BY <1>5 DEF DialogClicked, LockAnswered
  <2>2. acPlugged' \in BOOLEAN /\ onBattery' \in BOOLEAN /\ acOnline' \in [Devices -> BOOLEAN]
    BY <2>1, MainsType, Zenon
  <2>3. UNCHANGED <<present, percentage, chances, criticalLevel, criticalAction,
                    supportsActions, charge, known, overallState, actionDone, actions>>
    BY <1>5 DEF DialogClicked, LockAnswered, configVars
  <2>4. onLowBattery' \in BOOLEAN /\ dialog' \in BOOLEAN /\ asking' \in 0..actions'
    <3>1. CASE DialogClicked BY <3>1 DEF DialogClicked, TypeOK, configVars
    <3>2. CASE LockAnswered BY <3>2 DEF LockAnswered, TypeOK, configVars
    <3> QED BY <1>5, <3>1, <3>2
  <2> QED BY <2>2, <2>3, <2>4 DEF TypeOK
<1>6. ASSUME NEW d \in Devices, NEW p \in Percentages, Discharges(d, p) \/ Charges(d, p) \/ Arrives(d, p)
      PROVE  TypeOK'
  BY <1>6 DEF Discharges, Charges, Arrives, TypeOK, configVars, daemonVars, batteryVars, stateVars
<1>7. ASSUME NEW d \in Devices, Leaves(d) PROVE TypeOK'
  BY <1>7 DEF Leaves, TypeOK, configVars, daemonVars, batteryVars, stateVars
<1>8. CASE PlugOrUnplug
  BY <1>8 DEF PlugOrUnplug, TypeOK, configVars, daemonVars, batteryVars, stateVars
<1>10. CASE ConfigureAction
  BY <1>10 DEF ConfigureAction, TypeOK, upowerVars, daemonVars, batteryVars, stateVars
<1>11. CASE ConfigureLevel
  BY <1>11 DEF ConfigureLevel, TypeOK, daemonVars, batteryVars, stateVars
<1>9. CASE UNCHANGED vars
  BY <1>9 DEF vars, TypeOK, upowerVars, configVars, batteryVars, stateVars
<1> QED BY <1>1, <1>2, <1>3, <1>4, <1>5, <1>6, <1>7, <1>8, <1>9, <1>10, <1>11 DEF Next

\* TypeOK holds of every behaviour: no callback of src/blpm-power.c or
\* src/blpm-battery.c leaves a variable outside its type, and a battery object
\* has a charge class exactly while the power object knows it.
THEOREM TypeCorrect == Spec => []TypeOK
<1> QED BY TypeInit, TypeNext, PTL DEF Spec

-----------------------------------------------------------------------------
(* Safety. *)

\* What a step that runs no battery-charge-changed leaves alone.
LEMMA OtherSteps ==
    ASSUME [Next]_vars
    PROVE  \/ \E d \in Devices : Refresh(d) /\ BatteryChargeChanged
           \/ UNCHANGED stateVars
           \/ DialogClicked
           \/ LockAnswered
<1>1. ASSUME NEW d \in Devices, Refresh(d)
      PROVE  BatteryChargeChanged \/ UNCHANGED stateVars
  BY <1>1 DEF Refresh
<1>2. ASSUME NEW d \in Devices, DeviceAdded(d) \/ DeviceRemoved(d) \/ Leaves(d)
      PROVE  UNCHANGED stateVars
  BY <1>2 DEF DeviceAdded, DeviceRemoved, Leaves, daemonVars
<1>3. ASSUME NEW d \in Devices, NEW p \in Percentages, Discharges(d, p) \/ Charges(d, p) \/ Arrives(d, p)
      PROVE  UNCHANGED stateVars
  BY <1>3 DEF Discharges, Charges, Arrives, daemonVars
<1>4. CASE PowerChanged \/ PlugOrUnplug \/ ConfigureAction \/ ConfigureLevel
  BY <1>4 DEF PowerChanged, PlugOrUnplug, ConfigureAction, ConfigureLevel, daemonVars
<1>5. CASE UNCHANGED vars BY <1>5 DEF vars
<1> QED BY <1>1, <1>2, <1>3, <1>4, <1>5 DEF Next

\* What battery-charge-changed does to the machine's state: nothing, or a warning
\* or an action on critical power, or the end of critical power.
LEMMA ChangedCases ==
    ASSUME BatteryChargeChanged
    PROVE  \/ UNCHANGED stateVars
           \/ /\ overallState' = CRITICAL /\ CurrentCharge = CRITICAL /\ onBattery
           \/ /\ ~dialog' /\ ~onLowBattery' /\ UNCHANGED <<asking, actions>>
<1>1. CASE UNCHANGED stateVars BY <1>1
<1>2. CASE overallState' = CurrentCharge /\ OnCritical(CurrentCharge) BY <1>2 DEF OnCritical
<1>3. CASE overallState' = CurrentCharge /\ OffCritical(CurrentCharge) BY <1>3 DEF OffCritical
<1> QED BY <1>1, <1>2, <1>3 DEF BatteryChargeChanged

LEMMA DialogStep ==
    DialogOnlyWhenCritical /\ [Next]_vars => DialogOnlyWhenCritical'
<1> SUFFICES ASSUME DialogOnlyWhenCritical, [Next]_vars PROVE DialogOnlyWhenCritical' OBVIOUS
<1>1. CASE BatteryChargeChanged
  BY <1>1, ChangedCases DEF DialogOnlyWhenCritical, stateVars
<1>2. CASE UNCHANGED stateVars BY <1>2 DEF DialogOnlyWhenCritical, stateVars
<1>3. CASE DialogClicked BY <1>3 DEF DialogOnlyWhenCritical, DialogClicked
<1>4. CASE LockAnswered BY <1>4 DEF DialogOnlyWhenCritical, LockAnswered
<1> QED BY <1>1, <1>2, <1>3, <1>4, OtherSteps

\* The critical dialog of src/blpm-power.c is closed whenever the machine leaves
\* the critical state, whatever the order of its callbacks, and with the main loop
\* of a question about the screen lock running inside another callback.
THEOREM DialogAlwaysOnlyWhenCritical == Spec => []DialogOnlyWhenCritical
<1>1. Init => DialogOnlyWhenCritical BY DEF Init, DialogOnlyWhenCritical
<1> QED BY <1>1, DialogStep, PTL DEF Spec

LEMMA LowBatteryStep ==
    TypeOK /\ [Next]_vars => (StaleLowBattery' => StaleLowBattery \/ asking' < asking)
<1> SUFFICES ASSUME TypeOK, [Next]_vars, StaleLowBattery'
             PROVE  StaleLowBattery \/ asking' < asking
    OBVIOUS
<1>1. CASE BatteryChargeChanged
  BY <1>1, ChangedCases DEF StaleLowBattery, stateVars
<1>2. CASE UNCHANGED stateVars BY <1>2 DEF StaleLowBattery, stateVars
<1>3. CASE DialogClicked BY <1>3 DEF StaleLowBattery, DialogClicked
<1>4. CASE LockAnswered
  <2>1. asking' = asking - 1 /\ asking \in Nat BY <1>4 DEF LockAnswered, TypeOK
  <2> QED BY <2>1
<1> QED BY <1>1, <1>2, <1>3, <1>4, OtherSteps

\* The low battery flag of the D-Bus interface goes stale in one way only: the
\* handler of a critical battery resumes after its question about the screen lock.
THEOREM LowBatteryAlwaysOnlyWhenCritical == Spec => LowBatteryOnlyWhenCritical
<1>1. TypeOK /\ [Next]_vars
      => [StaleLowBattery' => StaleLowBattery \/ asking' < asking]_vars
  BY LowBatteryStep
<1> QED BY <1>1, TypeCorrect, PTL DEF Spec, LowBatteryOnlyWhenCritical

LEMMA ActionStep ==
    ASSUME TypeOK, [Next]_vars, actions' # actions
    PROVE  onBattery /\ \A d \in known \cap Supplies : charge'[d] = CRITICAL
<1>1. CASE UNCHANGED stateVars BY <1>1 DEF stateVars
<1>2. CASE DialogClicked BY <1>2 DEF DialogClicked
<1>3. CASE LockAnswered BY <1>3 DEF LockAnswered
<1>4. ASSUME NEW e \in Devices, Refresh(e), BatteryChargeChanged
      PROVE  onBattery /\ \A d \in known \cap Supplies : charge'[d] = CRITICAL
  <2>1. CurrentCharge = CRITICAL /\ onBattery
    BY <1>4, ChangedCases DEF stateVars
  <2>2. /\ charge' \in [Devices -> UNKNOWN..OK]
        /\ \A d \in Devices : charge'[d] = UNKNOWN <=> d \notin known
    BY <1>4, RefreshCharge
  <2>3. known \subseteq Devices BY DEF TypeOK
  <2>4. \A d \in known \cap Supplies : charge'[d] <= CRITICAL
    BY <2>1, <2>2, <2>3, CurrentChargeBounds
  <2>5. ASSUME NEW d \in known \cap Supplies PROVE charge'[d] = CRITICAL
    BY <2>2, <2>3, <2>4 DEF UNKNOWN, CRITICAL, OK
  <2> QED BY <2>1, <2>5
<1> QED BY <1>1, <1>2, <1>3, <1>4, OtherSteps

\* The critical action is carried out on battery only, and only while every battery
\* and UPS the daemon knows is critical: one supply with charge left is enough to
\* keep the machine running.
THEOREM ActionAlwaysJustified == Spec => ActionJustified
<1>1. TypeOK /\ [Next]_vars
      => [actions' # actions =>
            onBattery /\ \A d \in known \cap Supplies : charge'[d] = CRITICAL]_vars
  BY ActionStep
<1> QED BY <1>1, TypeCorrect, PTL DEF Spec, ActionJustified

-----------------------------------------------------------------------------
(* A machine that is dealt with. *)

AllCritical == \A d \in Devices : charge[d] = CRITICAL

\* The power object never misses that all batteries got critical.
NothingMissed ==
    /\ present = Devices /\ known = Devices
    /\ onBattery = ~acPlugged
    /\ onBattery => Devices # {}
    /\ Devices # {} /\ AllCritical => overallState = CRITICAL
    /\ onBattery /\ overallState = CRITICAL => onLowBattery
    /\ asking = 0

LEMMA NothingMissedInit ==
    ASSUME SteadyMachine, Init
    PROVE  NothingMissed
<1> USE PowerAssumption
<1>1. present = Devices /\ known = Devices /\ onBattery = ~acPlugged /\ asking = 0
  BY DEF SteadyMachine, Init
<1>2. onBattery => Devices # {} BY DEF Init
<1>3. Devices # {} => ~AllCritical
  <2> SUFFICES ASSUME NEW d \in Devices PROVE charge[d] # CRITICAL BY DEF AllCritical
  <2>1. percentage[d] \in Nat /\ criticalLevel \in Nat /\ percentage[d] > criticalLevel
    BY MachineFacts DEF Init, SteadyMachine
  <2>2. charge[d] = ChargeOf(percentage[d]) BY <1>1 DEF Init
  <2>3. ChargeOf(percentage[d]) # CRITICAL
    <3>1. CASE percentage[d] > criticalLevel + 10
      BY <2>1, <3>1 DEF ChargeOf, OK, LOW, CRITICAL
    <3>2. CASE percentage[d] <= criticalLevel + 10
      BY <2>1, <3>2 DEF ChargeOf, OK, LOW, CRITICAL
    <3> QED BY <2>1, <3>1, <3>2
  <2> QED BY <2>2, <2>3
<1>4. overallState # CRITICAL BY DEF Init, OK, CRITICAL
<1> QED BY <1>1, <1>2, <1>3, <1>4 DEF NothingMissed

\* A sleep does not see mains power change.
LEMMA SleepsUnchanged ==
    ASSUME SteadyMachine, onBattery = ~acPlugged, NoSleep \/ SleepAndWake
    PROVE  UNCHANGED <<acPlugged, onBattery>>
<1>1. CASE NoSleep BY <1>1 DEF NoSleep
<1>2. CASE SleepAndWake
  <2>1. acPlugged' = acPlugged BY <1>2 DEF SleepAndWake, SteadyMachine
  <2> QED BY <1>2, <2>1 DEF SleepAndWake, CheckPower
<1> QED BY <1>1, <1>2

LEMMA NothingMissedChange ==
    ASSUME SteadyMachine, TypeOK, NothingMissed, BatteryChargeChanged,
           charge' \in [Devices -> UNKNOWN..OK],
           \A d \in Devices : charge'[d] # UNKNOWN
    PROVE  /\ Devices # {} /\ AllCritical' => overallState' = CRITICAL
           /\ onBattery' /\ overallState' = CRITICAL => onLowBattery'
           /\ asking' = 0
           /\ UNCHANGED <<acPlugged, onBattery>>
<1>1. ASSUME Devices # {}, AllCritical' PROVE CurrentCharge = CRITICAL
  <2> DEFINE counted == {charge'[d] : d \in {e \in known : e \in Supplies \/ acOnline[e]}}
  <2>1. counted = {CRITICAL}
    BY <1>1 DEF NothingMissed, SteadyMachine, AllCritical
  <2>2. {UNKNOWN} \cup counted = {UNKNOWN, CRITICAL} BY <2>1
  <2>3. {UNKNOWN, CRITICAL} \in SUBSET (UNKNOWN..OK) BY DEF UNKNOWN, CRITICAL, OK
  <2> HIDE DEF counted
  <2>4. CurrentCharge = MaxOf({UNKNOWN, CRITICAL}) BY <2>2 DEF CurrentCharge, counted
  <2>5. /\ CurrentCharge \in {UNKNOWN, CRITICAL}
        /\ CRITICAL <= CurrentCharge
    BY <2>3, <2>4, MaxOfCharges
  <2> QED BY <2>5 DEF UNKNOWN, CRITICAL
<1>2. CASE CurrentCharge = overallState /\ UNCHANGED stateVars /\ NoSleep
  BY <1>1, <1>2 DEF NothingMissed, stateVars, NoSleep
<1>3. CASE overallState' = CurrentCharge /\ OnCritical(CurrentCharge)
  <2>1. CASE WarnOnCriticalPower
    BY <1>3, <2>1 DEF WarnOnCriticalPower, NoSleep, NothingMissed, OnCritical
  <2>2. CASE ActOnCriticalPower
    <3>1. DontAsk(criticalAction = "sleep")
      BY <2>2 DEF ActOnCriticalPower, AskFirst, SteadyMachine
    <3>2. NoSleep \/ SleepAndWake BY <3>1 DEF DontAsk
    <3>3. UNCHANGED <<acPlugged, onBattery>> BY <3>2, SleepsUnchanged DEF NothingMissed
    <3>4. overallState' = CRITICAL BY <1>3 DEF OnCritical
    <3>5. onLowBattery' = TRUE /\ asking' = 0 BY <3>1 DEF DontAsk, NothingMissed
    <3> QED BY <3>3, <3>4, <3>5
  <2> QED BY <1>3, <2>1, <2>2 DEF OnCritical
<1>4. CASE overallState' = CurrentCharge /\ OffCritical(CurrentCharge)
  BY <1>1, <1>4 DEF OffCritical, NoSleep, NothingMissed
<1> QED BY <1>2, <1>3, <1>4 DEF BatteryChargeChanged

LEMMA NothingMissedNext ==
    ASSUME SteadyMachine, TypeOK, NothingMissed, [Next]_vars
    PROVE  NothingMissed'
<1>1. ASSUME NEW d \in Devices, Refresh(d) PROVE NothingMissed'
  <2>1. /\ charge' \in [Devices -> UNKNOWN..OK]
        /\ \A e \in Devices : charge'[e] = UNKNOWN <=> e \notin known
    BY <1>1, RefreshCharge
  <2>2. present' = Devices /\ known' = Devices BY <1>1 DEF Refresh, NothingMissed
  <2>3. CASE BatteryChargeChanged
    <3>1. \A e \in Devices : charge'[e] # UNKNOWN BY <2>1 DEF NothingMissed
    <3>2. /\ Devices # {} /\ AllCritical' => overallState' = CRITICAL
          /\ onBattery' /\ overallState' = CRITICAL => onLowBattery'
          /\ asking' = 0
          /\ UNCHANGED <<acPlugged, onBattery>>
      BY <2>1, <2>3, <3>1, NothingMissedChange
    <3> QED BY <2>2, <3>2 DEF NothingMissed
  <2>4. CASE charge'[d] = charge[d] /\ UNCHANGED <<stateVars, acPlugged, onBattery, acOnline>>
    <3>1. charge' = charge BY <1>1, <2>1, <2>4 DEF Refresh, TypeOK
    <3> QED BY <2>2, <2>4, <3>1 DEF NothingMissed, AllCritical, stateVars
  <2> QED BY <1>1, <2>3, <2>4 DEF Refresh
<1>2. ASSUME NEW d \in Devices, DeviceAdded(d) \/ DeviceRemoved(d) \/ Leaves(d) PROVE FALSE
  BY <1>2 DEF DeviceAdded, DeviceRemoved, Leaves, NothingMissed, SteadyMachine
<1>3. ASSUME NEW d \in Devices, NEW p \in Percentages, Discharges(d, p) \/ Charges(d, p)
      PROVE  NothingMissed'
  BY <1>3 DEF Discharges, Charges, NothingMissed, AllCritical, daemonVars, batteryVars, stateVars
<1>4. ASSUME NEW d \in Devices, NEW p \in Percentages, Arrives(d, p) PROVE FALSE
  BY <1>4 DEF Arrives, SteadyMachine
<1>5. CASE PowerChanged
  BY <1>5 DEF PowerChanged, CheckPower, NothingMissed, AllCritical, upowerVars, stateVars
<1>6. CASE DialogClicked
  <2>1. NoSleep \/ SleepAndWake BY <1>6 DEF DialogClicked
  <2>2. UNCHANGED <<acPlugged, onBattery>> BY <2>1, SleepsUnchanged DEF NothingMissed
  <2> QED BY <1>6, <2>2 DEF DialogClicked, NothingMissed, AllCritical
<1>7. CASE LockAnswered BY <1>7 DEF LockAnswered, NothingMissed
<1>8. CASE PlugOrUnplug BY <1>8 DEF PlugOrUnplug, SteadyMachine
<1>9. CASE ConfigureAction \/ ConfigureLevel
  BY <1>9 DEF ConfigureAction, ConfigureLevel, NothingMissed, AllCritical, upowerVars,
       daemonVars, batteryVars, stateVars
<1>10. CASE UNCHANGED vars
  BY <1>10 DEF vars, NothingMissed, AllCritical, upowerVars, batteryVars, stateVars
<1> QED BY <1>1, <1>2, <1>3, <1>4, <1>5, <1>6, <1>7, <1>8, <1>9, <1>10 DEF Next

\* On a steady machine, once the daemon has caught up with UPower, batteries that are
\* all critical on battery have been dealt with.  The run power_unplugged shows that
\* the theorem needs mains power to stay as it was.
THEOREM SteadyAlwaysHandled == Spec => []SteadyIsHandled
<1> DEFINE Inv == SteadyMachine => NothingMissed
<1>1. Init => Inv BY NothingMissedInit
<1>2. TypeOK /\ Inv /\ [Next]_vars => Inv'
  <2> SUFFICES ASSUME TypeOK, Inv, [Next]_vars, SteadyMachine' PROVE NothingMissed' OBVIOUS
  <2>1. SteadyMachine
    <3>1. UNCHANGED machine BY DEF Next, vars
    <3> QED BY <3>1 DEF SteadyMachine, Supplies
  <2> QED BY <2>1, NothingMissedNext
<1>3. Inv => SteadyIsHandled
  BY DEF NothingMissed, SteadyIsHandled, CriticalIsHandled, AllCritical, SteadyMachine
<1> QED BY <1>1, <1>2, <1>3, TypeCorrect, PTL DEF Spec
-----------------------------------------------------------------------------
(* One action for each stretch of critical power. *)

FixedLevel == Devices = Supplies /\ machine.levels = {criticalLevel}

\* Devices with charge that the daemon will find: it does not know them, or
\* takes them for critical.
Surprises == {d \in present : ChargeOf(percentage[d]) # CRITICAL /\ charge[d] <= CRITICAL}

Charged == {d \in Devices : charge[d] > CRITICAL}

\* Every action was paid for by a chance, but the one of the stretch that has not
\* ended yet; and every surprise by a chance of its own.
PaidFor ==
    /\ IsFiniteSet(Surprises)
    /\ actions + Cardinality(Surprises) <= chances + (IF actionDone /\ Charged = {} THEN 1 ELSE 0)

(* Sizes of sets that lose or gain an element. *)
LEMMA FewerElements ==
    ASSUME NEW S, NEW T, IsFiniteSet(S), T \subseteq S
    PROVE  /\ IsFiniteSet(T) /\ Cardinality(T) \in Nat /\ Cardinality(S) \in Nat
           /\ Cardinality(T) <= Cardinality(S)
BY FS_Subset, FS_CardinalityType

LEMMA OneFewer ==
    ASSUME NEW S, NEW T, NEW d \in S, IsFiniteSet(S), T \subseteq S \ {d}
    PROVE  /\ IsFiniteSet(T) /\ Cardinality(T) \in Nat /\ Cardinality(S) \in Nat
           /\ Cardinality(T) + 1 <= Cardinality(S)
<1>1. IsFiniteSet(S \ {d}) /\ Cardinality(S \ {d}) = Cardinality(S) - 1
  BY FS_RemoveElement
<1>2. IsFiniteSet(T) /\ Cardinality(T) \in Nat /\ Cardinality(T) <= Cardinality(S \ {d})
  BY <1>1, FewerElements
<1>3. Cardinality(S) \in Nat BY FS_CardinalityType
<1> QED BY <1>1, <1>2, <1>3

LEMMA OneMore ==
    ASSUME NEW S, NEW T, NEW d, IsFiniteSet(S), T \subseteq S \cup {d}
    PROVE  /\ IsFiniteSet(T) /\ Cardinality(T) \in Nat /\ Cardinality(S) \in Nat
           /\ Cardinality(T) <= Cardinality(S) + 1
<1>1. /\ IsFiniteSet(S \cup {d})
      /\ \/ Cardinality(S \cup {d}) = Cardinality(S)
         \/ Cardinality(S \cup {d}) = Cardinality(S) + 1
  BY FS_AddElement
<1>2. IsFiniteSet(T) /\ Cardinality(T) \in Nat /\ Cardinality(T) <= Cardinality(S \cup {d})
  BY <1>1, FewerElements
<1>3. Cardinality(S) \in Nat BY FS_CardinalityType
<1> QED BY <1>1, <1>2, <1>3

LEMMA NotCritical ==
    ASSUME NEW p \in Nat, criticalLevel \in Nat
    PROVE  ChargeOf(p) # CRITICAL <=> p > criticalLevel
<1>1. CASE p > criticalLevel + 10 BY <1>1 DEF ChargeOf, OK, LOW, CRITICAL
<1>2. CASE p > criticalLevel /\ p <= criticalLevel + 10 BY <1>2 DEF ChargeOf, OK, LOW, CRITICAL
<1>3. CASE p <= criticalLevel BY <1>3 DEF ChargeOf, OK, LOW, CRITICAL
<1> QED BY <1>1, <1>2, <1>3

LEMMA PaidForInit == Init /\ FixedLevel => PaidFor
<1> SUFFICES ASSUME Init PROVE PaidFor OBVIOUS
<1>1. ASSUME NEW d \in present PROVE d \notin Surprises
  <2>1. percentage[d] \in Nat /\ criticalLevel \in Nat
    BY PowerAssumption, MachineFacts DEF Init
  <2>2. charge[d] = ChargeOf(percentage[d]) BY DEF Init
  <2>3. ChargeOf(percentage[d]) \in CRITICAL..OK BY <2>1, ChargeOfType
  <2> QED BY <2>2, <2>3 DEF Surprises, CRITICAL, OK
<1>2. Surprises = {} BY <1>1 DEF Surprises
<1> QED BY <1>2, FS_EmptySet DEF PaidFor, Init

(* When a device is read: what is new about it was a surprise. *)
LEMMA ReadsSurprise ==
    ASSUME TypeOK, NEW d \in present, UNCHANGED <<present, percentage, criticalLevel>>,
           charge' = [charge EXCEPT ![d] = ChargeOf(percentage[d])]
    PROVE  \/ Surprises' \subseteq Surprises /\ (Charged = {} => Charged' = {})
           \/ d \in Surprises /\ Surprises' \subseteq Surprises \ {d}
<1>1. percentage[d] \in Nat /\ criticalLevel \in Nat /\ d \in Devices
  BY PowerAssumption, MachineFacts DEF TypeOK
<1>2. ChargeOf(percentage[d]) \in CRITICAL..OK BY <1>1, ChargeOfType
<1>3. charge \in [Devices -> UNKNOWN..OK] BY DEF TypeOK
<1>4. /\ charge'[d] = ChargeOf(percentage[d])
      /\ \A e \in Devices : e # d => charge'[e] = charge[e]
  BY <1>1, <1>3
<1>5. \A p : ChargeOf(p)' = ChargeOf(p) BY DEF ChargeOf
<1>6. d \notin Surprises' BY <1>2, <1>4, <1>5 DEF Surprises, CRITICAL, OK
<1>7. Surprises' \subseteq Surprises
  BY <1>4, <1>5, <1>6 DEF Surprises, TypeOK
<1>8. CASE d \in Surprises BY <1>6, <1>7, <1>8
<1>9. CASE d \notin Surprises
  <2>1. ASSUME Charged = {} PROVE Charged' = {}
    <3>1. charge[d] <= CRITICAL BY <1>1, <1>3, <2>1 DEF Charged, UNKNOWN, CRITICAL, OK
    <3>2. ChargeOf(percentage[d]) = CRITICAL BY <1>9, <3>1 DEF Surprises
    <3> QED BY <1>4, <2>1, <3>2 DEF Charged, CRITICAL
  <2> QED BY <1>7, <2>1
<1> QED BY <1>8, <1>9

(* The overall state and what was charged. *)
LEMMA CurrentIsCharged ==
    ASSUME charge' \in [Devices -> UNKNOWN..OK], known \subseteq Devices, Devices = Supplies,
           \A d \in Devices : charge'[d] = UNKNOWN <=> d \notin known
    PROVE  /\ CurrentCharge = CRITICAL => Charged' = {}
           /\ ~(CurrentCharge < LOW) => Charged' # {}
<1>1. /\ CurrentCharge \in UNKNOWN..OK
      /\ \A d \in known \cap Supplies : charge'[d] <= CurrentCharge
  BY CurrentChargeBounds
<1>2. ASSUME CurrentCharge = CRITICAL PROVE Charged' = {}
  BY <1>1, <1>2 DEF Charged, UNKNOWN, CRITICAL, OK
<1>3. ASSUME ~(CurrentCharge < LOW) PROVE Charged' # {}
  <2> DEFINE counted == {charge'[d] : d \in {e \in known : e \in Supplies \/ acOnline[e]}}
  <2>1. {UNKNOWN} \cup counted \in SUBSET (UNKNOWN..OK)
    <3>1. UNKNOWN \in UNKNOWN..OK BY DEF UNKNOWN, OK
    <3> QED BY <3>1
  <2>2. CurrentCharge = MaxOf({UNKNOWN} \cup counted) BY DEF CurrentCharge
  <2>3. CurrentCharge \in {UNKNOWN} \cup counted
    <3> HIDE DEF counted
    <3> QED BY <2>1, <2>2, MaxOfCharges
  <2>4. CurrentCharge # UNKNOWN BY <1>3 DEF UNKNOWN, LOW
  <2>5. PICK d \in known : CurrentCharge = charge'[d] BY <2>3, <2>4
  <2>6. d \in Devices /\ charge'[d] > CRITICAL
    BY <1>1, <1>3, <2>5 DEF UNKNOWN, CRITICAL, LOW, OK
  <2> QED BY <2>6 DEF Charged
<1> QED BY <1>2, <1>3

LEMMA PaidForNext ==
    ASSUME TypeOK, TypeOK', FixedLevel, PaidFor, [Next]_vars, UNCHANGED <<machine, criticalLevel>>
    PROVE  PaidFor'
<1> DEFINE credit == IF actionDone /\ Charged = {} THEN 1 ELSE 0
<1>0. /\ actions \in Nat /\ chances \in Nat /\ actions' \in Nat /\ chances' \in Nat
      /\ actionDone \in BOOLEAN /\ actionDone' \in BOOLEAN
  BY PowerAssumption DEF TypeOK
<1>00. /\ IsFiniteSet(Surprises) /\ Cardinality(Surprises) \in Nat
       /\ actions + Cardinality(Surprises) <= chances + credit
  BY FewerElements DEF PaidFor
<1>1. \A p : ChargeOf(p)' = ChargeOf(p) BY DEF ChargeOf
<1>2. criticalLevel \in Nat /\ percentage \in [Devices -> Nat] /\ percentage' \in [Devices -> Nat]
  BY PowerAssumption, MachineFacts DEF TypeOK
\* Nothing of this changes but surprises may go, or charges with nothing new.
<1>3. ASSUME Surprises' \subseteq Surprises, Charged = {} => Charged' = {},
             UNCHANGED <<actions, actionDone, chances>>
      PROVE  PaidFor'
  <2>1. /\ IsFiniteSet(Surprises') /\ Cardinality(Surprises') \in Nat
        /\ Cardinality(Surprises') <= Cardinality(Surprises)
    BY <1>00, <1>3, FewerElements
  <2> QED BY <1>0, <1>00, <1>3, <2>1 DEF PaidFor
<1>4. ASSUME NEW d \in Surprises, Surprises' \subseteq Surprises \ {d},
             UNCHANGED <<actions, actionDone, chances>>
      PROVE  PaidFor'
  <2>1. /\ IsFiniteSet(Surprises') /\ Cardinality(Surprises') \in Nat
        /\ Cardinality(Surprises') + 1 <= Cardinality(Surprises)
    BY <1>00, <1>4, OneFewer
  <2> QED BY <1>0, <1>00, <1>4, <2>1 DEF PaidFor
<1>5. ASSUME NEW d \in Devices, Refresh(d) PROVE PaidFor'
  <2>1. /\ d \in present /\ UNCHANGED <<present, percentage, chances>>
        /\ charge' = [charge EXCEPT ![d] = ChargeOf(percentage[d])]
    BY <1>5 DEF Refresh
  <2>2. \/ Surprises' \subseteq Surprises /\ (Charged = {} => Charged' = {})
        \/ d \in Surprises /\ Surprises' \subseteq Surprises \ {d}
    BY <2>1, ReadsSurprise
  <2>3. CASE UNCHANGED stateVars
    BY <1>3, <1>4, <2>1, <2>2, <2>3 DEF stateVars
  <2>4. CASE BatteryChargeChanged
    <3>1. /\ charge' \in [Devices -> UNKNOWN..OK]
          /\ \A e \in Devices : charge'[e] = UNKNOWN <=> e \notin known
      BY <1>5, RefreshCharge
    <3>2. /\ CurrentCharge = CRITICAL => Charged' = {}
          /\ ~(CurrentCharge < LOW) => Charged' # {}
      BY <3>1, CurrentIsCharged DEF TypeOK, FixedLevel
    <3>3. /\ IsFiniteSet(Surprises') /\ Cardinality(Surprises') \in Nat
          /\ \/ /\ Cardinality(Surprises') <= Cardinality(Surprises)
                /\ Charged = {} => Charged' = {}
             \/ Cardinality(Surprises') + 1 <= Cardinality(Surprises)
      BY <1>00, <2>2, FewerElements, OneFewer
    <3>4. CASE UNCHANGED stateVars
      BY <1>3, <1>4, <2>1, <2>2, <3>4 DEF stateVars
    <3>5. CASE OnCritical(CurrentCharge)
      <4>1. Charged' = {} BY <3>2, <3>5 DEF OnCritical
      <4>2. CASE UNCHANGED <<actions, actionDone>>
        BY <1>0, <1>00, <2>1, <3>3, <4>1, <4>2 DEF PaidFor
      <4>3. CASE ActOnCriticalPower
        <5>1. ~actionDone /\ actionDone' /\ actions' = actions + 1
          BY <4>3 DEF ActOnCriticalPower
        <5>2. actions + Cardinality(Surprises) <= chances BY <1>0, <1>00, <5>1
        <5>3. Cardinality(Surprises') <= Cardinality(Surprises) BY <1>00, <3>3
        <5>4. actions' + Cardinality(Surprises') <= chances' + 1
          BY <1>0, <1>00, <2>1, <3>3, <5>1, <5>2, <5>3
        <5> QED BY <3>3, <4>1, <5>1, <5>4 DEF PaidFor
      <4> QED BY <3>5, <4>2, <4>3 DEF OnCritical, WarnOnCriticalPower
    <3>6. CASE OffCritical(CurrentCharge)
      <4>1. /\ actions' = actions
            /\ actionDone' = (actionDone /\ CurrentCharge < LOW)
        BY <3>6 DEF OffCritical
      <4>2. CASE actionDone' = actionDone
        BY <1>3, <1>4, <2>1, <2>2, <4>1, <4>2
      <4>3. CASE actionDone' # actionDone
        <5>1. Charged' # {} /\ ~actionDone' BY <1>0, <3>2, <4>1, <4>3
        <5>2. actions' + Cardinality(Surprises') <= chances'
          BY <1>0, <1>00, <2>1, <3>3, <4>1, <5>1
        <5> QED BY <1>0, <3>3, <5>1, <5>2 DEF PaidFor
      <4> QED BY <4>2, <4>3
    <3> QED BY <2>4, <3>4, <3>5, <3>6 DEF BatteryChargeChanged
  <2> QED BY <1>5, <2>3, <2>4 DEF Refresh
<1>6. ASSUME NEW d \in Devices, DeviceAdded(d) PROVE PaidFor'
  <2>1. /\ d \in present /\ UNCHANGED <<present, percentage, chances, actions, actionDone>>
        /\ charge' = [charge EXCEPT ![d] = ChargeOf(percentage[d])]
    BY <1>6 DEF DeviceAdded, upowerVars, stateVars
  <2> QED BY <1>3, <1>4, <2>1, ReadsSurprise
<1>7. ASSUME NEW d \in Devices, DeviceRemoved(d) PROVE PaidFor'
  <2>1. /\ d \notin present /\ UNCHANGED <<present, percentage, chances, actions, actionDone>>
        /\ charge' = [charge EXCEPT ![d] = UNKNOWN] /\ charge \in [Devices -> UNKNOWN..OK]
    BY <1>7 DEF DeviceRemoved, upowerVars, stateVars, TypeOK
  <2>2. /\ charge'[d] = UNKNOWN
        /\ \A e \in Devices : e # d => charge'[e] = charge[e]
    BY <2>1
  <2>3. Surprises' \subseteq Surprises BY <1>1, <2>1, <2>2 DEF Surprises, TypeOK
  <2>4. Charged = {} => Charged' = {} BY <2>2 DEF Charged, UNKNOWN, CRITICAL
  <2> QED BY <1>3, <2>1, <2>3, <2>4
<1>8. ASSUME NEW d \in Devices, Leaves(d) PROVE PaidFor'
  <2>1. /\ present' \subseteq present
        /\ UNCHANGED <<percentage, charge, chances, actions, actionDone>>
    BY <1>8 DEF Leaves, daemonVars, batteryVars, stateVars
  <2>2. Surprises' \subseteq Surprises /\ Charged' = Charged
    BY <1>1, <2>1 DEF Surprises, Charged
  <2> QED BY <1>3, <2>1, <2>2
<1>9. ASSUME NEW d \in Devices, NEW p \in Percentages, Discharges(d, p) PROVE PaidFor'
  <2>1. /\ UNCHANGED <<present, charge, chances, actions, actionDone>>
        /\ percentage' = [percentage EXCEPT ![d] = p] /\ p < percentage[d]
    BY <1>9 DEF Discharges, daemonVars, batteryVars, stateVars
  <2>2. ASSUME NEW e \in present, ChargeOf(percentage'[e]) # CRITICAL
        PROVE  ChargeOf(percentage[e]) # CRITICAL
    <3>1. e \in Devices BY DEF TypeOK
    <3>2. percentage'[e] \in Nat /\ percentage[e] \in Nat /\ percentage'[e] <= percentage[e]
      BY <1>2, <2>1, <3>1
    <3>3. percentage'[e] > criticalLevel BY <1>2, <2>2, <3>2, NotCritical
    <3>4. percentage[e] > criticalLevel BY <1>2, <3>2, <3>3
    <3> QED BY <1>2, <3>2, <3>4, NotCritical
  <2>3. Surprises' \subseteq Surprises /\ Charged' = Charged
    BY <1>1, <2>1, <2>2 DEF Surprises, Charged
  <2> QED BY <1>3, <2>1, <2>3
<1>10. ASSUME NEW d \in Devices, NEW p \in Percentages, Charges(d, p) \/ Arrives(d, p)
       PROVE  PaidFor'
  <2>1. /\ UNCHANGED <<charge, actions, actionDone>> /\ chances' = chances + 1
        /\ present' \subseteq present \cup {d}
        /\ percentage' = [percentage EXCEPT ![d] = p]
    BY <1>10 DEF Charges, Arrives, daemonVars, batteryVars, stateVars
  <2>2. \A e \in Devices : e # d => percentage'[e] = percentage[e] BY <1>2, <2>1
  <2>3. present' \subseteq Devices BY DEF TypeOK
  <2>4. Surprises' \subseteq Surprises \cup {d}
    BY <1>1, <2>1, <2>2, <2>3 DEF Surprises
  <2>5. /\ IsFiniteSet(Surprises') /\ Cardinality(Surprises') \in Nat
        /\ Cardinality(Surprises') <= Cardinality(Surprises) + 1
    BY <1>00, <2>4, OneMore
  <2>6. Charged' = Charged BY <2>1 DEF Charged
  <2> QED BY <1>0, <1>00, <2>1, <2>5, <2>6 DEF PaidFor
<1>11. CASE UNCHANGED <<present, percentage, charge, chances, actions, actionDone>>
  BY <1>1, <1>3, <1>11 DEF Surprises, Charged
<1>12. CASE PowerChanged \/ DialogClicked \/ LockAnswered \/ PlugOrUnplug \/ ConfigureAction
            \/ UNCHANGED vars
  BY <1>11, <1>12 DEF PowerChanged, DialogClicked, LockAnswered, PlugOrUnplug, ConfigureAction,
       upowerVars, stateVars, daemonVars, batteryVars, vars
<1>13. CASE ConfigureLevel BY <1>13 DEF ConfigureLevel, TypeOK, FixedLevel
<1> QED
  BY <1>5, <1>6, <1>7, <1>8, <1>9, <1>10, <1>12, <1>13 DEF Next

\* With batteries only and one critical level, each critical action but one was paid
\* for by a charge that rose or a battery that arrived, for any number of batteries
\* and any order of the callbacks.
THEOREM OneActionInEpisode == Spec => []OneActionPerEpisode
<1> DEFINE Inv == FixedLevel => PaidFor
<1>1. Init => Inv BY PaidForInit
<1>2. TypeOK /\ TypeOK' /\ Inv /\ [Next]_vars => Inv'
  <2> SUFFICES ASSUME TypeOK, TypeOK', Inv, [Next]_vars, FixedLevel' PROVE PaidFor' OBVIOUS
  <2>1. UNCHANGED machine BY DEF Next, vars
  <2>2. UNCHANGED criticalLevel BY <2>1 DEF FixedLevel, TypeOK
  <2>3. FixedLevel BY <2>1, <2>2 DEF FixedLevel, Supplies
  <2> QED BY <2>1, <2>2, <2>3, PaidForNext
<1>3. TypeOK /\ Inv => OneActionPerEpisode
  <2> SUFFICES ASSUME TypeOK, PaidFor PROVE actions <= chances + 1
    BY DEF OneActionPerEpisode, FixedLevel
  <2>1. Cardinality(Surprises) \in Nat BY FS_CardinalityType DEF PaidFor
  <2>2. actions \in Nat /\ chances \in Nat BY PowerAssumption DEF TypeOK
  <2> QED BY <2>1, <2>2 DEF PaidFor
<1> QED BY <1>1, <1>2, <1>3, TypeCorrect, PTL DEF Spec
=============================================================================
