---------------------------- MODULE SettingsProofs ----------------------------
(***************************************************************************)
(* The settings, from the dialog's sliders to the X server's timeouts, for *)
(* every machine, everything that may be stored on it and every drag.      *)
(*                                                                         *)
(* The sliders move each other in nested handlers; the inductive invariant *)
(* says of each handler that runs what it has done so far to the sliders   *)
(* it was called with, and bounds how many may run inside each other.      *)
(* What the X server is told of the display's settings comes at the end.   *)
(***************************************************************************)
EXTENDS Settings, Display, SequenceTheorems, TLAPS
-----------------------------------------------------------------------------
(* Types. *)

\* What a widget shows; a combo without a choice shows none.
Values(k) ==
    CASE k \in Sliders \cup Ranges -> Low(k)..High(k)
      [] k \in Toggles -> {0, 1}
      [] OTHER -> Unset..DoShutdown
Chosen(k) == Values(k) \ {Unset}

\* What is left to do of a handler.
Todos(k) ==
    CASE k = "blank" -> {<<"sleep", "dim", "bind">>, <<"dim", "bind">>, <<"bind">>, <<>>}
      [] k = "sleep" -> {<<"off", "blank", "dim", "store">>, <<"blank", "dim", "store">>,
                         <<"dim", "store">>, <<"store">>, <<>>}
      [] k \in {"off", "dim"} -> {<<"sleep", "store">>, <<"store">>, <<>>}
      [] k \in Lids -> {<<"store", "logind">>, <<"logind">>, <<>>}
      [] k = "lock" ->
            IF HasLocker
            THEN {<<"session", "store", "locker", "logind">>, <<"store", "locker", "logind">>,
                  <<"locker", "logind">>, <<"logind">>, <<>>}
            ELSE {<<"session", "store">>, <<"store">>, <<>>}
      [] k = "handle-keys" -> {<<"store", "switch">>, <<"switch">>, <<>>}
      [] OTHER -> {<<"store">>, <<>>}

AnyTodo == UNION {Todos(k) : k \in Widgets}

SliderReads == {r \in [Sliders -> Nat] : \A k \in Sliders : r[k] \in Low(k)..High(k)}
SliderFrames ==
    {f \in [key : Sliders, read : SliderReads, todo : AnyTodo] : f.todo \in Todos(f.key)}
OtherFrames ==
    {f \in [key : Widgets \ Sliders, read : UNION {[{k} -> Chosen(k)] : k \in Widgets},
            todo : AnyTodo] :
        f.read \in [{f.key} -> Chosen(f.key)] /\ f.todo \in Todos(f.key)}

\* Only sliders move each other.
StackTyped ==
    stack \in Seq(SliderFrames) \/ (stack \in Seq(OtherFrames) /\ Len(stack) = 1)

Notices ==
    {n \in [key : Keys \cup {"session"}, value : Nat \cup {Unset}] :
        n.key = "session" => n.value \in {0, 1}}

StoreTypes == channel \in Storable /\ session \in {Unset, 0, 1}
InboxTypes == inbox \in Seq(Notices) /\ running \in BOOLEAN /\ (~running => inbox = <<>>)
DaemonTypes == conf \in [Keys -> Nat] /\ \A k \in Keys : conf[k] \in Accepts(k)
DialogTypes ==
    /\ dialog \in BOOLEAN
    /\ shown \in [Widgets -> Unset..360]
    /\ dialog => \A k \in Widgets : shown[k] \in Values(k)
    /\ StackTyped /\ (~dialog => stack = <<>>)
LockerTypes ==
    /\ locker \in [late : BOOLEAN, onSuspend : {0, 1}, after : Nat]
    /\ lockerShown \in [auto : 0..2, delay : 1..120]
Types ==
    world \in Worlds /\ StoreTypes /\ InboxTypes /\ DaemonTypes /\ DialogTypes /\ LockerTypes

-----------------------------------------------------------------------------
(* The daemon's copy. *)

\* c: what the channel has.  q: the notifications on their way.  f: the daemon's copy.
\* The last notification of a setting has its present value.
Told(c, q) ==
    \A k \in Keys : \A i \in 1..Len(q) :
        q[i].key = k /\ (\A j \in (i + 1)..Len(q) : q[j].key # k) => q[i].value = c[k]

\* Without one the daemon has the value, or has refused it.
Silent(q, k) == \A i \in 1..Len(q) : q[i].key # k
Heard(c, q, f) ==
    \A k \in Keys \ {"brightness-switch"} : Silent(q, k) => c[k] \notin Accepts(k) \/ f[k] = c[k]

\* A setting that was never made has its default.
Defaulted(c, q, f) == \A k \in Keys : c[k] = Unset => Silent(q, k) /\ f[k] = Default(k)

DaemonInv ==
    running =>
        /\ Told(channel, inbox) /\ Heard(channel, inbox, conf)
        /\ "reset" \notin world.others => Defaulted(channel, inbox, conf)

-----------------------------------------------------------------------------
(* The lid switch. *)

LidAlone ==
    /\ HasLocker /\ world.others \cap {"session", "reset"} = {}
    /\ world.stored["logind-lid"] = Unset

Deciding == stack # <<>> /\ Top.key \in Lids \cup {"lock"} /\ Top.todo # <<>>
Decided == ~Deciding /\ channel["logind-lid"] # Unset => (channel["logind-lid"] = 1 <=> LogindHandlesLid)

\* The session's notification comes from the dialog, which stores the same for the daemon.
Notified ==
    \A i \in 1..Len(inbox) : inbox[i].key = "session" =>
        IF stack = <<>> THEN channel["lock"] = inbox[i].value
        ELSE /\ Top.key = "lock" /\ Top.read["lock"] = inbox[i].value
             /\ Len(Top.todo) <= 3
             /\ Len(Top.todo) <= 2 => channel["lock"] = inbox[i].value
LockStored == stack # <<>> /\ Top.key = "lock" /\ Len(Top.todo) <= 2 => channel["lock"] = Top.read["lock"]
LidInv == LidAlone => Decided /\ Notified /\ LockStored

-----------------------------------------------------------------------------
(* The sliders. *)

Same(v, r) == \A k \in Sliders : v[k] = r[k]
Least(a, b) == IF a < b THEN a ELSE b
Below(a) == IF a = 0 THEN 0 ELSE a - 1

\* The order of the times, except at the very end of the sliders.
SleepsBeforeOff(v) ==
    v["sleep"] # 0 /\ v["off"] # 0 =>
        v["sleep"] < v["off"] \/ (v["sleep"] = 60 /\ v["off"] = 60)
BlanksBeforeSleep(v) ==
    v["sleep"] # 0 => v["blank"] < v["sleep"] \/ (v["blank"] = 60 /\ v["sleep"] = 60)
DimsBeforeSleep(v) ==
    world.lcd /\ v["sleep"] # 0 /\ v["dim"] # BrightnessDisabled => v["dim"] < 60 * v["sleep"]
Ordered(v) == SleepsBeforeOff(v) /\ BlanksBeforeSleep(v) /\ DimsBeforeSleep(v)

\* What a handler that read r has made of the sliders, v, when n of its steps are left.
Pushed(r, v) == r["sleep"] = 60 /\ v["sleep"] = 59 /\ v["off"] = 60
BlankSoFar(n, r, v) ==
    /\ n = 3 => Same(v, r)
    /\ n <= 2 =>
        /\ IF r["sleep"] = 0 \/ r["blank"] < r["sleep"]
           THEN /\ v["blank"] = r["blank"] /\ v["sleep"] = r["sleep"] /\ v["off"] = r["off"]
                /\ v["dim"] \in {r["dim"], BrightnessDisabled}
           ELSE \/ v["sleep"] = Least(r["blank"] + 1, 60)
                \/ r["blank"] >= 59 /\ v["sleep"] = 59 /\ v["off"] = 60
        /\ BlanksBeforeSleep(v)
        /\ SleepsBeforeOff(r) => SleepsBeforeOff(v)
        /\ DimsBeforeSleep(r) => DimsBeforeSleep(v)
SleepSoFar(n, r, v) ==
    /\ n = 4 => Same(v, r)
    /\ n <= 3 =>
        /\ v["sleep"] = r["sleep"] \/ Pushed(r, v)
        /\ r["off"] = 0 \/ r["off"] > r["sleep"] => v["off"] = r["off"]
        /\ SleepsBeforeOff(v)
        /\ (v["blank"] = r["blank"] /\ v["sleep"] = r["sleep"]) \/ n <= 2 \/ BlanksBeforeSleep(v)
        /\ r["blank"] < r["sleep"] /\ r["sleep"] < 60 /\ DimsBeforeSleep(r) => v["dim"] = r["dim"]
    /\ n <= 2 => BlanksBeforeSleep(v)
    /\ n <= 1 => DimsBeforeSleep(v)
OffSoFar(n, r, v) ==
    /\ n = 2 => Same(v, r)
    /\ n <= 1 =>
        /\ v["off"] = r["off"]
        /\ IF r["sleep"] = 0 \/ r["off"] > r["sleep"] THEN Same(v, r)
           ELSE v["sleep"] = Below(r["off"]) /\ Ordered(v)
DimSoFar(n, r, v) ==
    /\ n = 2 => Same(v, r)
    /\ n <= 1 =>
        IF r["dim"] = BrightnessDisabled \/ r["sleep"] = 0 \/ r["sleep"] * 60 > r["dim"]
        THEN Same(v, r)
        ELSE Ordered(v) /\ (r["blank"] < r["sleep"] => v["dim"] = r["dim"])
SoFar(f, v) ==
    CASE f.key = "blank" -> BlankSoFar(Len(f.todo), f.read, v)
      [] f.key = "sleep" -> SleepSoFar(Len(f.todo), f.read, v)
      [] f.key = "off" -> OffSoFar(Len(f.todo), f.read, v)
      [] f.key = "dim" -> DimSoFar(Len(f.todo), f.read, v)

\* g waits for f, which it called by moving a slider.
But(k, e, r) == \A j \in Sliders \ {k} : e[j] = r[j]
Waits(g, f) ==
    LET r == g.read  e == f.read  n == Len(g.todo) IN
    \/ /\ g.key = "blank" /\ f.key = "sleep" /\ n = 2
       /\ r["sleep"] # 0 /\ r["blank"] >= r["sleep"]
       /\ e["sleep"] = Least(r["blank"] + 1, 60) /\ But("sleep", e, r)
    \/ /\ g.key = "sleep" /\ f.key = "off" /\ n = 3
       /\ r["off"] # 0 /\ r["sleep"] >= r["off"]
       /\ e["off"] = Least(r["sleep"] + 1, 60) /\ But("off", e, r)
    \/ /\ g.key = "off" /\ f.key = "sleep" /\ n = 1
       /\ r["sleep"] # 0 /\ r["off"] <= r["sleep"]
       /\ e["sleep"] = Below(r["off"]) /\ But("sleep", e, r)
    \/ /\ g.key = "dim" /\ f.key = "sleep" /\ n = 1
       /\ r["dim"] # BrightnessDisabled /\ r["sleep"] # 0 /\ r["sleep"] * 60 <= r["dim"]
       /\ e["sleep"] = (r["dim"] \div 60) + 1 /\ But("sleep", e, r)
    \/ /\ g.key = "sleep" /\ f.key = "blank" /\ n = 2
       /\ r["blank"] # 0 /\ r["blank"] >= r["sleep"]
       /\ e["blank"] = Below(r["sleep"])
       /\ e["sleep"] = r["sleep"] \/ Pushed(r, e)
       /\ r["off"] = 0 \/ r["off"] > r["sleep"] => e["off"] = r["off"]
       /\ SleepsBeforeOff(e)
    \/ /\ g.key \in {"blank", "sleep"} /\ f.key = "dim" /\ e["dim"] = BrightnessDisabled
       /\ SoFar(g, e)

\* How many handlers a handler may still have inside it.
DimHeight(r) == IF r["dim"] = BrightnessDisabled THEN 0 ELSE 3
OffHeight(r) ==
    IF r["sleep"] = 0 \/ r["off"] > r["sleep"] THEN 0 ELSE IF r["off"] = 60 THEN 2 ELSE 3
SleepHeight(r) ==
    IF r["sleep"] < 59 THEN 2 ELSE IF r["sleep"] = 59 THEN 1
    ELSE IF r["off"] # 60 THEN 3 ELSE IF r["blank"] < 60 THEN 0 ELSE 2
BlankHeight(r) ==
    IF r["sleep"] = 0 \/ r["blank"] < r["sleep"] THEN (IF r["blank"] <= 2 THEN 1 ELSE 0)
    ELSE IF r["blank"] = 59 /\ r["sleep"] = 59 /\ r["off"] = 60 THEN 1 ELSE 4
Height(f) ==
    CASE f.key = "dim" -> DimHeight(f.read)
      [] f.key = "off" -> OffHeight(f.read)
      [] f.key = "sleep" -> SleepHeight(f.read)
      [] f.key = "blank" -> BlankHeight(f.read)

\* q: the handlers.  v: the sliders.
NestedIn(q, v) ==
    q # <<>> /\ q[1].key \in Sliders =>
        /\ SoFar(q[1], v)
        /\ \A i \in 2..Len(q) : Waits(q[i], q[i - 1])
        /\ \A i \in 1..Len(q) : Height(q[i]) + (Len(q) - i) <= 4
Nested == NestedIn(stack, shown)

\* c: what the channel has.  A setting is on its way from the dialog to the channel.
Pending(q, k) == \E i \in 1..Len(q) : q[i].key = k /\ q[i].todo # <<>>
Applied(c, v, q, k) == v[k] = c[k] \/ Pending(q, k)
AtLast(c, v) == c["sleep"] = 60 /\ v["sleep"] = 59 /\ v["off"] = 60
OffMoved(q) ==
    /\ Len(q) = 1 /\ q[1].key = "off" /\ Len(q[1].todo) = 2
    /\ q[1].read["off"] < 60 /\ q[1].read["sleep"] = 59
Fits(c, k) == c[k] \in Low(k)..High(k)
AppliedIn(c, v, q) ==
    /\ Fits(c, "blank") => Applied(c, v, q, "blank")
    /\ Fits(c, "off") => Applied(c, v, q, "off")
    /\ Fits(c, "sleep") => Applied(c, v, q, "sleep") \/ AtLast(c, v) \/ OffMoved(q)
AppliedInv ==
    dialog =>
        /\ AppliedIn(channel, shown, stack)
        /\ Orderly /\ world.lcd => Applied(channel, shown, stack, "dim")

\* What the outermost handler has read was in order but for its own slider.
BottomIn(q) ==
    q # <<>> =>
        LET k == q[Len(q)].key  r == q[Len(q)].read IN
        /\ k = "blank" => SleepsBeforeOff(r) /\ DimsBeforeSleep(r)
        /\ k = "off" => BlanksBeforeSleep(r) /\ DimsBeforeSleep(r)
        /\ k = "dim" => BlanksBeforeSleep(r) /\ SleepsBeforeOff(r)
OrderIn(c, v, q, d) ==
    /\ \A k \in Sliders : Fits(c, k)
    /\ ~d => Ordered(c)
    /\ d /\ (q = <<>> \/ q[1].key \notin Sliders) => Ordered(v)
    /\ BottomIn(q)
OrderInv == Orderly => OrderIn(channel, shown, stack, dialog)

-----------------------------------------------------------------------------
(* Sequences. *)

LEMMA TailOf ==
    ASSUME NEW S, NEW q \in Seq(S), q # <<>>
    PROVE  /\ Tail(q) \in Seq(S) /\ Len(q) \in Nat \ {0} /\ Len(Tail(q)) = Len(q) - 1
           /\ Head(q) \in S /\ Head(q) = q[1] /\ 1 \in 1..Len(q)
           /\ \A i \in 1..Len(Tail(q)) : i + 1 \in 1..Len(q) /\ Tail(q)[i] = q[i + 1]
  OBVIOUS

LEMMA NotEmpty == ASSUME NEW q, Len(q) # 0 PROVE q # <<>>
  OBVIOUS

LEMMA AppendOf ==
    ASSUME NEW S, NEW q \in Seq(S), NEW e \in S
    PROVE  /\ q \o <<e>> \in Seq(S) /\ Append(q, e) = q \o <<e>>
           /\ Len(q) \in Nat /\ Len(q \o <<e>>) = Len(q) + 1
           /\ (q \o <<e>>)[Len(q) + 1] = e
           /\ \A i \in 1..Len(q) : (q \o <<e>>)[i] = q[i]
  OBVIOUS

LEMMA PrependOf ==
    ASSUME NEW S, NEW q \in Seq(S), NEW e \in S
    PROVE  /\ <<e>> \o q \in Seq(S) /\ Len(q) \in Nat /\ Len(<<e>> \o q) = Len(q) + 1
           /\ (<<e>> \o q)[1] = e /\ Head(<<e>> \o q) = e /\ <<e>> \o q # <<>>
           /\ \A i \in 1..Len(q) : (<<e>> \o q)[i + 1] = q[i]
  OBVIOUS

-----------------------------------------------------------------------------
(* Values. *)

LEMMA Limits ==
    /\ MaxInt16 \in Nat /\ MaxInt16 >= 120
    /\ MaxUint16 \in Nat /\ MaxUint16 >= 120
  BY DEF MaxInt16, MaxUint16

LEMMA AcceptsNat == ASSUME NEW k \in Keys, NEW v \in Accepts(k) PROVE v \in Nat
  BY Limits DEF Accepts, BlankRange, TrayRange, DoNothing, DoSuspend, DoHibernate, DoShutdown

LEMMA DefaultAccepted ==
    ASSUME world.source \in {"ac", "battery"}, NEW k \in Keys
    PROVE  Default(k) \in Accepts(k)
  <1> USE DEF Accepts, Default, OfSource, Sliders, LidLock, Buttons, Lids, Toggles,
      DoNothing, DoSuspend, DoHibernate, DoShutdown
  <1>1. CASE OfSource(k)
    BY <1>1, Limits DEF DefaultOnAc, DefaultOnBattery, BlankDefault, BlankRange
  <1>2. CASE ~OfSource(k)
    BY <1>2 DEF GeneralDefault, TrayDefault, TrayRange, Keys, Widgets, Combos, Ranges
  <1> QED BY <1>1, <1>2

\* What may be chosen can be shown, and is accepted by the daemon.
LEMMA ChoicesOf ==
    ASSUME world \in WorldTypes, NEW k \in Widgets, NEW v \in Choices(k)
    PROVE  v \in Values(k) /\ v \in Accepts(k) /\ v # Unset /\ v \in Nat
  <1>0. world.can \subseteq {1, 2, 4}
    BY DEF WorldTypes, DoSuspend, DoHibernate, DoShutdown
  <1> USE DEF Sliders, DoNothing, DoSuspend, DoHibernate, DoShutdown, DoAsk,
      Buttons, Lids, LidLock, Ranges, Combos, Toggles, Unset
  <1>1. CASE k \in Sliders \cup Ranges
    <2>1. v \in Low(k)..High(k) /\ v \in Values(k)
      BY <1>1 DEF Choices, Values
    <2> QED BY <2>1, <1>1, Limits DEF Low, High, Accepts, BlankRange
  <1>2. CASE k \in Toggles
    BY <1>2 DEF Choices, Values, Accepts, TrayRange
  <1>3. CASE k = "mode"
    BY <1>3 DEF Choices, Values, Accepts, SleepModeChoices, Sleeps
  <1>4. CASE k \in Lids
    BY <1>4 DEF Choices, Values, Accepts, LidChoices, Permitted, Sleeps
  <1>5. CASE k \in Buttons
    BY <1>0, <1>5 DEF Choices, Values, Accepts, ButtonChoices, Permitted, Sleeps
  <1>6. CASE k = "critical-action"
    BY <1>0, <1>6 DEF Choices, Values, Accepts, CriticalChoices, Permitted, Sleeps
  <1> QED BY <1>1, <1>2, <1>3, <1>4, <1>5, <1>6 DEF Widgets

LEMMA StoredOf ==
    ASSUME channel \in Storable, NEW k \in Keys, NEW d \in Nat
    PROVE  /\ Stored(k, d) \in Nat
           /\ k \in Flags /\ d \in {0, 1} => Stored(k, d) \in {0, 1}
  BY DEF Stored, Storable, Unset

LEMMA ClampOf ==
    ASSUME NEW v \in Int, NEW low \in Int, NEW high \in Int, low <= high
    PROVE  /\ Clamp(v, low, high) \in low..high
           /\ v \in low..high => Clamp(v, low, high) = v
  BY DEF Clamp

\* The dialog opens with values of its widgets.
LEMMA ShowOf ==
    ASSUME world \in WorldTypes, channel \in Storable, NEW k \in Widgets
    PROVE  Show(k) \in Values(k)
  <1>0. k \in Keys /\ world.source \in {"ac", "battery"}
    BY DEF Keys, WorldTypes
  <1>1. CASE k \in Sliders \cup Ranges
    <2>1. Low(k) \in Nat /\ High(k) \in Nat /\ Low(k) <= High(k)
      BY <1>1 DEF Low, High, Sliders, Ranges
    <2>0. \A v : v \in Low(k)..High(k) => v \in Values(k)
      BY <1>1 DEF Values, Sliders, Ranges, Toggles
    <2>2. ASSUME NEW d \in Nat
          PROVE  ShowRange(k, Stored(k, d)) \in Values(k)
      <3>1. Stored(k, d) \in Int
        BY <1>0, StoredOf
      <3>2. ShowRange(k, Stored(k, d)) \in Low(k)..High(k)
        BY <2>1, <3>1, ClampOf DEF ShowRange
      <3> QED BY <2>0, <3>2
    <2>3. CASE k \in {"blank", "sleep", "off", "inactivity"}
      BY <1>0, <2>2, <2>3 DEF Show, OfSource, ShowOnAc, ShowOnBattery, Sliders
    <2>4. CASE k \in {"dim", "level"}
      <3>1. /\ k = "dim" => Low(k) = 9 /\ High(k) = 120
            /\ k = "level" => Low(k) = 1 /\ High(k) = 100
        BY DEF Low, High
      <3>2. k = "dim" => 9 \in Values(k) /\ 30 \in Values(k)
        BY <2>0, <2>1, <3>1
      <3>3. k = "level" => 20 \in Values(k) /\ 80 \in Values(k)
        BY <2>0, <2>1, <3>1
      <3> QED BY <1>0, <2>2, <2>4, <3>2, <3>3 DEF Show, OfSource, ShowOnAc, ShowOnBattery, Sliders
    <2>5. CASE k = "critical-level"
      <3>1. Show(k) \in 1..20
        BY <2>5 DEF Show, ShowAdvanced, OfSource, Sliders
      <3> QED BY <2>0, <2>5, <3>1 DEF Low, High
    <2> QED BY <1>1, <2>3, <2>4, <2>5 DEF Sliders, Ranges
  <1>2. CASE k \in Toggles
    <2>1. k # "tray" => Show(k) = Stored(k, 1) /\ k \in Flags
      BY <1>2 DEF Show, ShowAdvanced, ShowGeneral, Toggles, Flags, OfSource, Sliders, Buttons, Lids
    <2>2. k = "tray" => Show(k) \in {0, 1}
      BY DEF Show, ShowGeneral, OfSource, Sliders, Buttons, Lids
    <2>3. Values(k) = {0, 1}
      BY <1>2 DEF Values, Toggles, Sliders, Ranges
    <2> QED BY <1>0, <2>1, <2>2, <2>3, StoredOf
  <1>3. CASE k \in Combos
    <2>1. Values(k) = -1..4
      BY <1>3 DEF Values, Toggles, Sliders, Ranges, Combos, Buttons, Lids, Unset, DoShutdown
    <2>2. \A v : \A first \in -1..4 : ShowChoice(k, v, first) \in Values(k)
      BY <2>1, ChoicesOf DEF ShowChoice
    <2>3. FirstMode \in -1..4 /\ Unset \in -1..4 /\ DoNothing \in -1..4
      BY DEF FirstMode, DoSuspend, DoHibernate, DoNothing, Unset
    <2>4. CASE k = "mode"
      BY <1>0, <2>2, <2>3, <2>4 DEF Show, OfSource, ShowOnAc, ShowOnBattery
    <2>5. CASE k # "mode"
      BY <1>3, <2>2, <2>3, <2>5 DEF Show, OfSource, ShowGeneral, Combos, Buttons, Lids, Sliders
    <2> QED BY <2>4, <2>5
  <1> QED BY <1>1, <1>2, <1>3 DEF Widgets

LEMMA ValuesOf == ASSUME NEW k \in Widgets, NEW v \in Values(k) PROVE v \in Unset..360 /\ v \in Int /\ -1 <= v
  <1>1. CASE k \in Sliders \cup Ranges
    <2>1. Low(k) \in Nat /\ High(k) \in Nat /\ High(k) <= 360
      BY <1>1 DEF Low, High, Sliders, Ranges
    <2>3. v \in Low(k)..High(k)
      BY <1>1 DEF Values, Sliders, Ranges, Toggles
    <2>2. v \in Int /\ -1 <= v /\ v <= 360
      BY <2>1, <2>3
    <2> QED BY <2>2 DEF Unset
  <1>2. CASE k \in Toggles
    <2>1. v \in {0, 1}
      BY <1>2 DEF Values, Toggles, Sliders, Ranges
    <2> QED BY <2>1 DEF Unset
  <1>3. CASE k \in Combos
    <2>1. v \in -1..4
      BY <1>3 DEF Values, Toggles, Sliders, Ranges, Combos, Buttons, Lids, Unset, DoShutdown
    <2> QED BY <2>1 DEF Unset
  <1> QED BY <1>1, <1>2, <1>3 DEF Widgets

-----------------------------------------------------------------------------
(* Frames. *)

LEMMA Tail1 == ASSUME NEW a, NEW t, t = <<a>> PROVE Tail(t) = <<>>
  OBVIOUS
LEMMA Tail2 == ASSUME NEW a, NEW b, NEW t, t = <<a, b>> PROVE Tail(t) = <<b>>
  OBVIOUS
LEMMA Tail3 == ASSUME NEW a, NEW b, NEW c, NEW t, t = <<a, b, c>> PROVE Tail(t) = <<b, c>>
  OBVIOUS
LEMMA Tail4 ==
    ASSUME NEW a, NEW b, NEW c, NEW d, NEW t, t = <<a, b, c, d>> PROVE Tail(t) = <<b, c, d>>
  OBVIOUS

\* A handler's step leaves the rest of its steps.
LEMMA TodoOf ==
    ASSUME NEW k \in Widgets, NEW t \in Todos(k)
    PROVE  /\ Len(t) \in 0..4
           /\ t # <<>> => Tail(t) \in Todos(k) /\ Len(Tail(t)) = Len(t) - 1 /\ Len(t) >= 1
           /\ t = <<>> => Len(t) = 0
  <1>1. CASE k = "blank"
    <2>1. /\ t = <<"sleep", "dim", "bind">> => Tail(t) = <<"dim", "bind">>
          /\ t = <<"dim", "bind">> => Tail(t) = <<"bind">>
          /\ t = <<"bind">> => Tail(t) = <<>>
      BY Tail1, Tail2, Tail3, Tail4
    <2> QED BY <1>1, <2>1 DEF Todos, Sliders, Lids
  <1>2. CASE k = "sleep"
    <2>1. /\ t = <<"off", "blank", "dim", "store">> => Tail(t) = <<"blank", "dim", "store">>
          /\ t = <<"blank", "dim", "store">> => Tail(t) = <<"dim", "store">>
          /\ t = <<"dim", "store">> => Tail(t) = <<"store">>
          /\ t = <<"store">> => Tail(t) = <<>>
      BY Tail1, Tail2, Tail3, Tail4
    <2> QED BY <1>2, <2>1 DEF Todos, Sliders, Lids
  <1>3. CASE k \in {"off", "dim"}
    <2>1. /\ t = <<"sleep", "store">> => Tail(t) = <<"store">>
          /\ t = <<"store">> => Tail(t) = <<>>
      BY Tail1, Tail2, Tail3, Tail4
    <2> QED BY <1>3, <2>1 DEF Todos, Sliders, Lids
  <1>4. CASE k \in Lids
    <2>1. /\ t = <<"store", "logind">> => Tail(t) = <<"logind">>
          /\ t = <<"logind">> => Tail(t) = <<>>
      BY Tail1, Tail2, Tail3, Tail4
    <2> QED BY <1>4, <2>1 DEF Todos, Sliders, Lids
  <1>5. CASE k = "lock"
    <2>1. /\ t = <<"session", "store", "locker", "logind">> => Tail(t) = <<"store", "locker", "logind">>
          /\ t = <<"store", "locker", "logind">> => Tail(t) = <<"locker", "logind">>
          /\ t = <<"locker", "logind">> => Tail(t) = <<"logind">>
          /\ t = <<"logind">> => Tail(t) = <<>>
          /\ t = <<"session", "store">> => Tail(t) = <<"store">>
          /\ t = <<"store">> => Tail(t) = <<>>
      BY Tail1, Tail2, Tail3, Tail4
    <2> QED BY <1>5, <2>1 DEF Todos, Sliders, Lids
  <1>6. CASE k = "handle-keys"
    <2>1. /\ t = <<"store", "switch">> => Tail(t) = <<"switch">>
          /\ t = <<"switch">> => Tail(t) = <<>>
      BY Tail1, Tail2, Tail3, Tail4
    <2> QED BY <1>6, <2>1 DEF Todos, Sliders, Lids
  <1>7. CASE k \notin Sliders \cup Lids \cup {"lock", "handle-keys"}
    <2>1. /\ t = <<"store">> => Tail(t) = <<>>
      BY Tail1, Tail2, Tail3, Tail4
    <2> QED BY <1>7, <2>1 DEF Todos, Sliders, Lids
  <1> QED BY <1>1, <1>2, <1>3, <1>4, <1>5, <1>6, <1>7 DEF Sliders

\* The step a slider's handler is at.
LEMMA StepOf ==
    ASSUME NEW k \in Sliders, NEW t \in Todos(k), t # <<>>
    PROVE  /\ k = "blank" => /\ Len(t) \in 1..3
                             /\ Head(t) = "sleep" <=> Len(t) = 3
                             /\ Head(t) = "dim" <=> Len(t) = 2
                             /\ Head(t) = "bind" <=> Len(t) = 1
           /\ k = "sleep" => /\ Len(t) \in 1..4
                             /\ Head(t) = "off" <=> Len(t) = 4
                             /\ Head(t) = "blank" <=> Len(t) = 3
                             /\ Head(t) = "dim" <=> Len(t) = 2
                             /\ Head(t) = "store" <=> Len(t) = 1
           /\ k \in {"off", "dim"} => /\ Len(t) \in 1..2
                                      /\ Head(t) = "sleep" <=> Len(t) = 2
                                      /\ Head(t) = "store" <=> Len(t) = 1
  BY DEF Todos, Sliders, Lids

InRange(s) == \A k \in Sliders : s[k] \in Low(k)..High(k)

\* The sliders' ranges, as inequalities.
LEMMA RangeOf ==
    ASSUME NEW s, InRange(s)
    PROVE  /\ s["blank"] \in Int /\ 0 <= s["blank"] /\ s["blank"] <= 60
           /\ s["sleep"] \in Int /\ 0 <= s["sleep"] /\ s["sleep"] <= 60
           /\ s["off"] \in Int /\ 0 <= s["off"] /\ s["off"] <= 60
           /\ s["dim"] \in Int /\ 9 <= s["dim"] /\ s["dim"] <= 120
  <1>1. /\ Low("blank") = 0 /\ High("blank") = 60 /\ Low("sleep") = 0 /\ High("sleep") = 60
        /\ Low("off") = 0 /\ High("off") = 60 /\ Low("dim") = 9 /\ High("dim") = 120
    BY DEF Low, High
  <1>2. /\ s["blank"] \in Low("blank")..High("blank") /\ s["sleep"] \in Low("sleep")..High("sleep")
        /\ s["off"] \in Low("off")..High("off") /\ s["dim"] \in Low("dim")..High("dim")
    BY DEF InRange, Sliders
  <1> QED BY <1>1, <1>2

LEMMA SliderRange ==
    ASSUME NEW k \in Sliders
    PROVE  /\ Low(k) \in Int /\ High(k) \in Int /\ 0 <= Low(k) /\ Low(k) <= High(k) /\ High(k) <= 120
           /\ Choices(k) = Low(k)..High(k) /\ \A v : v \in Values(k) <=> v \in Low(k)..High(k)
  <1>1. Low(k) \in Int /\ High(k) \in Int /\ 0 <= Low(k) /\ Low(k) <= High(k) /\ High(k) <= 120
    BY DEF Low, High, Sliders
  <1>2. Choices(k) = Low(k)..High(k)
    BY DEF Choices, Sliders, Ranges, Buttons, Lids, Toggles
  <1>3. \A v : v \in Values(k) <=> v \in Low(k)..High(k)
    BY DEF Values, Sliders, Ranges, Toggles
  <1> QED BY <1>1, <1>2, <1>3

FullTodo(k) == CASE k = "blank" -> 3 [] k = "sleep" -> 4 [] k \in {"off", "dim"} -> 2

\* The frame of a slider's handler that is entered.
LEMMA SliderFrame ==
    ASSUME NEW k \in Sliders, NEW s, InRange(s)
    PROVE  LET F == Frame(k, s) IN
           /\ F \in SliderFrames /\ F.key = k /\ F.todo # <<>> /\ Len(F.todo) = FullTodo(k)
           /\ \A j \in Sliders : F.read[j] = s[j]
  <1> DEFINE r == [t \in Sliders |-> s[t]]
  <1>1. r \in SliderReads
    <2>1. ASSUME NEW t \in Sliders PROVE s[t] \in Nat
      <3>1. s[t] \in Low(t)..High(t)
        BY DEF InRange
      <3> QED BY <3>1, SliderRange
    <2> QED BY <2>1 DEF SliderReads, InRange
  <1>2. ~TooLong(r)
    BY RangeOf DEF TooLong, Sliders
  <1>3. Reads(k, s) = r
    BY DEF Reads
  <1> HIDE DEF r
  <1>4. Steps(k, r) = SliderSteps(k, r)
    BY DEF Steps, Sliders, Lids
  <1>5. Steps(k, r) \in Todos(k) /\ Len(Steps(k, r)) = FullTodo(k) /\ Steps(k, r) # <<>>
    <2> USE <1>2, <1>4 DEF SliderSteps, OnAcSteps, Todos, FullTodo, Lids
    <2>1. CASE k = "blank"
      BY <2>1 DEF BlankSteps
    <2>2. CASE k = "sleep"
      BY <2>2 DEF SleepSteps
    <2>3. CASE k = "off"
      BY <2>3 DEF OffSteps
    <2>4. CASE k = "dim"
      BY <2>4 DEF DimSteps
    <2> QED BY <2>1, <2>2, <2>3, <2>4 DEF Sliders
  <1>6. Frame(k, s) = [key |-> k, read |-> r, todo |-> Steps(k, r)]
    BY <1>3 DEF Frame
  <1>7. Steps(k, r) \in AnyTodo
    BY <1>5 DEF AnyTodo, Widgets
  <1>8. \A j \in Sliders : r[j] = s[j]
    BY DEF r
  <1> QED BY <1>1, <1>5, <1>6, <1>7, <1>8 DEF SliderFrames

LEMMA Concat2 ==
    ASSUME NEW S, NEW a \in S, NEW b \in S, NEW c \in S, NEW d \in S
    PROVE  <<a, b>> \o <<c, d>> = <<a, b, c, d>>
  <1> DEFINE s == <<a, b>>  t == <<c, d>>  u == <<a, b, c, d>>
  <1>1. s \in Seq(S) /\ t \in Seq(S) /\ u \in Seq(S)
    OBVIOUS
  <1>2. /\ Len(s) = 2 /\ Len(t) = 2 /\ Len(u) = 4
        /\ s[1] = a /\ s[2] = b /\ t[1] = c /\ t[2] = d
        /\ u[1] = a /\ u[2] = b /\ u[3] = c /\ u[4] = d
    OBVIOUS
  <1> HIDE DEF s, t, u
  <1>3. /\ s \o t \in Seq(S) /\ Len(s \o t) = Len(s) + Len(t)
        /\ \A i \in 1..Len(s) + Len(t) : (s \o t)[i] = IF i <= Len(s) THEN s[i] ELSE t[i - Len(s)]
    BY <1>1, ConcatProperties
  <1>4. Len(s \o t) = 4 /\ \A i \in 1..4 : (s \o t)[i] = IF i <= 2 THEN s[i] ELSE t[i - 2]
    BY <1>2, <1>3
  <1>6. ASSUME NEW i \in 1..4 PROVE (s \o t)[i] = u[i]
    <2>1. i = 1 \/ i = 2 \/ i = 3 \/ i = 4
      OBVIOUS
    <2> QED BY <1>2, <1>4, <2>1
  <1>5. s \o t = u
    BY <1>1, <1>2, <1>3, <1>4, <1>6, SeqEqual
  <1> QED BY <1>5 DEF s, t, u

LEMMA LockerSteps ==
    LockScreenToggled = IF HasLocker THEN <<"session", "store", "locker", "logind">>
                        ELSE <<"session", "store">>
  <1> DEFINE S == {"session", "store", "locker", "logind"}
  <1>0. "session" \in S /\ "store" \in S /\ "locker" \in S /\ "logind" \in S
    OBVIOUS
  <1> HIDE DEF S
  <1>1. <<"session", "store">> \o <<"locker", "logind">> = <<"session", "store", "locker", "logind">>
    BY <1>0, Concat2
  <1>2. <<"session", "store">> \o <<>> = <<"session", "store">>
    OBVIOUS
  <1> QED BY <1>1, <1>2 DEF LockScreenToggled

LEMMA OtherFrame ==
    ASSUME NEW k \in Widgets \ Sliders, NEW s, s[k] \in Chosen(k)
    PROVE  LET F == Frame(k, s) IN
           /\ F \in OtherFrames /\ F.key = k /\ F.todo # <<>> /\ F.read[k] = s[k]
           /\ F.todo = Steps(k, Reads(k, s))
  <1> DEFINE r == Reads(k, s)
  <1>1. r \in [{k} -> Chosen(k)] /\ r[k] = s[k]
    BY DEF Reads
  <1> HIDE DEF r
  <1>2. CASE k \in Lids
    <2>1. Steps(k, r) \in Todos(k) /\ Steps(k, r) # <<>>
      BY <1>2 DEF Steps, LidChanged, Todos, Sliders, Lids
    <2> QED BY <1>1, <2>1 DEF Frame, OtherFrames, AnyTodo, r
  <1>3. CASE k = "lock"
    <2>1. Steps(k, r) \in Todos(k) /\ Steps(k, r) # <<>>
      <3>1. HasLocker => Steps(k, r) = <<"session", "store", "locker", "logind">>
        BY <1>3, LockerSteps DEF Steps, Sliders, Lids
      <3>2. ~HasLocker => Steps(k, r) = <<"session", "store">>
        BY <1>3, LockerSteps DEF Steps, Sliders, Lids
      <3> QED BY <1>3, <3>1, <3>2 DEF Todos, Sliders, Lids
    <2> QED BY <1>1, <2>1 DEF Frame, OtherFrames, AnyTodo, r
  <1>4. CASE k \notin Lids \cup {"lock"}
    <2>1. Steps(k, r) \in Todos(k) /\ Steps(k, r) # <<>>
      BY <1>4 DEF Steps, HandleKeysToggled, Todos, Sliders, Lids
    <2> QED BY <1>1, <2>1 DEF Frame, OtherFrames, AnyTodo, r
  <1> QED BY <1>2, <1>3, <1>4

\* A frame whose handler has made a step.
Stepped(f) == [f EXCEPT !.todo = Tail(@)]

LEMMA SteppedOf ==
    ASSUME NEW Fr \in {SliderFrames, OtherFrames}, NEW f \in Fr
    PROVE  /\ f.key \in Widgets /\ f.todo \in Todos(f.key)
           /\ f.key \in Sliders <=> Fr = SliderFrames
           /\ Fr = SliderFrames => InRange(f.read)
           /\ Fr = OtherFrames => f.read \in [{f.key} -> Chosen(f.key)]
           /\ f.todo # <<>> =>
                /\ Stepped(f) \in Fr /\ Stepped(f).key = f.key /\ Stepped(f).read = f.read
                /\ Stepped(f).todo = Tail(f.todo) /\ Len(Stepped(f).todo) = Len(f.todo) - 1
  <1>1. CASE Fr = SliderFrames
    <2>1. /\ f \in [key : Sliders, read : SliderReads, todo : AnyTodo] /\ f.todo \in Todos(f.key)
          /\ f.key \in Sliders /\ f.key \in Widgets
      BY <1>1 DEF SliderFrames, Widgets
    <2>2. InRange(f.read)
      BY <2>1 DEF SliderReads, InRange
    <2>3. ASSUME f.todo # <<>>
          PROVE  /\ Stepped(f) \in Fr /\ Stepped(f).key = f.key /\ Stepped(f).read = f.read
                 /\ Stepped(f).todo = Tail(f.todo) /\ Len(Stepped(f).todo) = Len(f.todo) - 1
      <3>1. Tail(f.todo) \in Todos(f.key) /\ Len(Tail(f.todo)) = Len(f.todo) - 1
        BY <2>1, <2>3, TodoOf
      <3>2. Tail(f.todo) \in AnyTodo
        BY <2>1, <3>1 DEF AnyTodo
      <3>3. /\ Stepped(f) \in [key : Sliders, read : SliderReads, todo : AnyTodo]
            /\ Stepped(f).key = f.key /\ Stepped(f).read = f.read /\ Stepped(f).todo = Tail(f.todo)
        BY <2>1, <3>2 DEF Stepped
      <3> QED BY <1>1, <3>1, <3>3 DEF SliderFrames
    <2>4. \E g \in SliderFrames : g \notin OtherFrames
      BY <1>1, <2>1 DEF OtherFrames
    <2> QED BY <1>1, <2>1, <2>2, <2>3, <2>4
  <1>2. CASE Fr = OtherFrames
    <2> DEFINE R == UNION {[{k} -> Chosen(k)] : k \in Widgets}
    <2>1. /\ f \in [key : Widgets \ Sliders, read : R, todo : AnyTodo] /\ f.todo \in Todos(f.key)
          /\ f.read \in [{f.key} -> Chosen(f.key)]
      BY <1>2 DEF OtherFrames
    <2> HIDE DEF R
    <2>2. f.key \in Widgets /\ f.key \notin Sliders
      BY <2>1
    <2>3. ASSUME f.todo # <<>>
          PROVE  /\ Stepped(f) \in Fr /\ Stepped(f).key = f.key /\ Stepped(f).read = f.read
                 /\ Stepped(f).todo = Tail(f.todo) /\ Len(Stepped(f).todo) = Len(f.todo) - 1
      <3>1. Tail(f.todo) \in Todos(f.key) /\ Len(Tail(f.todo)) = Len(f.todo) - 1
        BY <2>1, <2>2, <2>3, TodoOf
      <3>2. Tail(f.todo) \in AnyTodo
        BY <2>2, <3>1 DEF AnyTodo
      <3>3. /\ Stepped(f) \in [key : Widgets \ Sliders, read : R, todo : AnyTodo]
            /\ Stepped(f).key = f.key /\ Stepped(f).read = f.read /\ Stepped(f).todo = Tail(f.todo)
        BY <2>1, <3>2 DEF Stepped
      <3> QED BY <1>2, <2>1, <3>1, <3>3 DEF OtherFrames, R
    <2>4. f \notin SliderFrames
      BY <2>2 DEF SliderFrames
    <2>5. OtherFrames # SliderFrames
      BY <1>2, <2>4
    <2> QED BY <1>2, <2>1, <2>2, <2>3, <2>5
  <1> QED BY <1>1, <1>2

\* The frames a stack holds.
Frames == IF stack \in Seq(SliderFrames) THEN SliderFrames ELSE OtherFrames

LEMMA StackOf ==
    ASSUME StackTyped, stack # <<>>
    PROVE  /\ Frames \in {SliderFrames, OtherFrames} /\ stack \in Seq(Frames)
           /\ Top \in Frames /\ Top = stack[1] /\ Len(stack) \in Nat \ {0}
           /\ Top.key \in Sliders <=> Frames = SliderFrames
           /\ Frames = OtherFrames => Len(stack) = 1
           /\ \A i \in 1..Len(stack) : stack[i] \in Frames
  <1>1. Frames \in {SliderFrames, OtherFrames} /\ stack \in Seq(Frames)
    BY DEF StackTyped, Frames
  <1>2. Top \in Frames /\ Top = stack[1] /\ Len(stack) \in Nat \ {0} /\ \A i \in 1..Len(stack) : stack[i] \in Frames
    BY <1>1 DEF Top
  <1>3. Top.key \in Sliders <=> Frames = SliderFrames
    BY <1>1, <1>2, SteppedOf
  <1>4. Frames = OtherFrames => Len(stack) = 1
    <2>1. stack \in Seq(SliderFrames) => Frames = SliderFrames
      BY DEF Frames
    <2>2. OtherFrames # SliderFrames
      <3>1. Top.key \notin Sliders => Frames = OtherFrames /\ Frames # SliderFrames
        BY <1>1, <1>3
      <3>2. CASE Top.key \in Sliders
        <4>1. Top \in SliderFrames /\ Top \notin OtherFrames
          BY <1>2, <1>3, <3>2 DEF OtherFrames
        <4> QED BY <4>1
      <3> QED BY <3>1, <3>2
    <2> QED BY <2>1, <2>2 DEF StackTyped, Frames
  <1> QED BY <1>1, <1>2, <1>3, <1>4

\* The stack after a step of the innermost handler, after another handler is entered inside it,
\* and after it returned.
LEMMA DoneOf ==
    ASSUME StackTyped, stack # <<>>, Top.todo # <<>>
    PROVE  /\ Done \in Seq(Frames) /\ Len(Done) = Len(stack) /\ Done # <<>>
           /\ Done[1] = Stepped(Top) /\ Head(Done) = Stepped(Top) /\ Stepped(Top) \in Frames
           /\ \A i \in 2..Len(stack) : Done[i] = stack[i]
  <1> DEFINE q == Tail(stack)  e == Stepped(Top)
  <1>1. /\ Frames \in {SliderFrames, OtherFrames} /\ stack \in Seq(Frames) /\ Top \in Frames
    BY StackOf
  <1>2. e \in Frames
    BY <1>1, SteppedOf
  <1>3. /\ q \in Seq(Frames) /\ Len(q) = Len(stack) - 1 /\ Len(stack) \in Nat \ {0}
        /\ \A i \in 1..Len(q) : i + 1 \in 1..Len(stack) /\ q[i] = stack[i + 1]
    BY <1>1, TailOf
  <1>4. Done = <<e>> \o q
    BY DEF Done, Stepped
  <1> HIDE DEF q, e
  <1>5. /\ <<e>> \o q \in Seq(Frames) /\ Len(<<e>> \o q) = Len(q) + 1
        /\ (<<e>> \o q)[1] = e /\ Head(<<e>> \o q) = e /\ <<e>> \o q # <<>>
        /\ \A i \in 1..Len(q) : (<<e>> \o q)[i + 1] = q[i]
    BY <1>2, <1>3, PrependOf
  <1>6. ASSUME NEW i \in 2..Len(stack) PROVE Done[i] = stack[i]
    <2>1. i - 1 \in 1..Len(q) /\ (i - 1) + 1 = i
      BY <1>3
    <2>2. (<<e>> \o q)[(i - 1) + 1] = q[i - 1] /\ q[i - 1] = stack[(i - 1) + 1]
      BY <1>3, <1>5, <2>1
    <2> QED BY <1>4, <2>1, <2>2
  <1> QED BY <1>2, <1>3, <1>4, <1>5, <1>6 DEF e

LEMMA PushedOf ==
    ASSUME StackTyped, stack # <<>>, Top.todo # <<>>, Top.key \in Sliders, NEW F \in SliderFrames
    PROVE  LET s == <<F>> \o Done IN
           /\ s \in Seq(SliderFrames) /\ Len(s) = Len(stack) + 1 /\ s # <<>>
           /\ s[1] = F /\ Head(s) = F /\ s[2] = Stepped(Top)
           /\ \A i \in 3..Len(stack) + 1 : s[i] = stack[i - 1]
  <1> DEFINE s == <<F>> \o Done
  <1>1. Frames = SliderFrames /\ Len(stack) \in Nat \ {0}
    BY StackOf
  <1>2. /\ Done \in Seq(SliderFrames) /\ Len(Done) = Len(stack) /\ Done[1] = Stepped(Top)
        /\ \A i \in 2..Len(stack) : Done[i] = stack[i]
    BY <1>1, DoneOf
  <1> HIDE DEF Done
  <1>3. /\ s \in Seq(SliderFrames) /\ Len(s) = Len(Done) + 1 /\ s[1] = F /\ Head(s) = F /\ s # <<>>
        /\ \A i \in 1..Len(Done) : s[i + 1] = Done[i]
    BY <1>2, PrependOf
  <1> HIDE DEF s
  <1>4. s[2] = Stepped(Top)
    <2>1. 1 \in 1..Len(Done) /\ 1 + 1 = 2
      BY <1>1, <1>2
    <2> QED BY <1>2, <1>3, <2>1
  <1>5. ASSUME NEW i \in 3..Len(stack) + 1 PROVE s[i] = stack[i - 1]
    <2>1. i - 1 \in 1..Len(Done) /\ i - 1 \in 2..Len(stack) /\ (i - 1) + 1 = i
      BY <1>1, <1>2
    <2> QED BY <1>2, <1>3, <2>1
  <1> QED BY <1>2, <1>3, <1>4, <1>5 DEF s

LEMMA PoppedOf ==
    ASSUME StackTyped, stack # <<>>
    PROVE  /\ Tail(stack) \in Seq(Frames) /\ Len(Tail(stack)) = Len(stack) - 1
           /\ Tail(stack) # <<>> => Len(stack) >= 2 /\ Frames = SliderFrames /\ Head(Tail(stack)) = stack[2]
           /\ \A i \in 1..Len(stack) - 1 : Tail(stack)[i] = stack[i + 1]
  <1>1. /\ stack \in Seq(Frames) /\ Len(stack) \in Nat \ {0}
        /\ Frames = OtherFrames => Len(stack) = 1
        /\ Frames \in {SliderFrames, OtherFrames}
    BY StackOf
  <1>2. /\ Tail(stack) \in Seq(Frames) /\ Len(Tail(stack)) = Len(stack) - 1
        /\ \A i \in 1..Len(Tail(stack)) : Tail(stack)[i] = stack[i + 1]
    BY <1>1, TailOf
  <1> DEFINE q == Tail(stack)
  <1> HIDE DEF q
  <1>3. q \in Seq(Frames) /\ q # <<>> => Len(q) >= 1 /\ Head(q) = q[1]
    BY TailOf
  <1> QED BY <1>1, <1>2, <1>3 DEF q

LEMMA SingleOf ==
    ASSUME NEW Fr, NEW F \in Fr
    PROVE  <<F>> \in Seq(Fr) /\ Len(<<F>>) = 1 /\ <<F>>[1] = F /\ Head(<<F>>) = F /\ <<F>> # <<>>
  OBVIOUS

-----------------------------------------------------------------------------
(* The channel. *)

LEMMA WriteOf ==
    ASSUME channel \in Storable, inbox \in Seq(Notices), running \in BOOLEAN,
           NEW k \in Keys, NEW v \in Nat \cup {Unset}, k \in Flags => v \in {Unset, 0, 1}, Write(k, v)
    PROVE  /\ channel' \in Storable /\ channel'[k] = v
           /\ \A j \in Keys \ {k} : channel'[j] = channel[j]
           /\ \/ /\ inbox' = inbox /\ (~running \/ channel[k] = v)
              \/ /\ running /\ inbox' = inbox \o <<[key |-> k, value |-> v]>>
                 /\ [key |-> k, value |-> v] \in Notices
           /\ inbox' \in Seq(Notices)
  <1>1. channel' = [channel EXCEPT ![k] = v]
    BY DEF Write
  <1>2. channel' \in Storable /\ channel'[k] = v /\ \A j \in Keys \ {k} : channel'[j] = channel[j]
    <2>1. channel \in [Keys -> Nat \cup {Unset}] /\ \A f \in Flags : channel[f] \in {Unset, 0, 1}
      BY DEF Storable
    <2>2. /\ channel' \in [Keys -> Nat \cup {Unset}]
          /\ channel'[k] = v /\ \A j \in Keys \ {k} : channel'[j] = channel[j]
      BY <1>1, <2>1
    <2>3. ASSUME NEW f \in Flags PROVE channel'[f] \in {Unset, 0, 1}
      <3>1. f \in Keys
        BY DEF Flags, Keys, Widgets, Toggles
      <3> QED BY <2>1, <2>2, <3>1
    <2> QED BY <2>2, <2>3 DEF Storable
  <1>3. [key |-> k, value |-> v] \in Notices
    <2>1. k # "session"
      BY DEF Keys, Widgets, Sliders, Ranges, Combos, Buttons, Lids, Toggles
    <2> QED BY <2>1 DEF Notices
  <1>4. inbox \o <<>> = inbox
    OBVIOUS
  <1>5. \/ inbox' = inbox /\ (~running \/ channel[k] = v)
        \/ running /\ inbox' = inbox \o <<[key |-> k, value |-> v]>>
    BY <1>4 DEF Write, Tells
  <1>6. inbox' \in Seq(Notices)
    BY <1>3, <1>5, AppendOf
  <1> QED BY <1>2, <1>3, <1>5, <1>6

-----------------------------------------------------------------------------
(* Types: one lemma per group of variables and kind of step. *)

LEMMA WorldOf ==
    ASSUME world \in Worlds
    PROVE  world \in WorldTypes /\ world.source \in {"ac", "battery"} /\ world.stored \in Storable
           /\ world.locker \in SUBSET Nat /\ world.session \in {Unset, 0, 1}
  BY SettingsAssumption DEF WorldTypes

LEMMA WorldStays ==
    ASSUME world' = world
    PROVE  /\ SliderFrames' = SliderFrames /\ OtherFrames' = OtherFrames /\ HasLocker' = HasLocker
           /\ \A k : Values(k)' = Values(k)
  <1>1. HasLocker' = HasLocker
    BY DEF HasLocker
  <1>2. AnyTodo' = AnyTodo /\ \A k : Todos(k)' = Todos(k)
    BY <1>1 DEF AnyTodo, Todos
  <1> QED BY <1>1, <1>2 DEF SliderFrames, OtherFrames, Values, Low, High

LEMMA NextWorld == Next => world' = world
  BY DEF Next, HandlerStep, PropertyChanged, SessionPropertyChanged, DaemonStops, DaemonStarts,
     OpenDialog, CloseDialog, LateLockingChanged, AutomaticLockingChanged, Move, StoreValue, StoreBound,
     StoreSession, SetLockOnSuspend, StoreSwitch, UpdateLogindHandleLidSwitch, HandlerReturns,
     DragSlider, DragRange, SpinCriticalLevel, ChooseSleepMode, DpmsToggled, ChooseAction, ChooseLid,
     Toggle, Sets, SessionToggles, BlankChanges, Reset

\* A widget is set, and its handler entered.
LEMMA TouchTypes ==
    ASSUME Types, world' = world, dialog, dialog' = dialog,
           NEW k \in Widgets, NEW v \in Chosen(k), shown' = [shown EXCEPT ![k] = v],
           stack' = <<Frame(k, shown')>>
    PROVE  DialogTypes'
  <1>1. v \in Unset..360 /\ v \in Values(k)
    BY ValuesOf DEF Chosen
  <1>2. /\ shown' \in [Widgets -> Unset..360] /\ \A j \in Widgets : shown'[j] \in Values(j)
        /\ shown'[k] = v
    BY <1>1 DEF Types, DialogTypes
  <1>3. StackTyped'
    <2>1. CASE k \in Sliders
      <3>1. InRange(shown')
        <4>1. ASSUME NEW j \in Sliders PROVE shown'[j] \in Low(j)..High(j)
          BY <1>2, SliderRange DEF Widgets
        <4> QED BY <4>1 DEF InRange
      <3>2. Frame(k, shown') \in SliderFrames
        BY <2>1, <3>1, SliderFrame
      <3>3. stack' \in Seq(SliderFrames)
        BY <3>2, SingleOf
      <3> QED BY <3>3, WorldStays DEF StackTyped
    <2>2. CASE k \notin Sliders
      <3>1. Frame(k, shown') \in OtherFrames
        BY <1>2, <2>2, OtherFrame
      <3>2. stack' \in Seq(OtherFrames) /\ Len(stack') = 1
        BY <3>1, SingleOf
      <3> QED BY <3>2, WorldStays DEF StackTyped
    <2> QED BY <2>1, <2>2
  <1> QED BY <1>2, <1>3, WorldStays DEF DialogTypes, Types

\* The innermost handler makes a step that leaves the widgets alone.
LEMMA DoneTypes ==
    ASSUME Types, world' = world, stack # <<>>, Top.todo # <<>>, stack' = Done,
           dialog' = dialog, shown' = shown
    PROVE  DialogTypes'
  <1>1. Done \in Seq(Frames) /\ Len(Done) = Len(stack)
    BY DoneOf DEF Types, DialogTypes
  <1>2. Frames \in {SliderFrames, OtherFrames} /\ (Frames = OtherFrames => Len(stack) = 1)
    BY StackOf DEF Types, DialogTypes
  <1>3. StackTyped'
    BY <1>1, <1>2, WorldStays DEF StackTyped
  <1> QED BY <1>3, WorldStays DEF Types, DialogTypes

LEMMA ReturnTypes == ASSUME Types, HandlerReturns PROVE DialogTypes'
  <1>1. stack # <<>> /\ stack' = Tail(stack) /\ world' = world /\ dialog' = dialog /\ shown' = shown
    BY DEF HandlerReturns, storeVars, daemonVars, lockerVars
  <1>2. Tail(stack) \in Seq(Frames) /\ Len(Tail(stack)) = Len(stack) - 1 /\ Len(stack) \in Nat
    BY <1>1, PoppedOf, StackOf DEF Types, DialogTypes
  <1>3. Frames \in {SliderFrames, OtherFrames} /\ (Frames = OtherFrames => Len(stack) = 1)
    BY <1>1, StackOf DEF Types, DialogTypes
  <1>4. stack' \in Seq(SliderFrames)
    <2>1. CASE Frames = OtherFrames
      <3>1. stack' \in Seq(OtherFrames) /\ Len(stack') = 0
        BY <1>1, <1>2, <1>3, <2>1
      <3>2. stack' = <<>>
        BY <3>1, EmptySeq
      <3> QED BY <3>2
    <2> QED BY <1>1, <1>2, <1>3, <2>1
  <1>5. StackTyped'
    BY <1>1, <1>4, WorldStays DEF StackTyped
  <1> QED BY <1>1, <1>5, WorldStays DEF Types, DialogTypes

\* A step of a slider's handler that moves another one, to v.
LEMMA MoveStep ==
    ASSUME Types, Move
    PROVE  /\ stack # <<>> /\ Top.todo # <<>> /\ Top \in SliderFrames /\ Step \in Sliders
           /\ world' = world /\ dialog /\ dialog' = dialog
           /\ \/ /\ \A v \in Moves(Top.key, Step, Top.read) :
                       shown[Step] = Clamp(v, Low(Step), High(Step))
                 /\ shown' = shown /\ stack' = Done
              \/ \E v \in Moves(Top.key, Step, Top.read) :
                    /\ shown' = [shown EXCEPT ![Step] = Clamp(v, Low(Step), High(Step))]
                    /\ shown[Step] # Clamp(v, Low(Step), High(Step))
                    /\ stack' = <<Frame(Step, shown')>> \o Done
  <1>1. stack # <<>> /\ Top.todo # <<>> /\ Step \in Sliders /\ dialog /\ world' = world /\ dialog' = dialog
    BY DEF Move, storeVars, daemonVars, lockerVars, Types, DialogTypes, InboxTypes
  <1>2. Top \in SliderFrames
    <2>1. CASE Frames = OtherFrames
      <3>1. Top \in OtherFrames
        BY <1>1, <2>1, StackOf DEF Types, DialogTypes
      <3>2. Top.key \in Widgets \ Sliders /\ Top.todo \in Todos(Top.key)
        BY <3>1 DEF OtherFrames
      <3>3. Head(Top.todo) \notin Sliders
        BY <1>1, <3>2 DEF Todos, Sliders, Lids
      <3> QED BY <1>1, <3>3 DEF Step
    <2>2. CASE Frames = SliderFrames
      BY <1>1, <2>2, StackOf DEF Types, DialogTypes
    <2> QED BY <1>1, <2>1, <2>2, StackOf DEF Types, DialogTypes
  <1>3. \/ /\ \A v \in Moves(Top.key, Step, Top.read) : shown[Step] = Clamp(v, Low(Step), High(Step))
           /\ shown' = shown /\ stack' = Done
        \/ \E v \in Moves(Top.key, Step, Top.read) :
              /\ shown' = [shown EXCEPT ![Step] = Clamp(v, Low(Step), High(Step))]
              /\ shown[Step] # Clamp(v, Low(Step), High(Step))
              /\ stack' = <<Frame(Step, shown')>> \o Done
    <2> DEFINE new == {Clamp(v, Low(Step), High(Step)) : v \in Moves(Top.key, Step, Top.read)} \ {shown[Step]}
    <2>1. IF new = {} THEN stack' = Done /\ UNCHANGED shown
          ELSE \E v \in new : /\ shown' = [shown EXCEPT ![Step] = v]
                              /\ stack' = <<Frame(Step, shown')>> \o Done
      BY DEF Move
    <2>2. CASE new = {}
      BY <2>1, <2>2
    <2>3. CASE new # {}
      BY <2>1, <2>3
    <2> QED BY <2>2, <2>3
  <1> QED BY <1>1, <1>2, <1>3

LEMMA MovesInt ==
    ASSUME NEW f \in SliderFrames, f.todo # <<>>, Head(f.todo) \in Sliders,
           NEW v \in Moves(f.key, Head(f.todo), f.read)
    PROVE  v \in Int
  <1>1. f.key \in Sliders /\ f.todo \in Todos(f.key) /\ InRange(f.read)
    BY DEF SliderFrames, SliderReads, InRange
  <1>2. /\ f.read["blank"] \in Int /\ f.read["sleep"] \in Int /\ f.read["off"] \in Int
        /\ f.read["dim"] \in Int
    BY <1>1, RangeOf
  <1>3. /\ f.key = "blank" => Head(f.todo) \in {"sleep", "dim", "bind"}
        /\ f.key = "sleep" => Head(f.todo) \in {"off", "blank", "dim", "store"}
        /\ f.key \in {"off", "dim"} => Head(f.todo) \in {"sleep", "store"}
    BY <1>1 DEF Todos, Sliders, Lids
  <1> DEFINE r == f.read  k == f.key  t == Head(f.todo)
  <1> HIDE DEF r, k, t
  <1>4. /\ r["blank"] \in Int /\ r["sleep"] \in Int /\ r["off"] \in Int /\ r["dim"] \in Int
        /\ k \in Sliders /\ v \in Moves(k, t, r)
        /\ k = "blank" => t \in {"sleep", "dim", "bind"}
        /\ k = "sleep" => t \in {"off", "blank", "dim", "store"}
        /\ k \in {"off", "dim"} => t \in {"sleep", "store"}
    BY <1>1, <1>2, <1>3 DEF r, k, t
  <1>5. t \in Sliders
    BY DEF t
  <1> USE DEF Moves, Sliders
  <1>6. CASE k = "blank"
    BY <1>4, <1>5, <1>6 DEF BlankMovesSleep, GivesUpDimming, BrightnessDisabled
  <1>7. CASE k = "sleep"
    BY <1>4, <1>5, <1>7 DEF SleepMovesOff, SleepMovesBlank, GivesUpDimming, BrightnessDisabled
  <1>8. CASE k = "off"
    BY <1>4, <1>5, <1>8 DEF OffMovesSleep
  <1>9. CASE k = "dim"
    BY <1>4, <1>5, <1>9 DEF DimMovesSleep
  <1> QED BY <1>4, <1>6, <1>7, <1>8, <1>9

LEMMA MoveTypes == ASSUME Types, Move PROVE DialogTypes'
  <1>1. /\ stack # <<>> /\ Top.todo # <<>> /\ Top \in SliderFrames /\ Step \in Sliders
        /\ world' = world /\ dialog /\ dialog' = dialog
    BY MoveStep
  <1>2. CASE shown' = shown /\ stack' = Done
    BY <1>1, <1>2, DoneTypes
  <1>3. ASSUME NEW v \in Moves(Top.key, Step, Top.read),
               shown' = [shown EXCEPT ![Step] = Clamp(v, Low(Step), High(Step))],
               stack' = <<Frame(Step, shown')>> \o Done
        PROVE  DialogTypes'
    <2> DEFINE w == Clamp(v, Low(Step), High(Step))  k == Step
    <2>1. v \in Int
      BY <1>1, MovesInt DEF Step
    <2>2. w \in Low(k)..High(k) /\ k \in Widgets /\ w \in Values(k) /\ w \in Unset..360 /\ k \in Sliders
      <3>1. w \in Low(k)..High(k)
        BY <1>1, <2>1, SliderRange, ClampOf
      <3>2. w \in Values(k) /\ k \in Widgets
        BY <1>1, <3>1, SliderRange DEF Widgets
      <3> HIDE DEF w, k
      <3> QED BY <1>1, <3>1, <3>2, ValuesOf DEF k
    <2>3. shown' = [shown EXCEPT ![k] = w] /\ stack' = <<Frame(k, shown')>> \o Done
      BY <1>3
    <2> HIDE DEF w, k
    <2>4. /\ shown' \in [Widgets -> Unset..360] /\ \A j \in Widgets : shown'[j] \in Values(j)
      BY <1>1, <2>2, <2>3 DEF Types, DialogTypes
    <2>5. InRange(shown')
      <3>1. ASSUME NEW j \in Sliders PROVE shown'[j] \in Low(j)..High(j)
        BY <2>4, SliderRange DEF Widgets
      <3> QED BY <3>1 DEF InRange
    <2>6. Frame(k, shown') \in SliderFrames
      BY <2>2, <2>5, SliderFrame
    <2>7. Top.key \in Sliders
      BY <1>1 DEF SliderFrames
    <2>8. stack' \in Seq(SliderFrames)
      BY <1>1, <2>3, <2>6, <2>7, PushedOf DEF Types, DialogTypes
    <2> QED BY <1>1, <2>4, <2>8, WorldStays DEF StackTyped, DialogTypes
  <1> QED BY <1>2, <1>3, MoveStep

\* What the user sets a widget to.
LEMMA UserSets ==
    ASSUME Types,
           \/ \E k \in Sliders : DragSlider(k)
           \/ \E k \in {"level", "inactivity"} : DragRange(k)
           \/ SpinCriticalLevel \/ ChooseSleepMode \/ DpmsToggled
           \/ \E k \in Buttons \cup {"critical-action"} : ChooseAction(k)
           \/ \E k \in Lids : ChooseLid(k)
           \/ \E k \in Toggles \ {"dpms"} : Toggle(k)
    PROVE  \E k \in Widgets : Touches(k) /\ \E v \in Chosen(k) : v \in Choices(k) /\ Sets(k, v)
  <1>0. world \in WorldTypes
    BY WorldOf DEF Types
  <1>1. ASSUME NEW k \in Widgets, NEW v \in Choices(k), Touches(k), Sets(k, v)
        PROVE  \E j \in Widgets : Touches(j) /\ \E w \in Chosen(j) : w \in Choices(j) /\ Sets(j, w)
    BY <1>0, <1>1, ChoicesOf DEF Chosen
  <1>2. ASSUME NEW k \in Sliders \cup {"level", "inactivity"}, DragSlider(k) \/ DragRange(k)
        PROVE  \E v \in Choices(k) : k \in Widgets /\ Touches(k) /\ Sets(k, v)
    <2>1. Choices(k) = Low(k)..High(k)
      BY DEF Choices, Sliders, Ranges, Buttons, Lids, Toggles
    <2> QED BY <1>2, <2>1 DEF DragSlider, DragRange, Widgets, Ranges
  <1>3. ASSUME SpinCriticalLevel
        PROVE  \E v \in Choices("critical-level") : Touches("critical-level") /\ Sets("critical-level", v)
    <2>1. Choices("critical-level") = 1..20
      BY DEF Choices, Low, High, Ranges, Sliders, Buttons, Lids, Toggles
    <2> QED BY <1>3, <2>1 DEF SpinCriticalLevel
  <1>4. ASSUME ChooseSleepMode PROVE \E v \in Choices("mode") : Touches("mode") /\ Sets("mode", v)
    <2>1. Choices("mode") = SleepModeChoices
      BY DEF Choices, Lids, Buttons, Sliders, Ranges, Toggles
    <2> QED BY <1>4, <2>1 DEF ChooseSleepMode
  <1>5. ASSUME NEW k \in Toggles, Touches(k), Sets(k, 1 - shown[k])
        PROVE  1 - shown[k] \in Choices(k)
    <2>1. shown[k] \in {0, 1}
      BY <1>5 DEF Touches, Idle, Types, DialogTypes, Values, Widgets, Toggles, Sliders, Ranges
    <2>2. Choices(k) = {0, 1}
      BY DEF Choices, Toggles, Sliders, Ranges, Lids, Buttons
    <2> QED BY <2>1, <2>2
  <1>6. ASSUME NEW k \in Lids, ChooseLid(k) PROVE \E v \in Choices(k) : Touches(k) /\ Sets(k, v)
    <2>1. k # "mode"
      BY DEF Lids
    <2>2. Choices(k) = LidChoices
      BY <2>1 DEF Choices, Lids, Buttons, Sliders, Ranges, Toggles
    <2> QED BY <1>6, <2>2 DEF ChooseLid
  <1>7. /\ Sliders \cup {"level", "inactivity", "critical-level", "mode", "dpms"} \subseteq Widgets
        /\ Buttons \cup {"critical-action"} \cup Lids \cup Toggles \subseteq Widgets
        /\ "dpms" \in Toggles
    BY DEF Widgets, Ranges, Combos, Toggles
  <1>8. CASE \E k \in Sliders : DragSlider(k)
    BY <1>1, <1>2, <1>8
  <1>9. CASE \E k \in {"level", "inactivity"} : DragRange(k)
    BY <1>1, <1>2, <1>9
  <1>10. CASE SpinCriticalLevel \/ ChooseSleepMode
    BY <1>1, <1>3, <1>4, <1>7, <1>10
  <1>11. CASE DpmsToggled
    BY <1>1, <1>5, <1>7, <1>11 DEF DpmsToggled
  <1>12. CASE \E k \in Buttons \cup {"critical-action"} : ChooseAction(k)
    BY <1>1, <1>7, <1>12 DEF ChooseAction
  <1>13. CASE \E k \in Lids : ChooseLid(k)
    BY <1>1, <1>6, <1>7, <1>13
  <1>14. CASE \E k \in Toggles \ {"dpms"} : Toggle(k)
    BY <1>1, <1>5, <1>7, <1>14 DEF Toggle
  <1> QED BY <1>8, <1>9, <1>10, <1>11, <1>12, <1>13, <1>14

\* Which handler a step belongs to, and what it read.
LEMMA TopOf ==
    ASSUME Types, stack # <<>>
    PROVE  /\ Top.key \in Widgets /\ Top.key \in Keys /\ dialog /\ Top.todo \in Todos(Top.key)
           /\ Top.key \in Sliders => Top \in SliderFrames /\ InRange(Top.read) /\ Frames = SliderFrames
           /\ Top.key \notin Sliders => Top.read[Top.key] \in Chosen(Top.key) /\ Len(stack) = 1
           /\ Top.read[Top.key] \in Nat
           /\ Top.key \in Flags => Top.read[Top.key] \in {0, 1}
           /\ Top.todo # <<>> =>
                /\ Step \in {"session", "locker"} => Top.key = "lock"
                /\ Step = "switch" => Top.key = "handle-keys"
                /\ Step = "logind" => Top.key \in Lids \cup {"lock"}
                /\ Step = "bind" => Top.key = "blank"
                /\ Step = "store" => Top.key # "blank"
                /\ Step \in Sliders => Top.key \in Sliders
  <1>1. /\ Frames \in {SliderFrames, OtherFrames} /\ Top \in Frames
        /\ Top.key \in Sliders <=> Frames = SliderFrames
        /\ Frames = OtherFrames => Len(stack) = 1
    BY StackOf DEF Types, DialogTypes
  <1>2. /\ Top.key \in Widgets /\ Top.todo \in Todos(Top.key)
        /\ Frames = SliderFrames => InRange(Top.read)
        /\ Frames = OtherFrames => Top.read \in [{Top.key} -> Chosen(Top.key)]
    BY <1>1, SteppedOf
  <1>3. Top.key \in Keys /\ dialog
    BY <1>2 DEF Types, DialogTypes, Keys
  <1>4. Top.read[Top.key] \in Nat
    <2>1. CASE Top.key \in Sliders
      <3>1. Top.read[Top.key] \in Low(Top.key)..High(Top.key)
        BY <1>1, <1>2, <2>1 DEF InRange
      <3> QED BY <2>1, <3>1, SliderRange
    <2>2. CASE Top.key \notin Sliders
      <3>1. Top.read[Top.key] \in Values(Top.key) /\ Top.read[Top.key] # Unset
        BY <1>1, <1>2, <2>2 DEF Chosen
      <3>2. Top.read[Top.key] \in Int /\ -1 <= Top.read[Top.key]
        BY <1>2, <3>1, ValuesOf
      <3> QED BY <3>1, <3>2 DEF Unset
    <2> QED BY <2>1, <2>2
  <1>5. Top.key \in Flags => Top.read[Top.key] \in {0, 1}
    <2> SUFFICES ASSUME Top.key \in Flags PROVE Top.read[Top.key] \in {0, 1}
      OBVIOUS
    <2>1. Top.key \in Toggles /\ Top.key \notin Sliders
      BY <1>2 DEF Flags, Toggles, Widgets, Sliders, Ranges, Combos, Buttons, Lids
    <2>2. Values(Top.key) = {0, 1}
      BY <2>1 DEF Values, Toggles, Sliders, Ranges
    <2> QED BY <1>1, <1>2, <2>1, <2>2 DEF Chosen
  <1>6. ASSUME Top.todo # <<>>
        PROVE  /\ Step \in {"session", "locker"} => Top.key = "lock"
               /\ Step = "switch" => Top.key = "handle-keys"
               /\ Step = "logind" => Top.key \in Lids \cup {"lock"}
               /\ Step = "bind" => Top.key = "blank"
               /\ Step = "store" => Top.key # "blank"
               /\ Step \in Sliders => Top.key \in Sliders
    BY <1>2, <1>6 DEF Todos, Sliders, Lids, Step
  <1> QED BY <1>1, <1>2, <1>3, <1>4, <1>5, <1>6

\* The steps that store a setting, k, as v.
StoreStep(k, v) ==
    /\ stack # <<>> /\ Top.todo # <<>>
    /\ Write(k, v) /\ stack' = Done
    /\ UNCHANGED <<world, session, conf, running, dialog, shown, locker, lockerShown>>

LEMMA OtherStores ==
    ASSUME Types, StoreBound \/ StoreSwitch \/ UpdateLogindHandleLidSwitch
    PROVE  \E k \in Keys : \E v \in Nat : (k \in Flags => v \in {0, 1}) /\ StoreStep(k, v)
            /\ \/ Step = "bind" /\ k = "blank" /\ v = shown["blank"]
               \/ Step = "switch" /\ k = "brightness-switch"
               \/ Step = "logind" /\ k = "logind-lid" /\ v = (IF LogindHandlesLid THEN 1 ELSE 0)
  <1> USE DEF StoreStep, daemonVars, lockerVars
  <1>2. CASE StoreBound
    <2>1. "blank" \in Keys /\ "blank" \notin Flags /\ "blank" \in Sliders /\ "blank" \in Widgets
      BY DEF Keys, Widgets, Sliders, Flags
    <2>2. dialog
      BY <1>2, TopOf DEF StoreBound
    <2>3. shown["blank"] \in Low("blank")..High("blank")
      BY <2>1, <2>2, SliderRange DEF Types, DialogTypes
    <2>4. shown["blank"] \in Nat
      BY <2>1, <2>3, SliderRange
    <2> QED BY <1>2, <2>1, <2>4 DEF StoreBound
  <1>3. CASE StoreSwitch
    <2>1. Top.key = "handle-keys"
      BY <1>3, TopOf DEF StoreSwitch
    <2>2. Top.read["handle-keys"] \in {0, 1}
      BY <1>3, <2>1, TopOf DEF StoreSwitch, Flags
    <2>3. 1 - Top.read["handle-keys"] \in Nat
      BY <2>2
    <2>4. "brightness-switch" \in Keys /\ "brightness-switch" \notin Flags
      BY DEF Keys, Flags
    <2> QED BY <1>3, <2>3, <2>4 DEF StoreSwitch
  <1>4. CASE UpdateLogindHandleLidSwitch
    BY <1>4 DEF UpdateLogindHandleLidSwitch, Keys
  <1> QED BY <1>2, <1>3, <1>4

LEMMA StoreSteps ==
    ASSUME Types, StoreValue \/ StoreBound \/ StoreSwitch \/ UpdateLogindHandleLidSwitch
    PROVE  \E k \in Keys : \E v \in Nat : (k \in Flags => v \in {0, 1}) /\ StoreStep(k, v)
  <1>1. CASE StoreValue
    <2>1. StoreStep(Top.key, Top.read[Top.key]) /\ stack # <<>>
      BY <1>1 DEF StoreValue, StoreStep, daemonVars, lockerVars
    <2> QED BY <2>1, TopOf
  <1> QED BY <1>1, OtherStores

LEMMA WriteTypes ==
    ASSUME Types, world' = world, running' = running, session' = session,
           NEW k \in Keys, NEW v \in Nat \cup {Unset}, k \in Flags => v \in {Unset, 0, 1}, Write(k, v)
    PROVE  StoreTypes' /\ InboxTypes'
  <1>1. channel' \in Storable /\ inbox' \in Seq(Notices) /\ (~running => inbox' = inbox)
    BY WriteOf DEF Types, StoreTypes, InboxTypes
  <1> QED BY <1>1 DEF Types, StoreTypes, InboxTypes

LEMMA WriteSessionTypes ==
    ASSUME Types, world' = world, channel' = channel, running' = running, NEW v \in {0, 1}, WriteSession(v)
    PROVE  StoreTypes' /\ InboxTypes'
  <1>1. [key |-> "session", value |-> v] \in Notices
    BY DEF Notices
  <1>2. inbox' \in Seq(Notices) /\ (~running => inbox' = inbox)
    <2>1. inbox \in Seq(Notices)
      BY DEF Types, InboxTypes
    <2>2. Append(inbox, [key |-> "session", value |-> v]) \in Seq(Notices)
      BY <1>1, <2>1, AppendOf
    <2> QED BY <2>1, <2>2 DEF WriteSession
  <1> QED BY <1>2 DEF Types, StoreTypes, InboxTypes, WriteSession

LEMMA LoadTypes ==
    ASSUME world \in Worlds, StoreTypes PROVE InitialConf \in [Keys -> Nat] /\ \A k \in Keys : InitialConf[k] \in Accepts(k)
  <1> DEFINE old == [k \in Keys |-> IF k = "lock" /\ session # Unset THEN session ELSE Default(k)]
  <1>1. \A k \in Keys : Default(k) \in Accepts(k)
    BY WorldOf, DefaultAccepted
  <1>2. \A k \in Keys : old[k] \in Accepts(k)
    <2>1. Accepts("lock") = {0, 1}
      BY DEF Accepts, Buttons, Lids, Toggles
    <2> QED BY <1>1, <2>1 DEF StoreTypes
  <1>3. old \in [Keys -> Nat]
    BY <1>2, AcceptsNat
  <1> HIDE DEF old
  <1>4. ASSUME NEW k \in Keys, NEW v \in Nat PROVE SetProperty(old, k, v)[k] \in Accepts(k)
    BY <1>2, <1>3 DEF SetProperty
  <1>5. InitialConf = Load(old)
    BY DEF InitialConf, old
  <1>6. ASSUME NEW k \in Keys PROVE InitialConf[k] \in Accepts(k)
    <2>1. (IF channel[k] = Unset THEN Default(k) ELSE channel[k]) \in Nat
      BY <1>1, AcceptsNat DEF StoreTypes, Storable
    <2> QED BY <1>4, <1>5, <2>1 DEF Load
  <1>7. InitialConf = [k \in Keys |-> InitialConf[k]]
    BY <1>5 DEF Load
  <1> QED BY <1>6, <1>7, AcceptsNat

LEMMA DelayOf == ASSUME NEW d \in Nat PROVE DelaySeconds(d) \in Nat
  BY DEF DelaySeconds

LEMMA LockerShowsOf ==
    ASSUME NEW l \in [late : BOOLEAN, onSuspend : {0, 1}, after : Nat]
    PROVE  LockerShows(l) \in [auto : 0..2, delay : 1..120]
  <1> DEFINE d == Clamp(SliderOf(l.after), 1, 120)  D == 1..120  A == 0..2
  <1>1. SliderOf(l.after) \in Int
    <2> DEFINE a == l.after
    <2>1. a \in Nat
      OBVIOUS
    <2> HIDE DEF a
    <2>2. a \div 60 \in Int
      BY <2>1
    <2>3. SliderOf(a) \in Int
      BY <2>1, <2>2 DEF SliderOf
    <2> QED BY <2>3 DEF a
  <1>2. d \in D
    <2> DEFINE s == SliderOf(l.after)  low == 1  high == 120
    <2>1. s \in Int /\ low \in Int /\ high \in Int /\ low <= high
      BY <1>1
    <2> HIDE DEF s, low, high
    <2>2. Clamp(s, low, high) \in low..high
      BY <2>1, ClampOf
    <2> QED BY <2>2 DEF s, low, high
  <1> HIDE DEF d
  <1>3. LockerShows(l) = [auto |-> IF l.after = 0 THEN 0 ELSE IF l.late THEN 2 ELSE 1,
                          delay |-> IF l.after = 0 THEN 1 ELSE d]
    BY DEF LockerShows, d
  <1>4. 1 \in D /\ 0 \in A /\ 1 \in A /\ 2 \in A
    OBVIOUS
  <1> HIDE DEF D, A
  <1>5. LockerShows(l) \in [auto : A, delay : D]
    BY <1>2, <1>3, <1>4
  <1> QED BY <1>5 DEF A, D

LEMMA InitTypes == Init => Types
  <1> SUFFICES ASSUME Init PROVE Types
    OBVIOUS
  <1>1. world \in Worlds
    BY DEF Init
  <1>2. StoreTypes
    BY <1>1, WorldOf DEF Init, StoreTypes
  <1>3. InboxTypes
    BY DEF Init, InboxTypes
  <1>4. DialogTypes
    <2>1. shown \in [Widgets -> Unset..360]
      BY DEF Init, Unset
    <2>2. stack = <<>> /\ dialog = FALSE
      BY DEF Init
    <2>3. StackTyped
      BY <2>2 DEF StackTyped
    <2> QED BY <2>1, <2>2, <2>3 DEF DialogTypes
  <1>5. LockerTypes
    <2>1. locker \in [late : BOOLEAN, onSuspend : {0, 1}, after : Nat]
      <3> DEFINE A == IF HasLocker THEN world.locker ELSE {0}
      <3>1. A \subseteq Nat
        BY <1>1, WorldOf
      <3>2. locker \in [late : {FALSE}, onSuspend : {0}, after : A]
        BY DEF Init
      <3> HIDE DEF A
      <3> QED BY <3>1, <3>2
    <2>2. lockerShown = LockerShows(locker)
      BY DEF Init
    <2> QED BY <2>1, <2>2, LockerShowsOf DEF LockerTypes
  <1>6. DaemonTypes
    <2>1. conf = InitialConf
      BY DEF Init
    <2> QED BY <1>1, <1>2, <2>1, LoadTypes DEF DaemonTypes
  <1> QED BY <1>1, <1>2, <1>3, <1>4, <1>5, <1>6 DEF Types

\* Every step keeps the types.
LEMMA TypesStep == ASSUME Types, Next PROVE Types'
  <1> USE DEF storeVars, daemonVars, dialogVars, lockerVars
  <1>0. /\ StoreTypes /\ InboxTypes /\ DaemonTypes /\ DialogTypes /\ LockerTypes /\ world \in Worlds
    BY DEF Types
  <1>a. ASSUME world' = world, conf' = conf PROVE DaemonTypes'
    <2>1. \A k \in Keys : Accepts(k)' = Accepts(k)
      BY DEF Accepts
    <2> QED BY <1>0, <1>a, <2>1 DEF DaemonTypes
  <1>b. ASSUME world' = world, dialog' = dialog, shown' = shown, stack' = stack PROVE DialogTypes'
    BY <1>0, <1>b, WorldStays DEF DialogTypes, StackTyped
  <1>c. ASSUME locker' = locker, lockerShown' = lockerShown PROVE LockerTypes'
    BY <1>0, <1>c DEF LockerTypes
  <1>1. CASE PropertyChanged
    <2>1. inbox # <<>> /\ inbox \in Seq(Notices) /\ running
      BY <1>0, <1>1 DEF PropertyChanged, InboxTypes
    <2>2. Tail(inbox) \in Seq(Notices) /\ Head(inbox) \in Notices
      BY <2>1, TailOf
    <2>3. StoreTypes' /\ InboxTypes'
      BY <1>0, <1>1, <2>2 DEF PropertyChanged, StoreTypes, InboxTypes
    <2>4. DaemonTypes'
      <3> DEFINE k == Head(inbox).key  v == Head(inbox).value
      <3>1. k \in Keys /\ v \in Nat \cup {Unset}
        BY <1>1, <2>2 DEF PropertyChanged, Notices
      <3>2. conf' = IF v = Unset \/ k = "brightness-switch" THEN conf ELSE SetProperty(conf, k, v)
        BY <1>1 DEF PropertyChanged
      <3> HIDE DEF k, v
      <3>3. \A j \in Keys : Accepts(j)' = Accepts(j)
        BY DEF Accepts
      <3>4. SetProperty(conf, k, v) \in [Keys -> Nat] /\ \A j \in Keys : SetProperty(conf, k, v)[j] \in Accepts(j)
        BY <1>0, <3>1, AcceptsNat DEF SetProperty, DaemonTypes
      <3> QED BY <1>0, <3>2, <3>3, <3>4 DEF DaemonTypes
    <2> QED BY <1>0, <1>1, <1>b, <1>c, <2>3, <2>4 DEF PropertyChanged, Types
  <1>2. CASE SessionPropertyChanged
    <2>1. inbox # <<>> /\ inbox \in Seq(Notices)
      BY <1>0, <1>2 DEF SessionPropertyChanged, InboxTypes
    <2>2. Tail(inbox) \in Seq(Notices) /\ Head(inbox) \in Notices
      BY <2>1, TailOf
    <2>3. Head(inbox).value \in {0, 1} /\ running /\ "lock" \in Keys
      BY <1>2, <2>2 DEF SessionPropertyChanged, Notices, Keys, Widgets, Toggles
    <2>4. inbox' \in Seq(Notices)
      <3>1. [key |-> "lock", value |-> Head(inbox).value] \in Notices
        BY <2>3 DEF Notices
      <3>2. Tail(inbox) \o <<>> = Tail(inbox)
        BY <2>2
      <3>3. Tail(inbox) \o <<[key |-> "lock", value |-> Head(inbox).value]>> \in Seq(Notices)
        BY <2>2, <3>1, AppendOf
      <3> QED BY <1>2, <2>2, <3>2, <3>3 DEF SessionPropertyChanged, Tells
    <2>5. channel' \in Storable
      <3>1. channel' = [channel EXCEPT !["lock"] = Head(inbox).value]
        BY <1>2 DEF SessionPropertyChanged
      <3>2. Flags \subseteq Keys
        BY DEF Flags, Keys, Widgets, Toggles
      <3> QED BY <1>0, <2>3, <3>1, <3>2 DEF StoreTypes, Storable
    <2>6. StoreTypes' /\ InboxTypes'
      BY <1>0, <1>2, <2>3, <2>4, <2>5 DEF SessionPropertyChanged, StoreTypes, InboxTypes
    <2> QED BY <1>0, <1>2, <1>a, <1>b, <1>c, <2>6 DEF SessionPropertyChanged, Types
  <1>3. CASE DaemonStops
    <2>0. running' = FALSE /\ inbox' = <<>> /\ channel' = channel /\ session' = session
      BY <1>3 DEF DaemonStops
    <2>1. StoreTypes'
      BY <1>0, <2>0 DEF StoreTypes
    <2>2. InboxTypes'
      <3>1. inbox' \in Seq(Notices)
        BY <2>0
      <3>2. running' \in BOOLEAN
        BY <2>0
      <3> QED BY <2>0, <3>1, <3>2 DEF InboxTypes
    <2> QED BY <2>2, <1>0, <1>3, <1>a, <1>b, <1>c, <2>1 DEF DaemonStops, Types
  <1>4. CASE DaemonStarts
    <2>1. StoreTypes' /\ InboxTypes'
      BY <1>0, <1>4 DEF DaemonStarts, StoreTypes, InboxTypes
    <2>2. \A k \in Keys : Accepts(k)' = Accepts(k)
      BY DEF Accepts
    <2>3. conf' = InitialConf
      BY <1>4 DEF DaemonStarts
    <2>4. DaemonTypes'
      BY <1>0, <2>2, <2>3, LoadTypes DEF DaemonTypes
    <2> QED BY <1>0, <1>4, <1>b, <1>c, <2>1, <2>4 DEF DaemonStarts, Types
  <1>5. CASE OpenDialog
    <2>1. StoreTypes' /\ InboxTypes'
      BY <1>0, <1>5 DEF OpenDialog, StoreTypes, InboxTypes
    <2>2. DialogTypes'
      <3>1. \A k \in Widgets : Show(k) \in Values(k)
        BY <1>0, WorldOf, ShowOf DEF StoreTypes
      <3>2. shown' = [k \in Widgets |-> Show(k)] /\ dialog' = TRUE /\ stack' = stack /\ world' = world
        BY <1>5 DEF OpenDialog
      <3>3. shown' \in [Widgets -> Unset..360] /\ \A k \in Widgets : shown'[k] \in Values(k)
        BY <3>1, <3>2, ValuesOf
      <3> QED BY <1>0, <3>2, <3>3, WorldStays DEF DialogTypes, StackTyped
    <2>3. LockerTypes'
      <3>1. LockerShows(locker) \in [auto : 0..2, delay : 1..120]
        BY <1>0, LockerShowsOf DEF LockerTypes
      <3>2. "lock" \in Keys /\ "lock" \in Flags
        BY DEF Keys, Widgets, Toggles, Flags
      <3>3. Stored("lock", 1) \in {0, 1}
        BY <1>0, <3>2, StoredOf DEF StoreTypes
      <3>4. [locker EXCEPT !.onSuspend = Stored("lock", 1)] \in [late : BOOLEAN, onSuspend : {0, 1}, after : Nat]
        BY <1>0, <3>3 DEF LockerTypes
      <3> QED BY <1>0, <1>5, <3>1, <3>4 DEF OpenDialog, LockerTypes
    <2> QED BY <1>0, <1>5, <1>a, <2>1, <2>2, <2>3 DEF OpenDialog, Types
  <1>6. CASE CloseDialog
    <2>1. StoreTypes' /\ InboxTypes'
      BY <1>0, <1>6 DEF CloseDialog, StoreTypes, InboxTypes
    <2>2. DialogTypes'
      <3>1. shown' \in [Widgets -> Unset..360]
        BY <1>6 DEF CloseDialog, Unset
      <3>2. dialog' = FALSE /\ stack' = <<>>
        BY <1>6 DEF CloseDialog, Idle
      <3>3. StackTyped'
        BY <3>2 DEF StackTyped
      <3> QED BY <3>1, <3>2, <3>3 DEF DialogTypes
    <2> QED BY <1>0, <1>6, <1>a, <1>c, <2>1, <2>2 DEF CloseDialog, Types
  <1>7. CASE LateLockingChanged \/ AutomaticLockingChanged
    <2>0. /\ world' = world /\ channel' = channel /\ session' = session /\ inbox' = inbox
          /\ conf' = conf /\ running' = running /\ dialog' = dialog /\ shown' = shown /\ stack' = stack
      BY <1>7 DEF LateLockingChanged, AutomaticLockingChanged
    <2>1. StoreTypes' /\ InboxTypes'
      BY <1>0, <2>0 DEF StoreTypes, InboxTypes
    <2>2. LockerTypes'
      <3> DEFINE D == 1..120  A == 0..2
      <3>0. D \subseteq Nat
        OBVIOUS
      <3> HIDE DEF D, A
      <3>1. locker \in [late : BOOLEAN, onSuspend : {0, 1}, after : Nat] /\ lockerShown \in [auto : A, delay : D]
        BY <1>0 DEF LockerTypes, D, A
      <3>2. CASE LateLockingChanged
        <4>1. PICK d \in D : /\ lockerShown' = [lockerShown EXCEPT !.delay = d]
                             /\ locker' = [locker EXCEPT !.after = DelaySeconds(d)]
          BY <3>2 DEF LateLockingChanged, D
        <4>2. DelaySeconds(d) \in Nat
          BY <3>0, DelayOf
        <4>3. locker' \in [late : BOOLEAN, onSuspend : {0, 1}, after : Nat] /\ lockerShown' \in [auto : A, delay : D]
          BY <3>1, <4>1, <4>2
        <4> QED BY <4>3 DEF LockerTypes, D, A
      <3>3. CASE AutomaticLockingChanged
        <4>1. PICK a \in A : /\ lockerShown' = [lockerShown EXCEPT !.auto = a]
                             /\ locker' = [locker EXCEPT !.late = (a = 2),
                                      !.after = IF a = 0 THEN 0 ELSE DelaySeconds(lockerShown.delay)]
          BY <3>3 DEF AutomaticLockingChanged, A
        <4>2. DelaySeconds(lockerShown.delay) \in Nat
          BY <3>0, <3>1, DelayOf
        <4>3. (a = 2) \in BOOLEAN /\ (IF a = 0 THEN 0 ELSE DelaySeconds(lockerShown.delay)) \in Nat
          BY <4>2
        <4>4. locker' \in [late : BOOLEAN, onSuspend : {0, 1}, after : Nat]
          BY <3>1, <4>1, <4>3
        <4>5. lockerShown' \in [auto : A, delay : D]
          BY <3>1, <4>1
        <4> QED BY <4>4, <4>5 DEF LockerTypes, D, A
      <3> QED BY <1>7, <3>2, <3>3
    <2> QED BY <1>0, <1>a, <1>b, <2>0, <2>1, <2>2 DEF Types
  <1>8. CASE Move
    <2>1. StoreTypes' /\ InboxTypes'
      BY <1>0, <1>8 DEF Move, StoreTypes, InboxTypes
    <2>2. DialogTypes'
      BY <1>8, MoveTypes
    <2> QED BY <1>0, <1>8, <1>a, <1>c, <2>1, <2>2 DEF Move, Types
  <1>9. CASE StoreValue \/ StoreBound \/ StoreSwitch \/ UpdateLogindHandleLidSwitch
    <2>1. PICK k \in Keys, v \in Nat : (k \in Flags => v \in {0, 1}) /\ StoreStep(k, v)
      BY <1>9, StoreSteps
    <2>2. StoreTypes' /\ InboxTypes'
      BY <2>1, WriteTypes DEF StoreStep
    <2>3. DialogTypes'
      BY <2>1, DoneTypes DEF StoreStep
    <2> QED BY <1>0, <1>a, <1>c, <2>1, <2>2, <2>3 DEF StoreStep, Types
  <1>10. CASE StoreSession
    <2>1. stack # <<>> /\ Top.todo # <<>> /\ Top.read["lock"] \in {0, 1}
      BY <1>10, TopOf DEF StoreSession, Flags
    <2>2. StoreTypes' /\ InboxTypes'
      BY <1>10, <2>1, WriteSessionTypes DEF StoreSession
    <2>3. DialogTypes'
      BY <1>10, DoneTypes DEF StoreSession
    <2> QED BY <1>0, <1>10, <1>a, <1>c, <2>2, <2>3 DEF StoreSession, Types
  <1>11. CASE SetLockOnSuspend
    <2>1. stack # <<>> /\ Top.todo # <<>> /\ Top.read["lock"] \in {0, 1}
      BY <1>11, TopOf DEF SetLockOnSuspend, Flags
    <2>2. StoreTypes' /\ InboxTypes'
      BY <1>0, <1>11 DEF SetLockOnSuspend, StoreTypes, InboxTypes
    <2>3. DialogTypes'
      BY <1>11, DoneTypes DEF SetLockOnSuspend
    <2>4. LockerTypes'
      BY <1>0, <1>11, <2>1 DEF SetLockOnSuspend, LockerTypes
    <2> QED BY <1>0, <1>11, <1>a, <2>2, <2>3, <2>4 DEF SetLockOnSuspend, Types
  <1>12. CASE HandlerReturns
    <2>1. StoreTypes' /\ InboxTypes'
      BY <1>0, <1>12 DEF HandlerReturns, StoreTypes, InboxTypes
    <2>2. DialogTypes'
      BY <1>12, ReturnTypes
    <2> QED BY <1>0, <1>12, <1>a, <1>c, <2>1, <2>2 DEF HandlerReturns, Types
  <1>13. ASSUME NEW k \in Widgets, Touches(k), NEW v \in Chosen(k), Sets(k, v) PROVE Types'
    <2>1. StoreTypes' /\ InboxTypes'
      BY <1>0, <1>13 DEF Sets, StoreTypes, InboxTypes
    <2>2. DialogTypes'
      BY <1>13, TouchTypes DEF Sets, Touches, Idle
    <2> QED BY <1>0, <1>13, <1>a, <1>c, <2>1, <2>2 DEF Sets, Types
  <1>14. CASE SessionToggles
    <2>1. StoreTypes' /\ InboxTypes'
      <3>1. (IF session = 1 THEN 0 ELSE 1) \in {0, 1}
        OBVIOUS
      <3> QED BY <1>14, <3>1, WriteSessionTypes DEF SessionToggles
    <2> QED BY <1>0, <1>14, <1>a, <1>b, <1>c, <2>1 DEF SessionToggles, Types
  <1>15. CASE BlankChanges
    <2>1. PICK v \in Drags \cap 0..60 :
                /\ Write("blank", v)
                /\ IF dialog /\ v # shown["blank"]
                   THEN /\ shown' = [shown EXCEPT !["blank"] = v]
                        /\ stack' = <<Frame("blank", shown')>>
                   ELSE UNCHANGED <<shown, stack>>
      BY <1>15 DEF BlankChanges
    <2>2. "blank" \in Keys /\ "blank" \in Widgets /\ "blank" \notin Flags /\ "blank" \in Sliders
      BY DEF Keys, Widgets, Sliders, Flags
    <2>3. v \in Nat /\ v \in Chosen("blank")
      <3>1. Low("blank") = 0 /\ High("blank") = 60
        BY DEF Low, High
      <3>2. v \in Low("blank")..High("blank") /\ v # -1
        BY <3>1
      <3> QED BY <2>2, <3>2, SettingsAssumption, SliderRange DEF Chosen, Unset
    <2>4. StoreTypes' /\ InboxTypes'
      BY <1>15, <2>1, <2>2, <2>3, WriteTypes DEF BlankChanges
    <2>5. DialogTypes'
      <3>1. CASE dialog /\ v # shown["blank"]
        BY <1>15, <2>1, <2>2, <2>3, <3>1, TouchTypes DEF BlankChanges
      <3>2. CASE ~(dialog /\ v # shown["blank"])
        BY <1>15, <1>b, <2>1, <3>2 DEF BlankChanges
      <3> QED BY <3>1, <3>2
    <2> QED BY <1>0, <1>15, <1>a, <1>c, <2>4, <2>5 DEF BlankChanges, Types
  <1>16. ASSUME NEW k \in Widgets, Reset(k) PROVE Types'
    <2>1. k \in Keys
      BY DEF Keys
    <2>2. StoreTypes' /\ InboxTypes'
      BY <1>16, <2>1, WriteTypes DEF Reset
    <2> QED BY <1>0, <1>16, <1>a, <1>b, <1>c, <2>2 DEF Reset, Types
  <1> QED BY <1>1, <1>2, <1>3, <1>4, <1>5, <1>6, <1>7, <1>8, <1>9, <1>10, <1>11, <1>12, <1>13, <1>14,
             <1>15, <1>16, UserSets DEF Next, HandlerStep

-----------------------------------------------------------------------------
(* The daemon follows the channel. *)

\* A setting is written to the channel c.
LEMMA ToldAppend ==
    ASSUME NEW c, NEW d, NEW q \in Seq(Notices), NEW k \in Keys, NEW v,
           Told(c, q), d[k] = v, \A j \in Keys \ {k} : d[j] = c[j],
           [key |-> k, value |-> v] \in Notices
    PROVE  /\ Told(d, q \o <<[key |-> k, value |-> v]>>)
           /\ \A j \in Keys : Silent(q \o <<[key |-> k, value |-> v]>>, j) <=> (Silent(q, j) /\ j # k)
  <1> DEFINE n == [key |-> k, value |-> v]  s == q \o <<n>>
  <1>1. /\ Len(q) \in Nat /\ Len(s) = Len(q) + 1 /\ s[Len(q) + 1] = n
        /\ \A i \in 1..Len(q) : s[i] = q[i]
    BY AppendOf
  <1>2. n.key = k /\ n.value = v
    OBVIOUS
  <1> HIDE DEF n, s
  <1>3. ASSUME NEW j \in Keys, NEW i \in 1..Len(s), s[i].key = j, \A m \in (i + 1)..Len(s) : s[m].key # j
        PROVE  s[i].value = d[j]
    <2>1. CASE i = Len(q) + 1
      BY <1>1, <1>2, <1>3, <2>1
    <2>2. CASE i \in 1..Len(q)
      <3>1. Len(q) + 1 \in (i + 1)..Len(s)
        BY <1>1, <2>2
      <3>2. j # k
        BY <1>1, <1>2, <1>3, <3>1
      <3>3. ASSUME NEW m \in (i + 1)..Len(q) PROVE q[m].key # j
        <4>1. m \in (i + 1)..Len(s) /\ m \in 1..Len(q)
          BY <1>1, <2>2
        <4> QED BY <1>1, <1>3, <4>1
      <3>4. q[i].value = c[j]
        BY <1>1, <1>3, <2>2, <3>3 DEF Told
      <3> QED BY <1>1, <2>2, <3>2, <3>4
    <2> QED BY <1>1, <2>1, <2>2
  <1>4. Told(d, s)
    BY <1>3 DEF Told
  <1>5. ASSUME NEW j \in Keys PROVE Silent(s, j) <=> (Silent(q, j) /\ j # k)
    <2>1. ASSUME Silent(s, j) PROVE Silent(q, j) /\ j # k
      <3>1. Len(q) + 1 \in 1..Len(s) /\ \A i \in 1..Len(q) : i \in 1..Len(s)
        BY <1>1
      <3> QED BY <1>1, <1>2, <2>1, <3>1 DEF Silent
    <2>2. ASSUME Silent(q, j), j # k PROVE Silent(s, j)
      <3>1. ASSUME NEW i \in 1..Len(s) PROVE s[i].key # j
        <4>1. i \in 1..Len(q) \/ i = Len(q) + 1
          BY <1>1
        <4> QED BY <1>1, <1>2, <2>2, <4>1 DEF Silent
      <3> QED BY <3>1 DEF Silent
    <2> QED BY <2>1, <2>2
  <1> QED BY <1>4, <1>5 DEF s, n

\* The daemon takes the first notification.
LEMMA ToldTail ==
    ASSUME NEW c, NEW q \in Seq(Notices), q # <<>>, Told(c, q)
    PROVE  /\ Told(c, Tail(q))
           /\ \A j \in Keys : Silent(Tail(q), j) =>
                IF Head(q).key = j THEN Head(q).value = c[j] ELSE Silent(q, j)
           /\ \A j \in Keys : Silent(q, j) => Silent(Tail(q), j) /\ Head(q).key # j
  <1> DEFINE t == Tail(q)
  <1>1. /\ Len(q) \in Nat \ {0} /\ Len(t) = Len(q) - 1 /\ Head(q) = q[1] /\ 1 \in 1..Len(q)
        /\ \A i \in 1..Len(t) : i + 1 \in 1..Len(q) /\ t[i] = q[i + 1]
    BY TailOf
  <1> HIDE DEF t
  <1>2. ASSUME NEW j \in Keys, NEW i \in 1..Len(t), t[i].key = j, \A m \in (i + 1)..Len(t) : t[m].key # j
        PROVE  t[i].value = c[j]
    <2>1. ASSUME NEW m \in ((i + 1) + 1)..Len(q) PROVE q[m].key # j
      <3>1. m - 1 \in (i + 1)..Len(t) /\ m - 1 \in 1..Len(t) /\ (m - 1) + 1 = m
        BY <1>1
      <3> QED BY <1>1, <1>2, <3>1
    <2>2. i + 1 \in 1..Len(q) /\ t[i] = q[i + 1]
      BY <1>1
    <2> QED BY <1>2, <2>1, <2>2 DEF Told
  <1>3. ASSUME NEW j \in Keys, Silent(t, j) PROVE \A m \in 2..Len(q) : q[m].key # j
    <2>1. ASSUME NEW m \in 2..Len(q) PROVE q[m].key # j
      <3>1. m - 1 \in 1..Len(t) /\ (m - 1) + 1 = m
        BY <1>1
      <3> QED BY <1>1, <1>3, <3>1 DEF Silent
    <2> QED BY <2>1
  <1>4. ASSUME NEW j \in Keys, Silent(t, j), Head(q).key = j PROVE Head(q).value = c[j]
    <2>1. \A m \in (1 + 1)..Len(q) : q[m].key # j
      BY <1>3, <1>4
    <2> QED BY <1>1, <1>4, <2>1 DEF Told
  <1>5. ASSUME NEW j \in Keys, Silent(t, j), Head(q).key # j PROVE Silent(q, j)
    <2>1. ASSUME NEW m \in 1..Len(q) PROVE q[m].key # j
      <3>1. m = 1 \/ m \in 2..Len(q)
        BY <1>1
      <3> QED BY <1>1, <1>3, <1>5, <3>1
    <2> QED BY <2>1 DEF Silent
  <1>6. ASSUME NEW j \in Keys, Silent(q, j) PROVE Silent(t, j) /\ Head(q).key # j
    BY <1>1, <1>6 DEF Silent
  <1>7. Told(c, t)
    BY <1>2 DEF Told
  <1> QED BY <1>4, <1>5, <1>6, <1>7 DEF t

LEMMA DaemonPrimed ==
    ASSUME world' = world, Told(channel', inbox'), Heard(channel', inbox', conf'),
           "reset" \notin world.others => Defaulted(channel', inbox', conf')
    PROVE  DaemonInv'
  <1>1. \A k : Accepts(k)' = Accepts(k)
    BY DEF Accepts
  <1>2. \A k : Default(k)' = Default(k)
    BY DEF Default, DefaultOnAc, DefaultOnBattery, GeneralDefault, OfSource
  <1>3. Told(channel, inbox)'
    BY DEF Told
  <1>4. Heard(channel, inbox, conf)'
    BY <1>1 DEF Heard, Silent
  <1>5. Defaulted(channel', inbox', conf') => Defaulted(channel, inbox, conf)'
    BY <1>2 DEF Defaulted, Silent
  <1> QED BY <1>3, <1>4, <1>5 DEF DaemonInv

LEMMA DaemonWrite ==
    ASSUME Types, DaemonInv, world' = world, running' = running, conf' = conf,
           NEW k \in Keys, NEW v \in Nat \cup {Unset}, k \in Flags => v \in {Unset, 0, 1}, Write(k, v),
           v = Unset => "reset" \in world.others
    PROVE  DaemonInv'
  <1> DEFINE n == [key |-> k, value |-> v]
  <1>0. channel \in Storable /\ inbox \in Seq(Notices) /\ running \in BOOLEAN /\ (~running => inbox = <<>>)
    BY DEF Types, StoreTypes, InboxTypes
  <1>1. /\ channel'[k] = v /\ \A j \in Keys \ {k} : channel'[j] = channel[j]
        /\ \/ inbox' = inbox /\ (~running \/ channel[k] = v)
           \/ running /\ inbox' = inbox \o <<n>> /\ n \in Notices
    BY <1>0, WriteOf
  <1>2. CASE ~running
    BY <1>2 DEF DaemonInv
  <1>3. CASE running /\ inbox' = inbox /\ channel[k] = v
    <2>1. \A j \in Keys : channel'[j] = channel[j]
      BY <1>1, <1>3
    <2>2. Told(channel', inbox')
      BY <1>3, <2>1 DEF DaemonInv, Told
    <2>3. Heard(channel', inbox', conf')
      BY <1>3, <2>1 DEF DaemonInv, Heard
    <2>4. "reset" \notin world.others => Defaulted(channel', inbox', conf')
      BY <1>3, <2>1 DEF DaemonInv, Defaulted
    <2> QED BY <2>2, <2>3, <2>4, DaemonPrimed
  <1>4. CASE running /\ inbox' = inbox \o <<n>> /\ n \in Notices
    <2>1. /\ Told(channel', inbox')
          /\ \A j \in Keys : Silent(inbox', j) <=> (Silent(inbox, j) /\ j # k)
      <3> HIDE DEF DaemonInv
      <3>1. Told(channel, inbox)
        BY <1>4 DEF DaemonInv
      <3> QED BY <1>0, <1>1, <1>4, <3>1, ToldAppend
    <2>3. Heard(channel', inbox', conf')
      BY <1>1, <1>4, <2>1 DEF DaemonInv, Heard
    <2>4. "reset" \notin world.others => Defaulted(channel', inbox', conf')
      BY <1>1, <1>4, <2>1 DEF DaemonInv, Defaulted
    <2> QED BY <2>1, <2>3, <2>4, DaemonPrimed
  <1> QED BY <1>0, <1>1, <1>2, <1>3, <1>4
\* A daemon that starts loads what is stored.
LEMMA LoadTells ==
    ASSUME world \in Worlds, StoreTypes
    PROVE  /\ Told(channel, <<>>) /\ Heard(channel, <<>>, InitialConf)
           /\ Defaulted(channel, <<>>, InitialConf)
  <1> DEFINE old == [k \in Keys |-> IF k = "lock" /\ session # Unset THEN session ELSE Default(k)]
  <1>0. InitialConf = Load(old) /\ old = [k \in Keys |-> old[k]]
    BY DEF InitialConf
  <1> HIDE DEF old
  <1>1. \A k \in Keys : Default(k) \in Accepts(k) /\ Default(k) # Unset
    BY WorldOf, DefaultAccepted, AcceptsNat DEF Unset
  <1>2. ASSUME NEW k \in Keys
        PROVE  /\ channel[k] = Unset => InitialConf[k] = Default(k)
               /\ channel[k] \in Accepts(k) => InitialConf[k] = channel[k]
    <2> DEFINE v == IF channel[k] = Unset THEN Default(k) ELSE channel[k]
    <2>1. InitialConf[k] = SetProperty(old, k, v)[k]
      BY <1>0 DEF Load
    <2>2. v \in Accepts(k) => SetProperty(old, k, v)[k] = v
      BY <1>0 DEF SetProperty
    <2>3. channel[k] \in Accepts(k) => channel[k] # Unset
      BY AcceptsNat DEF Unset
    <2> QED BY <1>1, <2>1, <2>2, <2>3
  <1>3. \A k \in Keys : Silent(<<>>, k)
    BY DEF Silent
  <1> QED BY <1>2, <1>3 DEF Told, Heard, Defaulted


LEMMA DaemonStep == ASSUME Types, DaemonInv, Next PROVE DaemonInv'
  <1> USE DEF storeVars, daemonVars, dialogVars, lockerVars
  <1>0. channel \in Storable /\ inbox \in Seq(Notices) /\ running \in BOOLEAN /\ (~running => inbox = <<>>)
    BY DEF Types, StoreTypes, InboxTypes
  <1>a. ASSUME world' = world, channel' = channel, inbox' = inbox, conf' = conf, running' = running
        PROVE  DaemonInv'
    <2>1. CASE running
      BY <1>a, <2>1, DaemonPrimed DEF DaemonInv
    <2>2. CASE ~running
      BY <1>a, <2>2 DEF DaemonInv
    <2> QED BY <2>1, <2>2
  <1>b. ASSUME world' = world, channel' = channel, conf' = conf, running' = running,
               NEW v \in {0, 1}, WriteSession(v)
        PROVE  DaemonInv'
    <2>1. CASE inbox' = inbox
      BY <1>a, <1>b, <2>1
    <2>2. CASE running /\ inbox' # inbox
      <3> DEFINE n == [key |-> "session", value |-> v]
      <3>1. inbox' = Append(inbox, n) /\ n \in Notices
        BY <1>b, <2>2 DEF WriteSession, Notices
      <3>2. n.key = "session" /\ "session" \notin Keys
        BY DEF Keys, Widgets, Sliders, Ranges, Combos, Buttons, Lids, Toggles
      <3> HIDE DEF n
      <3>3. /\ Len(inbox) \in Nat /\ Len(inbox') = Len(inbox) + 1 /\ inbox'[Len(inbox) + 1] = n
            /\ \A i \in 1..Len(inbox) : inbox'[i] = inbox[i]
        BY <1>0, <3>1, AppendOf
      <3>4. Told(channel', inbox')
        <4>1. ASSUME NEW j \in Keys, NEW i \in 1..Len(inbox'), inbox'[i].key = j,
                     \A m \in (i + 1)..Len(inbox') : inbox'[m].key # j
              PROVE  inbox'[i].value = channel'[j]
          <5>1. i \in 1..Len(inbox)
            BY <3>2, <3>3, <4>1
          <5>2. ASSUME NEW m \in (i + 1)..Len(inbox) PROVE inbox[m].key # j
            <6>1. m \in (i + 1)..Len(inbox') /\ m \in 1..Len(inbox)
              BY <3>3, <5>1
            <6> QED BY <3>3, <4>1, <6>1
          <5>3. Told(channel, inbox)
            BY <2>2 DEF DaemonInv
          <5> QED BY <1>b, <3>3, <4>1, <5>1, <5>2, <5>3 DEF Told
        <4> QED BY <4>1 DEF Told
      <3>5. ASSUME NEW j \in Keys PROVE Silent(inbox', j) <=> Silent(inbox, j)
        <4>1. \A i \in 1..Len(inbox') : i \in 1..Len(inbox) \/ i = Len(inbox) + 1
          BY <3>3
        <4>2. \A i \in 1..Len(inbox) : i \in 1..Len(inbox')
          BY <3>3
        <4> QED BY <3>2, <3>3, <4>1, <4>2 DEF Silent
      <3>6. Heard(channel', inbox', conf')
        BY <1>b, <2>2, <3>5 DEF DaemonInv, Heard
      <3>7. "reset" \notin world.others => Defaulted(channel', inbox', conf')
        BY <1>b, <2>2, <3>5 DEF DaemonInv, Defaulted
      <3> QED BY <1>b, <3>4, <3>6, <3>7, DaemonPrimed
    <2>3. CASE ~running
      BY <1>b, <2>3 DEF DaemonInv
    <2> QED BY <1>0, <2>1, <2>2, <2>3
  <1>1. CASE PropertyChanged
    <2> DEFINE k == Head(inbox).key  v == Head(inbox).value
    <2>1. inbox # <<>> /\ running /\ inbox' = Tail(inbox) /\ channel' = channel /\ world' = world
      BY <1>1 DEF PropertyChanged
    <2>2. /\ Told(channel, inbox) /\ Heard(channel, inbox, conf)
          /\ "reset" \notin world.others => Defaulted(channel, inbox, conf)
      BY <2>1 DEF DaemonInv
    <2>3. /\ Told(channel, Tail(inbox))
          /\ \A j \in Keys : Silent(Tail(inbox), j) => IF k = j THEN v = channel[j] ELSE Silent(inbox, j)
          /\ \A j \in Keys : Silent(inbox, j) => Silent(Tail(inbox), j) /\ k # j
      BY <1>0, <2>1, <2>2, ToldTail
    <2>4. k \in Keys /\ v \in Nat \cup {Unset}
      <3>1. Head(inbox) \in Notices
        BY <1>0, <2>1, TailOf
      <3> QED BY <1>1, <3>1 DEF Notices, PropertyChanged
    <2>5. conf' = IF v = Unset \/ k = "brightness-switch" THEN conf ELSE SetProperty(conf, k, v)
      BY <1>1 DEF PropertyChanged
    <2>6. conf \in [Keys -> Nat]
      BY DEF Types, DaemonTypes
    <2> HIDE DEF k, v
    <2>7. /\ \A j \in Keys : j # k => conf'[j] = conf[j]
          /\ k # "brightness-switch" /\ v \in Accepts(k) => conf'[k] = v
      <3>1. v \in Accepts(k) => v \in Nat /\ v # Unset
        BY <2>4, AcceptsNat DEF Unset
      <3> QED BY <2>4, <2>5, <2>6, <3>1 DEF SetProperty
    <2>8. Heard(channel, Tail(inbox), conf')
      BY <2>2, <2>3, <2>4, <2>7 DEF Heard
    <2>9. "reset" \notin world.others => Defaulted(channel, Tail(inbox), conf')
      BY <2>2, <2>3, <2>4, <2>7 DEF Defaulted
    <2> QED BY <2>1, <2>3, <2>8, <2>9, DaemonPrimed
  <1>2. CASE SessionPropertyChanged
    <2> DEFINE v == Head(inbox).value  t == Tail(inbox)  n == [key |-> "lock", value |-> v]
    <2>1. /\ inbox # <<>> /\ running /\ world' = world /\ conf' = conf /\ Head(inbox).key = "session"
          /\ channel' = [channel EXCEPT !["lock"] = v]
          /\ inbox' = t \o Tells("lock", v)
      BY <1>2 DEF SessionPropertyChanged
    <2>2. /\ Told(channel, inbox) /\ Heard(channel, inbox, conf)
          /\ "reset" \notin world.others => Defaulted(channel, inbox, conf)
      BY <2>1 DEF DaemonInv
    <2>3. "session" \notin Keys /\ "lock" \in Keys
      BY DEF Keys, Widgets, Sliders, Ranges, Combos, Buttons, Lids, Toggles
    <2>4. /\ Told(channel, t)
          /\ \A j \in Keys : Silent(t, j) <=> Silent(inbox, j)
      BY <1>0, <2>1, <2>2, <2>3, ToldTail
    <2>5. t \in Seq(Notices) /\ v \in {0, 1} /\ n \in Notices
      <3>1. Head(inbox) \in Notices /\ t \in Seq(Notices)
        BY <1>0, <2>1, TailOf
      <3>2. v \in {0, 1}
        BY <2>1, <3>1 DEF Notices
      <3> QED BY <2>3, <3>1, <3>2 DEF Notices
    <2>6. inbox' = IF channel["lock"] = v THEN t ELSE t \o <<n>>
      <3>1. t \o <<>> = t
        BY <2>5
      <3> QED BY <2>1, <3>1 DEF Tells
    <2>7. channel'["lock"] = v /\ (\A j \in Keys \ {"lock"} : channel'[j] = channel[j]) /\ v # Unset
      BY <1>0, <2>1, <2>3, <2>5 DEF Storable, Unset
    <2> HIDE DEF v, t, n
    <2>8. CASE channel["lock"] = v
      <3>1. inbox' = t /\ \A j \in Keys : channel'[j] = channel[j]
        BY <2>3, <2>6, <2>7, <2>8
      <3>2. Told(channel', inbox')
        BY <2>4, <3>1 DEF Told
      <3>3. Heard(channel', inbox', conf')
        BY <2>1, <2>2, <2>4, <3>1 DEF Heard
      <3>4. "reset" \notin world.others => Defaulted(channel', inbox', conf')
        BY <2>1, <2>2, <2>4, <3>1 DEF Defaulted
      <3> QED BY <2>1, <3>2, <3>3, <3>4, DaemonPrimed
    <2>9. CASE channel["lock"] # v
      <3>1. inbox' = t \o <<n>>
        BY <2>6, <2>9
      <3>2. Told(channel', inbox') /\ \A j \in Keys : Silent(inbox', j) <=> (Silent(t, j) /\ j # "lock")
        BY <2>3, <2>4, <2>5, <2>7, <3>1, ToldAppend DEF n
      <3>3. Heard(channel', inbox', conf')
        BY <2>1, <2>2, <2>4, <2>7, <3>2 DEF Heard
      <3>4. "reset" \notin world.others => Defaulted(channel', inbox', conf')
        BY <2>1, <2>2, <2>4, <2>7, <3>2 DEF Defaulted
      <3> QED BY <2>1, <3>2, <3>3, <3>4, DaemonPrimed
    <2> QED BY <2>8, <2>9
  <1>3. CASE DaemonStops
    <2>1. running' = FALSE
      BY <1>3 DEF DaemonStops
    <2> QED BY <2>1 DEF DaemonInv
  <1>4. CASE DaemonStarts
    <2>1. inbox' = <<>> /\ conf' = InitialConf /\ channel' = channel /\ world' = world
      BY <1>0, <1>4 DEF DaemonStarts
    <2> QED BY <2>1, LoadTells, DaemonPrimed DEF Types
  <1>5. CASE OpenDialog \/ CloseDialog
    BY <1>5, <1>a DEF OpenDialog, CloseDialog
  <1>6. CASE LateLockingChanged \/ AutomaticLockingChanged
    BY <1>6, <1>a DEF LateLockingChanged, AutomaticLockingChanged
  <1>7. CASE Move \/ SetLockOnSuspend \/ HandlerReturns
    BY <1>7, <1>a DEF Move, SetLockOnSuspend, HandlerReturns
  <1>8. CASE StoreValue \/ StoreBound \/ StoreSwitch \/ UpdateLogindHandleLidSwitch
    <2>1. PICK k \in Keys, v \in Nat : (k \in Flags => v \in {0, 1}) /\ StoreStep(k, v)
      BY <1>8, StoreSteps
    <2>2. v # Unset
      BY DEF Unset
    <2> QED BY <2>1, <2>2, DaemonWrite DEF StoreStep
  <1>9. CASE StoreSession
    <2>1. Top.read["lock"] \in {0, 1}
      BY <1>9, TopOf DEF StoreSession, Flags
    <2> QED BY <1>9, <1>b, <2>1 DEF StoreSession
  <1>10. ASSUME NEW k \in Widgets, Touches(k), NEW v \in Chosen(k), Sets(k, v) PROVE DaemonInv'
    BY <1>10, <1>a DEF Sets
  <1>11. CASE SessionToggles
    <2>1. (IF session = 1 THEN 0 ELSE 1) \in {0, 1}
      OBVIOUS
    <2> QED BY <1>11, <1>b, <2>1 DEF SessionToggles
  <1>12. CASE BlankChanges
    <2>1. PICK v \in Drags : Write("blank", v)
      BY <1>12 DEF BlankChanges
    <2>2. "blank" \in Keys /\ "blank" \notin Flags /\ v \in Nat /\ v # Unset
      BY SettingsAssumption DEF Keys, Widgets, Sliders, Flags, Unset
    <2> QED BY <1>12, <2>1, <2>2, DaemonWrite DEF BlankChanges
  <1>13. ASSUME NEW k \in Widgets, Reset(k) PROVE DaemonInv'
    <2>1. k \in Keys
      BY DEF Keys
    <2> QED BY <1>13, <2>1, DaemonWrite DEF Reset
  <1> QED BY <1>1, <1>2, <1>3, <1>4, <1>5, <1>6, <1>7, <1>8, <1>9, <1>10, <1>11, <1>12, <1>13,
             UserSets DEF Next, HandlerStep

-----------------------------------------------------------------------------
(* The dialog shows what the daemon does. *)

\* A stored choice is shown.
LEMMA ShowsStored ==
    ASSUME world.source \in {"ac", "battery"}, NEW k \in Widgets, channel[k] \in Choices(k), channel[k] # Unset,
           k \in {"dim", "level"} => world.lcd
    PROVE  Show(k) = channel[k]
  <1> DEFINE v == channel[k]
  <1>0. \A d : Stored(k, d) = v
    BY DEF Stored
  <1>1. CASE k \in Sliders \cup {"level", "inactivity"}
    <2>1. Choices(k) = Low(k)..High(k) /\ Low(k) \in Int /\ High(k) \in Int /\ Low(k) <= High(k)
      <3>1. Choices(k) = Low(k)..High(k)
        BY <1>1 DEF Choices, Sliders, Ranges, Buttons, Lids, Toggles
      <3> QED BY <1>1, <3>1 DEF Low, High, Sliders
    <2>2. v \in Low(k)..High(k) /\ v \in Int
      BY <2>1
    <2>3. ShowRange(k, v) = v
      BY <2>1, <2>2, ClampOf DEF ShowRange
    <2> HIDE DEF v
    <2> QED BY <1>0, <1>1, <2>3 DEF Show, OfSource, ShowOnAc, ShowOnBattery, Sliders, v
  <1>2. CASE k = "critical-level"
    <2>1. Choices(k) = 1..20
      BY <1>2 DEF Choices, Low, High, Sliders, Ranges, Buttons, Lids, Toggles
    <2>2. Show(k) = IF Stored(k, 10) \in 1..20 THEN Stored(k, 10) ELSE 10
      BY <1>2 DEF Show, ShowAdvanced, OfSource, Sliders
    <2> QED BY <1>0, <2>1, <2>2
  <1>3. CASE k \in Combos
    <2>1. \A first : ShowChoice(k, v, first) = v
      BY DEF ShowChoice
    <2>2. CASE k = "mode"
      BY <1>0, <2>1, <2>2 DEF Show, OfSource, ShowOnAc, ShowOnBattery
    <2>3. CASE k # "mode"
      BY <1>0, <1>3, <2>1, <2>3 DEF Show, OfSource, ShowGeneral, Combos, Buttons, Lids, Sliders
    <2> QED BY <2>2, <2>3
  <1>4. CASE k \in Toggles
    <2>1. v \in {0, 1}
      BY <1>4 DEF Choices, Toggles, Sliders, Ranges, Buttons, Lids
    <2>2. k # "tray" => Show(k) = Stored(k, 1)
      BY <1>4 DEF Show, ShowAdvanced, ShowGeneral, Toggles, OfSource, Sliders, Buttons, Lids
    <2>3. k = "tray" => Show(k) = IF Stored(k, 0) = 0 THEN 0 ELSE 1
      BY DEF Show, ShowGeneral, OfSource, Sliders, Buttons, Lids
    <2> QED BY <1>0, <2>1, <2>2, <2>3
  <1> QED BY <1>1, <1>2, <1>3, <1>4 DEF Widgets, Ranges

\* The defaults of a setting that was never made agree, but for those that diverge.
LEMMA ShowsDefault ==
    ASSUME world.source \in {"ac", "battery"}, NEW k \in Widgets \ Diverging, channel[k] = Unset,
           Default(k) \in Choices(k), k \in {"dim", "level"} => world.lcd
    PROVE  Show(k) = Default(k)
  <1>0. \A d : Stored(k, d) = d
    BY DEF Stored
  <1>1. CASE k \in {"sleep", "off", "dim", "level", "inactivity"}
    <2>1. Choices(k) = Low(k)..High(k) /\ Low(k) \in Int /\ High(k) \in Int /\ Low(k) <= High(k)
      <3>1. Choices(k) = Low(k)..High(k)
        BY <1>1 DEF Choices, Sliders, Ranges, Buttons, Lids, Toggles
      <3> QED BY <1>1, <3>1 DEF Low, High
    <2>2. Default(k) \in Low(k)..High(k) /\ Default(k) \in Int
      BY <2>1
    <2>3. ShowRange(k, Default(k)) = Default(k)
      BY <2>1, <2>2, ClampOf DEF ShowRange
    <2>4. Show(k) = ShowRange(k, Default(k))
      <3> USE <1>0 DEF Show, OfSource, ShowOnAc, ShowOnBattery, Sliders, Default, DefaultOnAc, DefaultOnBattery
      <3>1. CASE k = "sleep"
        BY <3>1
      <3>2. CASE k = "off"
        BY <3>2
      <3>3. CASE k = "dim"
        BY <3>3
      <3>4. CASE k = "level"
        BY <3>4
      <3>5. CASE k = "inactivity"
        BY <3>5 DEF GeneralDefault, Buttons, Lids, Toggles
      <3> QED BY <1>1, <3>1, <3>2, <3>3, <3>4, <3>5
    <2> QED BY <2>3, <2>4
  <1>2. CASE k = "mode"
    <2>1. Show(k) = ShowChoice(k, Default(k), FirstMode)
      BY <1>0, <1>2 DEF Show, OfSource, ShowOnAc, ShowOnBattery, Default, DefaultOnAc, DefaultOnBattery
    <2> QED BY <2>1 DEF ShowChoice
  <1>3. CASE k \in Buttons \cup Lids \cup {"critical-action"}
    <2> USE <1>0 DEF Show, OfSource, ShowGeneral, Buttons, Lids, Sliders, Default, GeneralDefault, DoNothing,
        Toggles
    <2>2. k \in Buttons => Show(k) = ShowChoice(k, Default(k), DoNothing)
      OBVIOUS
    <2>4. k \in Lids => Show(k) = ShowChoice(k, Default(k), DoNothing)
      OBVIOUS
    <2>3. k = "critical-action" => Show(k) = ShowChoice(k, Default(k), Unset)
      OBVIOUS
    <2>1. \E first : Show(k) = ShowChoice(k, Default(k), first)
      BY <1>3, <2>2, <2>3, <2>4
    <2> QED BY <2>1 DEF ShowChoice
  <1>4. CASE k \in Toggles \ {"tray"}
    <2>1. Show(k) = Stored(k, 1)
      BY <1>4 DEF Show, ShowAdvanced, ShowGeneral, Toggles, OfSource, Sliders, Buttons, Lids
    <2>2. Default(k) = 1
      BY <1>4 DEF Default, GeneralDefault, OfSource, Toggles, Sliders, Buttons, Lids
    <2> QED BY <1>0, <2>1, <2>2
  \* Bound to XfpmManager, and to XfpmPower on mains.
  <1>5. CASE k = "tray"
    <2>1. Show(k) = IF Stored(k, 0) = 0 THEN 0 ELSE 1
      BY <1>5 DEF Show, ShowGeneral, OfSource, Sliders, Buttons, Lids
    <2>2. Default(k) = 0
      BY <1>5 DEF Default, GeneralDefault, TrayDefault, OfSource, Sliders, Buttons, Lids
    <2> QED BY <1>0, <2>1, <2>2
  <1>6. CASE k = "blank"
    <2>1. world.source = "ac"
      BY <1>6 DEF Diverging
    <2>2. Show(k) = ShowRange(k, 10)
      BY <1>0, <1>6, <2>1 DEF Show, OfSource, ShowOnAc, Sliders
    <2>3. Default(k) = 10
      BY <1>6, <2>1 DEF Default, DefaultOnAc, BlankDefault, OfSource, Sliders
    <2>4. ShowRange(k, 10) = 10
      BY <1>6 DEF ShowRange, Clamp, Low, High
    <2> QED BY <2>2, <2>3, <2>4
  <1> QED BY <1>1, <1>2, <1>3, <1>4, <1>5, <1>6 DEF Widgets, Ranges, Combos, Toggles, Diverging, Sliders

LEMMA OpensTruthfully ==
    ASSUME Types, DaemonInv, OpenDialog, inbox = <<>>, "reset" \notin world.others, NEW k \in Widgets,
           channel[k] \in Choices(k) \cup (IF k \in Diverging THEN {} ELSE {Unset}),
           conf[k] \in Choices(k), Usable(k)'
    PROVE  shown'[k] = conf[k]
  <1>1. world \in WorldTypes /\ world.source \in {"ac", "battery"}
    BY WorldOf DEF Types
  <1>2. running /\ shown'[k] = Show(k) /\ world' = world
    BY DEF OpenDialog
  <1>3. Heard(channel, <<>>, conf) /\ Defaulted(channel, <<>>, conf) /\ k \in Keys /\ k # "brightness-switch"
    BY <1>2 DEF DaemonInv, Keys, Widgets, Sliders, Ranges, Combos, Buttons, Lids, Toggles
  <1>4. k \in {"dim", "level"} => world.lcd
    BY <1>2 DEF Usable
  <1>5. Silent(<<>>, k)
    BY DEF Silent
  <1>6. CASE channel[k] \in Choices(k)
    <2>1. channel[k] \in Accepts(k) /\ channel[k] # Unset
      BY <1>1, <1>6, ChoicesOf
    <2>2. conf[k] = channel[k]
      BY <1>3, <1>5, <2>1 DEF Heard
    <2> QED BY <1>1, <1>2, <1>4, <1>6, <2>1, <2>2, ShowsStored
  <1>7. CASE channel[k] = Unset /\ k \notin Diverging
    <2>1. conf[k] = Default(k)
      BY <1>3, <1>7 DEF Defaulted
    <2> QED BY <1>1, <1>2, <1>4, <1>7, <2>1, ShowsDefault
  <1> QED BY <1>6, <1>7

-----------------------------------------------------------------------------
(* The lid switch. *)

\* The user sets the next thing once the daemon has seen the last.
UserWaits == MaxInbox <= 1

LEMMA NotInKeys ==
    /\ "session" \notin Keys /\ "lock" \in Keys /\ "logind-lid" \in Keys /\ Lids \subseteq Keys
    /\ "lock" \notin Lids /\ "logind-lid" \notin Lids /\ Lids \cap Sliders = {} /\ "lock" \notin Sliders
    /\ "logind-lid" \notin Widgets
  BY DEF Keys, Widgets, Sliders, Ranges, Combos, Buttons, Lids, Toggles

\* What the lid switch depends on.
LEMMA LidSame ==
    ASSUME channel'["lock"] = channel["lock"], \A k \in Lids : channel'[k] = channel[k]
    PROVE  LogindHandlesLid' <=> LogindHandlesLid
  BY DEF LogindHandlesLid, Stored

LEMMA LidFrame ==
    ASSUME Types, stack # <<>>, Top.todo # <<>>
    PROVE  /\ Done # <<>> /\ Head(Done).key = Top.key /\ Head(Done).read = Top.read
           /\ Head(Done).todo = Tail(Top.todo) /\ Len(Head(Done).todo) = Len(Top.todo) - 1
           /\ Len(Top.todo) \in Nat
           /\ Top.key = "lock" /\ HasLocker =>
                /\ Step = "session" <=> Len(Top.todo) = 4
                /\ Step = "store" <=> Len(Top.todo) = 3
                /\ Step = "locker" <=> Len(Top.todo) = 2
                /\ Step = "logind" <=> Len(Top.todo) = 1
                /\ Tail(Top.todo) = <<>> <=> Step = "logind"
           /\ Top.key \in Lids => /\ Step = "store" <=> Len(Top.todo) = 2
                                  /\ Tail(Top.todo) = <<>> <=> Step = "logind"
  <1>1. /\ Frames \in {SliderFrames, OtherFrames} /\ Top \in Frames
    BY StackOf DEF Types, DialogTypes
  <1>2. Top.todo \in Todos(Top.key) /\ Top.key \in Widgets
    BY <1>1, SteppedOf
  <1>3. Done # <<>> /\ Head(Done) = Stepped(Top)
    BY DoneOf DEF Types, DialogTypes
  <1>4. /\ Stepped(Top).key = Top.key /\ Stepped(Top).read = Top.read /\ Stepped(Top).todo = Tail(Top.todo)
        /\ Len(Stepped(Top).todo) = Len(Top.todo) - 1
    BY <1>1, SteppedOf
  <1>5. Len(Top.todo) \in Nat
    BY <1>2, TodoOf
  <1> DEFINE t == Top.todo
  <1>6. ASSUME Top.key = "lock", HasLocker
        PROVE  /\ Head(t) = "session" <=> Len(t) = 4
               /\ Head(t) = "store" <=> Len(t) = 3
               /\ Head(t) = "locker" <=> Len(t) = 2
               /\ Head(t) = "logind" <=> Len(t) = 1
               /\ Tail(t) = <<>> <=> Head(t) = "logind"
    <2>1. \/ t = <<"session", "store", "locker", "logind">> \/ t = <<"store", "locker", "logind">>
          \/ t = <<"locker", "logind">> \/ t = <<"logind">>
      BY <1>2, <1>6 DEF Todos, Sliders, Lids
    <2> HIDE DEF t
    <2>2. CASE t = <<"session", "store", "locker", "logind">>
      <3>1. Tail(t) = <<"store", "locker", "logind">>
        BY <2>2, Tail4
      <3> QED BY <2>2, <3>1
    <2>3. CASE t = <<"store", "locker", "logind">>
      <3>1. Tail(t) = <<"locker", "logind">>
        BY <2>3, Tail3
      <3> QED BY <2>3, <3>1
    <2>4. CASE t = <<"locker", "logind">>
      <3>1. Tail(t) = <<"logind">>
        BY <2>4, Tail2
      <3> QED BY <2>4, <3>1
    <2>5. CASE t = <<"logind">>
      <3>1. Tail(t) = <<>>
        BY <2>5, Tail1
      <3> QED BY <2>5, <3>1
    <2> QED BY <2>1, <2>2, <2>3, <2>4, <2>5
  <1>7. ASSUME Top.key \in Lids
        PROVE  /\ Head(t) = "store" <=> Len(t) = 2
               /\ Tail(t) = <<>> <=> Head(t) = "logind"
    <2>1. t = <<"store", "logind">> \/ t = <<"logind">>
      BY <1>2, <1>7 DEF Todos, Sliders, Lids
    <2> HIDE DEF t
    <2>2. CASE t = <<"store", "logind">>
      <3>1. Tail(t) = <<"logind">>
        BY <2>2, Tail2
      <3> QED BY <2>2, <3>1
    <2>3. CASE t = <<"logind">>
      <3>1. Tail(t) = <<>>
        BY <2>3, Tail1
      <3> QED BY <2>3, <3>1
    <2> QED BY <2>1, <2>2, <2>3
  <1> QED BY <1>3, <1>4, <1>5, <1>6, <1>7 DEF Step

\* A setting that does not concern the lid is written, while no notification of the session is
\* on its way.
LEMMA LidLeftAlone ==
    ASSUME Types, LidAlone, Decided, NEW k \in Keys, NEW v, Write(k, v),
           k \notin Lids \cup {"lock", "logind-lid"}, ~Deciding, world' = world
    PROVE  Decided'
  <1>1. \A j \in Keys \ {k} : channel'[j] = channel[j]
    BY DEF Types, StoreTypes, Storable, Write
  <1>2. LogindHandlesLid' <=> LogindHandlesLid
    BY <1>1, NotInKeys, LidSame
  <1>3. channel'["logind-lid"] = channel["logind-lid"]
    BY <1>1, NotInKeys
  <1> QED BY <1>2, <1>3 DEF Decided

\* Notifications of a setting are not of the session.
LEMMA NotifiedWrite ==
    ASSUME Types, NEW k \in Keys, NEW v \in Nat \cup {Unset}, k \in Flags => v \in {Unset, 0, 1}, Write(k, v)
    PROVE  \A i \in 1..Len(inbox') : inbox'[i].key = "session" => i \in 1..Len(inbox) /\ inbox'[i] = inbox[i]
  <1> DEFINE n == [key |-> k, value |-> v]
  <1>0. inbox \in Seq(Notices) /\ Len(inbox) \in Nat
    BY DEF Types, InboxTypes
  <1>1. \/ inbox' = inbox
        \/ inbox' = inbox \o <<n>> /\ n \in Notices
    BY WriteOf DEF Types, StoreTypes, InboxTypes
  <1>2. n.key # "session"
    BY NotInKeys
  <1> HIDE DEF n
  <1>3. CASE inbox' = inbox \o <<n>> /\ n \in Notices
    <2>1. /\ Len(inbox') = Len(inbox) + 1 /\ inbox'[Len(inbox) + 1] = n
          /\ \A i \in 1..Len(inbox) : inbox'[i] = inbox[i]
      BY <1>0, <1>3, AppendOf
    <2>2. \A i \in 1..Len(inbox') : i \in 1..Len(inbox) \/ i = Len(inbox) + 1
      BY <1>0, <2>1
    <2> QED BY <1>2, <2>1, <2>2
  <1> QED BY <1>1, <1>3

\* A handler's step that stores a setting.
LEMMA LidStore ==
    ASSUME Types, LidInv, LidAlone, LidAlone', NEW k \in Keys, NEW v \in Nat, k \in Flags => v \in {0, 1},
           StoreStep(k, v),
           \/ Step = "store" /\ k = Top.key /\ v = Top.read[k]
           \/ Step = "bind" /\ k = "blank"
           \/ Step = "switch" /\ k = "brightness-switch"
           \/ Step = "logind" /\ k = "logind-lid" /\ v = (IF LogindHandlesLid THEN 1 ELSE 0)
    PROVE  Decided' /\ Notified' /\ LockStored'
  <1>0. /\ stack # <<>> /\ Top.todo # <<>> /\ Write(k, v) /\ stack' = Done /\ world' = world
        /\ Decided /\ Notified /\ LockStored /\ HasLocker
    BY DEF StoreStep, LidInv, LidAlone
  <1>1. /\ stack' # <<>> /\ Top'.key = Top.key /\ Top'.read = Top.read /\ Top'.todo = Tail(Top.todo)
        /\ Len(Top'.todo) = Len(Top.todo) - 1 /\ Len(Top.todo) \in Nat
    BY <1>0, LidFrame DEF Top
  <1>2. channel'[k] = v /\ \A j \in Keys \ {k} : channel'[j] = channel[j]
    BY <1>0 DEF Types, StoreTypes, Storable, Write
  <1>3. \A i \in 1..Len(inbox') : inbox'[i].key = "session" => i \in 1..Len(inbox) /\ inbox'[i] = inbox[i]
    BY <1>0, NotifiedWrite
  <1>4. ASSUME NEW i \in 1..Len(inbox'), inbox'[i].key = "session"
        PROVE  /\ Top.key = "lock" /\ Top.read["lock"] = inbox'[i].value /\ Len(Top.todo) <= 3
               /\ Len(Top.todo) <= 2 => channel["lock"] = inbox'[i].value
    BY <1>0, <1>3, <1>4 DEF Notified
  <1>5. /\ Step \in {"bind", "switch"} => Top.key \notin Lids \cup {"lock"} /\ k \notin Lids \cup {"lock", "logind-lid"}
        /\ Top.key \in Keys \ {"logind-lid"}
    BY <1>0, TopOf, NotInKeys DEF Lids
  <1>6. CASE Top.key = "lock"
    <2>0. /\ Step = "session" <=> Len(Top.todo) = 4
          /\ Step = "store" <=> Len(Top.todo) = 3
          /\ Step = "locker" <=> Len(Top.todo) = 2
          /\ Step = "logind" <=> Len(Top.todo) = 1
          /\ Tail(Top.todo) = <<>> <=> Step = "logind"
      BY <1>0, <1>6, LidFrame
    <2>1. CASE Step = "store"
      <3>1. k = "lock" /\ v = Top.read["lock"] /\ channel'["lock"] = Top.read["lock"]
        BY <1>2, <1>6, <2>1
      <3>2. Decided'
        BY <1>1, <1>6, <2>0, <2>1 DEF Decided, Deciding
      <3>3. Notified'
        BY <1>1, <1>4, <1>6, <2>0, <2>1, <3>1 DEF Notified
      <3> QED BY <1>1, <3>1, <3>2, <3>3 DEF LockStored
    <2>2. CASE Step = "logind"
      <3>1. k = "logind-lid" /\ v = (IF LogindHandlesLid THEN 1 ELSE 0)
        BY <2>2
      <3>2. channel'["lock"] = channel["lock"] /\ (LogindHandlesLid' <=> LogindHandlesLid)
        BY <1>2, <3>1, NotInKeys, LidSame
      <3>3. Decided'
        BY <1>2, <3>1, <3>2 DEF Decided
      <3>6. Len(Top.todo) = 1 /\ Len(Top'.todo) = 0
        BY <1>1, <2>0, <2>2
      <3>7. ASSUME NEW i \in 1..Len(inbox'), inbox'[i].key = "session"
            PROVE  /\ Top'.key = "lock" /\ Top'.read["lock"] = inbox'[i].value
                   /\ Len(Top'.todo) <= 3 /\ channel'["lock"] = inbox'[i].value
        <4>1. /\ Top.read["lock"] = inbox'[i].value
              /\ Len(Top.todo) <= 2 => channel["lock"] = inbox'[i].value
          BY <1>4, <3>7
        <4>2. channel["lock"] = inbox'[i].value
          BY <3>6, <4>1
        <4>3. Top'.key = "lock" /\ Top'.read["lock"] = inbox'[i].value
          BY <1>1, <1>6, <4>1
        <4> QED BY <3>2, <3>6, <4>2, <4>3
      <3>4. Notified'
        BY <1>1, <3>7 DEF Notified
      <3>8. channel["lock"] = Top.read["lock"]
        BY <1>0, <1>6, <3>6 DEF LockStored
      <3>5. LockStored'
        BY <1>1, <3>2, <3>8 DEF LockStored
      <3> QED BY <3>3, <3>4, <3>5
    <2> QED BY <1>5, <1>6, <2>1, <2>2
  <1>7. CASE Top.key \in Lids
    <2>0. /\ Step = "store" <=> Len(Top.todo) = 2
          /\ Tail(Top.todo) = <<>> <=> Step = "logind"
      BY <1>0, <1>7, LidFrame
    <2>1. Notified' /\ LockStored'
      BY <1>1, <1>4, <1>7, NotInKeys DEF Notified, LockStored
    <2>2. CASE Step = "store"
      BY <1>1, <1>7, <2>0, <2>1, <2>2 DEF Decided, Deciding
    <2>3. CASE Step = "logind"
      <3>1. k = "logind-lid" /\ v = (IF LogindHandlesLid THEN 1 ELSE 0)
        BY <2>3
      <3>2. LogindHandlesLid' <=> LogindHandlesLid
        BY <1>2, <3>1, NotInKeys, LidSame
      <3> QED BY <1>2, <2>1, <3>1, <3>2 DEF Decided
    <2> QED BY <1>5, <1>7, <2>2, <2>3
  <1>8. CASE Top.key \notin Lids \cup {"lock"}
    <2>1. k \notin Lids \cup {"lock", "logind-lid"}
      BY <1>0, <1>5, <1>8, TopOf
    <2>2. ~Deciding
      BY <1>8 DEF Deciding
    <2>3. Decided'
      BY <1>0, <2>1, <2>2, LidLeftAlone
    <2> QED BY <1>1, <1>4, <1>8, <2>3 DEF Notified, LockStored
  <1> QED BY <1>6, <1>7, <1>8

LEMMA LidStep == ASSUME UserWaits, Types, LidInv, Next PROVE LidInv'
  <1> USE DEF storeVars, daemonVars, dialogVars, lockerVars
  <1>0. /\ inbox \in Seq(Notices) /\ running \in BOOLEAN /\ (~running => inbox = <<>>) /\ Len(inbox) \in Nat
        /\ channel \in Storable /\ channel \in [Keys -> Nat \cup {Unset}]
    BY DEF Types, StoreTypes, InboxTypes, Storable
  <1> SUFFICES ASSUME LidAlone' PROVE Decided' /\ Notified' /\ LockStored'
    BY DEF LidInv
  <1>w. world' = world
    BY NextWorld
  <1>l. LidAlone /\ Decided /\ Notified /\ LockStored /\ HasLocker
    BY <1>w DEF LidAlone, LidInv, HasLocker
  <1>a. ASSUME channel' = channel, stack' = stack, inbox' = inbox \/ inbox' = <<>> PROVE Decided' /\ Notified' /\ LockStored'
    <2>1. LogindHandlesLid' <=> LogindHandlesLid
      BY <1>a, LidSame
    <2>2. Notified'
      BY <1>a, <1>l DEF Notified, Top
    <2> QED BY <1>a, <1>l, <2>1, <2>2 DEF Decided, Deciding, LockStored, Top
  <1>1. CASE PropertyChanged
    <2>1. channel' = channel /\ stack' = stack /\ inbox' = Tail(inbox) /\ inbox # <<>>
      BY <1>1 DEF PropertyChanged
    <2>2. \A i \in 1..Len(inbox') : i + 1 \in 1..Len(inbox) /\ inbox'[i] = inbox[i + 1]
      BY <1>0, <2>1, TailOf
    <2>3. Notified'
      BY <1>l, <2>1, <2>2 DEF Notified, Top
    <2>4. LogindHandlesLid' <=> LogindHandlesLid
      BY <2>1, LidSame
    <2> QED BY <1>l, <2>1, <2>3, <2>4 DEF Decided, Deciding, LockStored, Top
  <1>2. CASE SessionPropertyChanged
    <2> DEFINE v == Head(inbox).value  t == Tail(inbox)
    <2>1. /\ inbox # <<>> /\ Head(inbox).key = "session" /\ stack' = stack
          /\ channel' = [channel EXCEPT !["lock"] = v]
          /\ inbox' = t \o Tells("lock", v)
      BY <1>2 DEF SessionPropertyChanged
    <2>2. /\ t \in Seq(Notices) /\ Len(inbox) \in Nat \ {0} /\ Head(inbox) = inbox[1] /\ 1 \in 1..Len(inbox)
          /\ Head(inbox) \in Notices
          /\ Len(t) \in Nat /\ \A i \in 1..Len(t) : i + 1 \in 1..Len(inbox) /\ t[i] = inbox[i + 1]
      BY <1>0, <2>1, TailOf
    <2>3. v \in Nat
      BY <2>1, <2>2 DEF Notices
    <2>4. IF stack = <<>> THEN channel["lock"] = v
          ELSE /\ Top.key = "lock" /\ Top.read["lock"] = v /\ Len(Top.todo) <= 3
               /\ Len(Top.todo) <= 2 => channel["lock"] = v
      BY <1>l, <2>1, <2>2 DEF Notified
    <2>5. channel'["lock"] = v /\ \A k \in Keys \ {"lock"} : channel'[k] = channel[k]
      BY <1>0, <2>1, NotInKeys
    <2>6. \A i \in 1..Len(inbox') : inbox'[i].key = "session" => i \in 1..Len(t) /\ inbox'[i] = t[i]
      <3> DEFINE n == [key |-> "lock", value |-> v]
      <3>1. n \in Notices /\ n.key # "session"
        BY <2>3, NotInKeys DEF Notices
      <3> HIDE DEF n, v, t
      <3>2. t \o <<>> = t
        BY <2>2
      <3>3. CASE inbox' = t
        BY <3>3
      <3>4. CASE inbox' = t \o <<n>>
        <4>1. /\ Len(inbox') = Len(t) + 1 /\ inbox'[Len(t) + 1] = n
              /\ \A i \in 1..Len(t) : inbox'[i] = t[i]
          BY <2>2, <3>1, <3>4, AppendOf
        <4>2. \A i \in 1..Len(inbox') : i \in 1..Len(t) \/ i = Len(t) + 1
          BY <2>2, <4>1
        <4> QED BY <3>1, <4>1, <4>2
      <3> QED BY <2>1, <3>2, <3>3, <3>4 DEF Tells, n
    <2>7. ASSUME NEW i \in 1..Len(inbox'), inbox'[i].key = "session"
          PROVE  IF stack = <<>> THEN channel["lock"] = inbox'[i].value
                 ELSE /\ Top.key = "lock" /\ Top.read["lock"] = inbox'[i].value
                      /\ Len(Top.todo) <= 3
                      /\ Len(Top.todo) <= 2 => channel["lock"] = inbox'[i].value
      <3>1. i + 1 \in 1..Len(inbox) /\ inbox'[i] = inbox[i + 1]
        BY <2>2, <2>6, <2>7
      <3> QED BY <1>l, <2>7, <3>1 DEF Notified
    <2> HIDE DEF v, t
    <2>8. Top' = Top
      BY <2>1 DEF Top
    <2>9. Notified'
      BY <2>1, <2>4, <2>5, <2>7, <2>8 DEF Notified
    <2>10. LockStored'
      BY <2>1, <2>4, <2>5, <2>8 DEF LockStored
    <2>11. Decided'
      <3>1. CASE channel["lock"] = v
        <4>1. LogindHandlesLid' <=> LogindHandlesLid
          BY <2>5, <3>1, NotInKeys, LidSame
        <4> QED BY <1>l, <2>1, <2>5, <2>8, <4>1, NotInKeys DEF Decided, Deciding
      <3>2. CASE channel["lock"] # v
        <4>1. stack # <<>> /\ Top.key = "lock" /\ ~(Len(Top.todo) <= 2)
          BY <2>4, <3>2
        <4>2. Top.todo # <<>>
          BY <4>1
        <4> QED BY <2>1, <2>8, <4>1, <4>2 DEF Decided, Deciding
      <3> QED BY <3>1, <3>2
    <2> QED BY <2>9, <2>10, <2>11
  <1>3. CASE DaemonStops \/ DaemonStarts \/ OpenDialog \/ LateLockingChanged \/ AutomaticLockingChanged \/ CloseDialog
    <2>1. channel' = channel /\ stack' = stack /\ (inbox' = inbox \/ inbox' = <<>>)
      BY <1>3 DEF DaemonStops, DaemonStarts, OpenDialog, LateLockingChanged, AutomaticLockingChanged, CloseDialog
    <2> QED BY <1>a, <2>1
  <1>4. CASE Move
    <2>1. /\ stack # <<>> /\ Top.key \in Sliders /\ stack' # <<>> /\ Top'.key \in Sliders
          /\ channel' = channel /\ inbox' = inbox
      <3>1. /\ stack # <<>> /\ Top.todo # <<>> /\ Top \in SliderFrames /\ Step \in Sliders
        BY <1>4, MoveStep
      <3>2. Top.key \in Sliders
        BY <3>1 DEF SliderFrames
      <3>3. CASE stack' = Done
        BY <1>4, <3>1, <3>2, <3>3, LidFrame DEF Top, Move
      <3>4. CASE stack' # Done
        <4>1. stack' = <<Frame(Step, shown')>> \o Done
          BY <1>4, <3>4, MoveStep
        <4>2. Done \in Seq(Frames)
          BY <3>1, DoneOf DEF Types, DialogTypes
        <4>3. stack' # <<>> /\ Head(stack') = Frame(Step, shown')
          <5> DEFINE F == Frame(Step, shown')  q == Done
          <5>1. q \in Seq(Frames) /\ stack' = <<F>> \o q
            BY <4>1, <4>2
          <5> HIDE DEF F, q
          <5> QED BY <5>1 DEF F
        <4>4. Frame(Step, shown').key = Step
          BY DEF Frame
        <4> QED BY <1>4, <3>1, <3>2, <4>3, <4>4 DEF Top, Move
      <3> QED BY <3>3, <3>4
    <2>2. ~Deciding /\ ~Deciding' /\ Top.key # "lock" /\ Top'.key # "lock"
      BY <2>1, NotInKeys DEF Deciding
    <2>3. Decided'
      BY <1>l, <2>1, <2>2, LidSame DEF Decided
    <2> QED BY <1>l, <2>1, <2>2, <2>3 DEF Notified, LockStored
  <1>5. CASE StoreValue
    <2>1. StoreStep(Top.key, Top.read[Top.key]) /\ Step = "store" /\ stack # <<>>
      BY <1>5 DEF StoreValue, StoreStep
    <2>2. Top.key \in Keys /\ Top.read[Top.key] \in Nat /\ (Top.key \in Flags => Top.read[Top.key] \in {0, 1})
      BY <2>1, TopOf
    <2> QED BY <1>l, <2>1, <2>2, LidStore
  <1>6. CASE StoreBound \/ StoreSwitch \/ UpdateLogindHandleLidSwitch
    <2>1. \E k \in Keys : \E v \in Nat : (k \in Flags => v \in {0, 1}) /\ StoreStep(k, v)
            /\ \/ Step = "bind" /\ k = "blank"
               \/ Step = "switch" /\ k = "brightness-switch"
               \/ Step = "logind" /\ k = "logind-lid" /\ v = (IF LogindHandlesLid THEN 1 ELSE 0)
      BY <1>6, OtherStores
    <2> QED BY <1>l, <2>1, LidStore
  <1>7. CASE StoreSession
    <2>1. /\ stack # <<>> /\ Top.todo # <<>> /\ Step = "session" /\ stack' = Done /\ channel' = channel
          /\ WriteSession(Top.read["lock"])
      BY <1>7 DEF StoreSession
    <2>2. Top.key = "lock" /\ Top.read["lock"] \in {0, 1}
      BY <2>1, TopOf DEF Flags
    <2>3. /\ stack' # <<>> /\ Top'.key = Top.key /\ Top'.read = Top.read
          /\ Len(Top'.todo) = 3 /\ Len(Top.todo) = 4 /\ Top'.todo # <<>>
      <3>1. Len(Top.todo) = 4
        BY <1>l, <2>1, <2>2, LidFrame
      <3>2. /\ stack' # <<>> /\ Top'.key = Top.key /\ Top'.read = Top.read
            /\ Len(Top'.todo) = Len(Top.todo) - 1
        BY <2>1, LidFrame DEF Top
      <3>3. Len(Top'.todo) # 0
        BY <3>1, <3>2
      <3>4. Top'.todo # <<>>
        BY <3>3, NotEmpty
      <3> QED BY <3>1, <3>2, <3>4
    <2>4. \A i \in 1..Len(inbox) : inbox[i].key # "session"
      BY <1>l, <2>1, <2>3 DEF Notified
    <2>5. ASSUME NEW i \in 1..Len(inbox'), inbox'[i].key = "session" PROVE inbox'[i].value = Top.read["lock"]
      <3> DEFINE n == [key |-> "session", value |-> Top.read["lock"]]
      <3>1. n \in Notices /\ n.value = Top.read["lock"]
        BY <2>2 DEF Notices
      <3>2. inbox' = inbox \/ inbox' = Append(inbox, n)
        BY <2>1 DEF WriteSession
      <3> HIDE DEF n
      <3>3. CASE inbox' = Append(inbox, n)
        <4>1. /\ Len(inbox') = Len(inbox) + 1 /\ inbox'[Len(inbox) + 1] = n
              /\ \A m \in 1..Len(inbox) : inbox'[m] = inbox[m]
          BY <1>0, <3>1, <3>3, AppendOf
        <4>2. i \in 1..Len(inbox) \/ i = Len(inbox) + 1
          BY <1>0, <4>1
        <4> QED BY <2>4, <2>5, <3>1, <4>1, <4>2
      <3> QED BY <2>4, <2>5, <3>2, <3>3
    <2>6. Notified'
      BY <2>2, <2>3, <2>5 DEF Notified
    <2> QED BY <2>2, <2>3, <2>6 DEF Decided, Deciding, LockStored
  <1>8. CASE SetLockOnSuspend
    <2>1. /\ stack # <<>> /\ Top.todo # <<>> /\ Step = "locker" /\ stack' = Done /\ channel' = channel /\ inbox' = inbox
      BY <1>8 DEF SetLockOnSuspend
    <2>2. Top.key = "lock"
      BY <2>1, TopOf
    <2>3. /\ stack' # <<>> /\ Top'.key = Top.key /\ Top'.read = Top.read
          /\ Len(Top'.todo) = 1 /\ Len(Top.todo) = 2 /\ Top'.todo # <<>>
      <3>1. Len(Top.todo) = 2
        BY <1>l, <2>1, <2>2, LidFrame
      <3>2. /\ stack' # <<>> /\ Top'.key = Top.key /\ Top'.read = Top.read
            /\ Len(Top'.todo) = Len(Top.todo) - 1
        BY <2>1, LidFrame DEF Top
      <3>3. Len(Top'.todo) # 0
        BY <3>1, <3>2
      <3>4. Top'.todo # <<>>
        BY <3>3, NotEmpty
      <3> QED BY <3>1, <3>2, <3>4
    <2>4. Notified'
      BY <1>l, <2>1, <2>2, <2>3 DEF Notified
    <2>5. LockStored'
      BY <1>l, <2>1, <2>2, <2>3 DEF LockStored
    <2> QED BY <2>2, <2>3, <2>4, <2>5 DEF Decided, Deciding
  <1>9. CASE HandlerReturns
    <2>1. /\ stack # <<>> /\ Top.todo = <<>> /\ stack' = Tail(stack) /\ channel' = channel /\ inbox' = inbox
      BY <1>9 DEF HandlerReturns
    <2>2. Len(Top.todo) <= 2 /\ ~Deciding
      BY <2>1 DEF Deciding
    <2>3. stack' # <<>> => Top'.key \in Sliders /\ Top.key \in Sliders
      <3>1. SUFFICES ASSUME stack' # <<>> PROVE Top'.key \in Sliders /\ Top.key \in Sliders
        OBVIOUS
      <3>2. Frames = SliderFrames /\ Head(stack') = stack[2] /\ Len(stack) >= 2
        BY <2>1, <3>1, PoppedOf DEF Types, DialogTypes
      <3>3. Top \in SliderFrames /\ stack[2] \in SliderFrames
        <4>1. Top \in Frames /\ Len(stack) \in Nat /\ \A i \in 1..Len(stack) : stack[i] \in Frames
          BY <2>1, StackOf DEF Types, DialogTypes
        <4> QED BY <3>2, <4>1
      <3> QED BY <3>2, <3>3 DEF Top, SliderFrames
    <2>4. LogindHandlesLid' <=> LogindHandlesLid
      BY <2>1, LidSame
    <2>5. Decided'
      BY <1>l, <2>1, <2>2, <2>4 DEF Decided
    <2>6. Notified'
      BY <1>l, <2>1, <2>2, <2>3, NotInKeys DEF Notified
    <2>7. LockStored'
      BY <2>3, NotInKeys DEF LockStored
    <2> QED BY <2>5, <2>6, <2>7
  <1>10. ASSUME NEW k \in Widgets, Touches(k), NEW v \in Chosen(k), Sets(k, v) PROVE Decided' /\ Notified' /\ LockStored'
    <2>1. inbox' = <<>> /\ channel' = channel /\ stack = <<>> /\ stack' = <<Frame(k, shown')>>
      <3>1. Len(inbox) = 0
        BY <1>0, <1>10, SettingsAssumption DEF Touches, UserWaits
      <3>2. inbox = <<>>
        BY <1>0, <3>1, EmptySeq
      <3> QED BY <1>10, <3>2 DEF Sets, Touches, Idle
    <2>2. Top'.key = k /\ stack' # <<>> /\ Top'.todo = Steps(k, Reads(k, shown'))
      BY <2>1 DEF Top, Frame
    <2>3. Notified'
      BY <2>1 DEF Notified
    <2>4. LogindHandlesLid' <=> LogindHandlesLid
      BY <2>1, LidSame
    <2>5. CASE k = "lock"
      <3>1. Top'.todo = <<"session", "store", "locker", "logind">>
        BY <1>l, <2>2, <2>5, LockerSteps, NotInKeys DEF Steps
      <3>2. Len(Top'.todo) = 4
        BY <3>1
      <3>4. Top'.todo # <<>>
        BY <3>2, NotEmpty
      <3>3. Decided'
        BY <2>2, <2>5, <3>4 DEF Decided, Deciding
      <3>5. LockStored'
        BY <2>2, <2>5, <3>2 DEF LockStored
      <3> QED BY <2>3, <3>3, <3>5
    <2>6. CASE k \in Lids
      <3>1. Top'.todo = <<"store", "logind">>
        BY <2>2, <2>6 DEF Steps, LidChanged, Lids, Sliders
      <3>2. Top'.todo # <<>>
        BY <3>1
      <3> QED BY <2>2, <2>3, <2>6, <3>2, NotInKeys DEF Decided, Deciding, LockStored
    <2>7. CASE k \notin Lids \cup {"lock"}
      <3>1. ~Deciding /\ ~Deciding'
        BY <2>1, <2>2, <2>7 DEF Deciding
      <3> QED BY <1>l, <2>1, <2>2, <2>3, <2>4, <2>7, <3>1 DEF Decided, LockStored
    <2> QED BY <2>5, <2>6, <2>7
  <1>11. CASE SessionToggles \/ \E k \in Widgets : Reset(k)
    <2>1. "session" \in world.others \/ "reset" \in world.others
      BY <1>11 DEF SessionToggles, Reset
    <2> QED BY <1>l, <2>1 DEF LidAlone
  <1>12. CASE BlankChanges
    <2>0. PICK v \in Drags : /\ Write("blank", v) /\ stack = <<>> /\ Len(inbox) < MaxInbox
                             /\ stack' = <<Frame("blank", shown')>> \/ stack' = stack
      BY <1>12 DEF BlankChanges
    <2>1. v \in Nat /\ "blank" \in Keys /\ "blank" \notin Lids \cup {"lock", "logind-lid"} /\ "blank" \notin Flags
      BY SettingsAssumption DEF Keys, Widgets, Sliders, Lids, Flags
    <2>2. Len(inbox) = 0
      BY <1>0, <2>0, SettingsAssumption DEF UserWaits
    <2>3. \A i \in 1..Len(inbox') : inbox'[i].key # "session"
      <3>1. \A i \in 1..Len(inbox) : FALSE
        BY <2>2
      <3> QED BY <2>0, <2>1, <3>1, NotifiedWrite
    <2>4. stack' = stack \/ (stack' # <<>> /\ Top'.key = "blank")
      BY <2>0 DEF Top, Frame
    <2>5. ~Deciding /\ ~Deciding'
      BY <2>0, <2>1, <2>4 DEF Deciding
    <2>6. Decided'
      <3>1. Decided'
        BY <1>w, <1>l, <2>0, <2>1, <2>5, LidLeftAlone
      <3> QED BY <3>1
    <2> QED BY <2>0, <2>3, <2>4, <2>6 DEF Notified, LockStored
  <1> QED BY <1>1, <1>2, <1>3, <1>4, <1>5, <1>6, <1>7, <1>8, <1>9, <1>10, <1>11, <1>12, UserSets
          DEF Next, HandlerStep

-----------------------------------------------------------------------------
(* The sliders, one handler at a time.  r, e: what handlers read.  v: what the sliders show. *)

LEMMA SameOf ==
    ASSUME NEW v, NEW r
    PROVE  Same(v, r) <=> /\ v["blank"] = r["blank"] /\ v["sleep"] = r["sleep"]
                          /\ v["off"] = r["off"] /\ v["dim"] = r["dim"]
  BY DEF Same, Sliders

LEMMA ButOf ==
    ASSUME NEW e, NEW r, NEW k \in Sliders, But(k, e, r)
    PROVE  /\ k # "blank" => e["blank"] = r["blank"]
           /\ k # "sleep" => e["sleep"] = r["sleep"]
           /\ k # "off" => e["off"] = r["off"]
           /\ k # "dim" => e["dim"] = r["dim"]
  BY DEF But, Sliders

\* The handler of the blank time goes on after the sleep slider has moved.
LEMMA BlankGoesOn ==
    ASSUME NEW r, NEW e, NEW v, InRange(r), InRange(e), InRange(v),
           r["sleep"] # 0, r["blank"] >= r["sleep"],
           e["sleep"] = Least(r["blank"] + 1, 60), But("sleep", e, r), SleepSoFar(0, e, v)
    PROVE  BlankSoFar(2, r, v)
  <1>1. e["blank"] = r["blank"] /\ e["off"] = r["off"] /\ e["dim"] = r["dim"]
    BY ButOf DEF Sliders
  <1> USE <1>1, RangeOf DEF SleepSoFar, Least, Pushed, BlanksBeforeSleep, SleepsBeforeOff, DimsBeforeSleep,
      BrightnessDisabled
  <1>2. v["sleep"] = Least(r["blank"] + 1, 60) \/ (r["blank"] >= 59 /\ v["sleep"] = 59 /\ v["off"] = 60)
    OBVIOUS
  <1>3. BlanksBeforeSleep(v)
    OBVIOUS
  <1>4. SleepsBeforeOff(v)
    OBVIOUS
  <1>5. DimsBeforeSleep(v)
    OBVIOUS
  <1> HIDE DEF SleepSoFar, Least, Pushed, BlanksBeforeSleep, SleepsBeforeOff, DimsBeforeSleep
  <1>6. ~(r["sleep"] = 0 \/ r["blank"] < r["sleep"])
    OBVIOUS
  <1> QED BY <1>2, <1>3, <1>4, <1>5, <1>6 DEF BlankSoFar

\* The handler of the sleep time goes on after the slider for switching off has moved.
LEMMA SleepGoesOnAfterOff ==
    ASSUME NEW r, NEW e, NEW v, InRange(r), InRange(e), InRange(v),
           r["off"] # 0, r["sleep"] >= r["off"],
           e["off"] = Least(r["sleep"] + 1, 60), But("off", e, r), OffSoFar(0, e, v)
    PROVE  SleepSoFar(3, r, v)
  <1>1. e["blank"] = r["blank"] /\ e["sleep"] = r["sleep"] /\ e["dim"] = r["dim"]
    BY ButOf DEF Sliders
  <1> USE <1>1, RangeOf, SameOf DEF OffSoFar, Least, Below, Pushed, Ordered, BlanksBeforeSleep, SleepsBeforeOff,
      DimsBeforeSleep, BrightnessDisabled
  <1>2. v["sleep"] = r["sleep"] \/ Pushed(r, v)
    OBVIOUS
  <1>3. SleepsBeforeOff(v)
    OBVIOUS
  <1>4. (v["blank"] = r["blank"] /\ v["sleep"] = r["sleep"]) \/ BlanksBeforeSleep(v)
    OBVIOUS
  <1>5. r["sleep"] < 60 => v["dim"] = r["dim"]
    OBVIOUS
  <1> HIDE DEF Pushed, BlanksBeforeSleep, SleepsBeforeOff
  <1> QED BY <1>2, <1>3, <1>4, <1>5 DEF SleepSoFar

LEMMA OffGoesOn ==
    ASSUME NEW r, NEW e, NEW v, InRange(r), InRange(e), InRange(v),
           r["sleep"] # 0, r["off"] <= r["sleep"],
           e["sleep"] = Below(r["off"]), But("sleep", e, r), SleepSoFar(0, e, v)
    PROVE  OffSoFar(1, r, v)
  <1>1. e["blank"] = r["blank"] /\ e["off"] = r["off"] /\ e["dim"] = r["dim"]
    BY ButOf DEF Sliders
  <1> USE <1>1, RangeOf DEF SleepSoFar, Below, Pushed
  <1>2. v["off"] = r["off"] /\ v["sleep"] = Below(r["off"])
    OBVIOUS
  <1>3. Ordered(v)
    BY DEF Ordered
  <1>4. ~(r["sleep"] = 0 \/ r["off"] > r["sleep"])
    OBVIOUS
  <1> HIDE DEF SleepSoFar, Below, Pushed
  <1> QED BY <1>2, <1>3, <1>4 DEF OffSoFar

LEMMA DimGoesOn ==
    ASSUME NEW r, NEW e, NEW v, InRange(r), InRange(e), InRange(v),
           r["dim"] # BrightnessDisabled, r["sleep"] # 0, r["sleep"] * 60 <= r["dim"],
           e["sleep"] = (r["dim"] \div 60) + 1, But("sleep", e, r), SleepSoFar(0, e, v)
    PROVE  DimSoFar(1, r, v)
  <1>1. e["blank"] = r["blank"] /\ e["off"] = r["off"] /\ e["dim"] = r["dim"]
    BY ButOf DEF Sliders
  <1>2. /\ r["dim"] \in Int /\ 9 <= r["dim"] /\ r["dim"] <= 120 /\ r["sleep"] \in Int /\ 0 <= r["sleep"]
        /\ e["sleep"] \in Int /\ r["blank"] \in Int /\ v["sleep"] \in Int /\ v["dim"] \in Int
    BY RangeOf
  <1>3. e["sleep"] * 60 > r["dim"] /\ e["sleep"] <= 3 /\ r["sleep"] <= e["sleep"]
    BY <1>2
  <1>4. DimsBeforeSleep(e)
    BY <1>1, <1>2, <1>3 DEF DimsBeforeSleep
  <1>5. Ordered(v)
    BY DEF SleepSoFar, Ordered
  <1>6. r["blank"] < r["sleep"] => v["dim"] = r["dim"]
    BY <1>1, <1>2, <1>3, <1>4 DEF SleepSoFar
  <1>7. ~(r["dim"] = BrightnessDisabled \/ r["sleep"] = 0 \/ r["sleep"] * 60 > r["dim"])
    BY <1>2
  <1> QED BY <1>5, <1>6, <1>7 DEF DimSoFar

LEMMA SleepGoesOnAfterBlank ==
    ASSUME NEW r, NEW e, NEW v, InRange(r), InRange(e), InRange(v),
           r["blank"] # 0, r["blank"] >= r["sleep"], e["blank"] = Below(r["sleep"]),
           e["sleep"] = r["sleep"] \/ Pushed(r, e),
           r["off"] = 0 \/ r["off"] > r["sleep"] => e["off"] = r["off"],
           SleepsBeforeOff(e), BlankSoFar(0, e, v)
    PROVE  SleepSoFar(2, r, v)
  <1> USE RangeOf, SameOf DEF BlankSoFar, Least, Below, Pushed, BlanksBeforeSleep, SleepsBeforeOff
  <1>2. v["sleep"] = r["sleep"] \/ Pushed(r, v)
    OBVIOUS
  <1>3. r["off"] = 0 \/ r["off"] > r["sleep"] => v["off"] = r["off"]
    OBVIOUS
  <1>4. SleepsBeforeOff(v) /\ BlanksBeforeSleep(v)
    OBVIOUS
  <1>5. ~(r["blank"] < r["sleep"])
    OBVIOUS
  <1> HIDE DEF BlankSoFar, Pushed, BlanksBeforeSleep, SleepsBeforeOff
  <1> QED BY <1>2, <1>3, <1>4, <1>5 DEF SleepSoFar

LEMMA DimGivenUp ==
    ASSUME NEW e, NEW v, InRange(e), InRange(v), e["dim"] = BrightnessDisabled, DimSoFar(0, e, v)
    PROVE  Same(v, e)
  BY DEF DimSoFar

\* A handler that moves another slider, v becoming e, calls one that has fewer inside it.
LEMMA BlankCallsSleep ==
    ASSUME NEW r, NEW v, NEW e, InRange(r), InRange(v), InRange(e), BlankSoFar(3, r, v),
           r["sleep"] # 0, r["blank"] >= r["sleep"],
           e["sleep"] = Clamp(r["blank"] + 1, 0, 60), v["sleep"] # e["sleep"], But("sleep", e, v)
    PROVE  /\ e["sleep"] = Least(r["blank"] + 1, 60) /\ But("sleep", e, r)
           /\ SleepHeight(e) < BlankHeight(r)
  <1>1. Same(v, r)
    BY DEF BlankSoFar
  <1>2. e["blank"] = r["blank"] /\ e["off"] = r["off"] /\ e["dim"] = r["dim"]
    BY <1>1, SameOf, ButOf DEF Sliders
  <1>3. e["sleep"] = Least(r["blank"] + 1, 60)
    BY RangeOf DEF Clamp, Least
  <1>4. SleepHeight(e) < BlankHeight(r)
    BY <1>1, <1>2, <1>3, SameOf, RangeOf DEF SleepHeight, BlankHeight, Least
  <1> QED BY <1>2, <1>3, <1>4 DEF But, Sliders

LEMMA SleepCallsOff ==
    ASSUME NEW r, NEW v, NEW e, InRange(r), InRange(v), InRange(e), SleepSoFar(4, r, v),
           r["off"] # 0, r["sleep"] >= r["off"],
           e["off"] = Clamp(r["sleep"] + 1, 0, 60), v["off"] # e["off"], But("off", e, v)
    PROVE  /\ e["off"] = Least(r["sleep"] + 1, 60) /\ But("off", e, r)
           /\ OffHeight(e) < SleepHeight(r)
  <1>1. Same(v, r)
    BY DEF SleepSoFar
  <1>2. e["blank"] = r["blank"] /\ e["sleep"] = r["sleep"] /\ e["dim"] = r["dim"]
    BY <1>1, SameOf, ButOf DEF Sliders
  <1>3. e["off"] = Least(r["sleep"] + 1, 60)
    BY RangeOf DEF Clamp, Least
  <1>4. OffHeight(e) < SleepHeight(r)
    BY <1>1, <1>2, <1>3, SameOf, RangeOf DEF SleepHeight, OffHeight, Least
  <1> QED BY <1>2, <1>3, <1>4 DEF But, Sliders

LEMMA OffCallsSleep ==
    ASSUME NEW r, NEW v, NEW e, InRange(r), InRange(v), InRange(e), OffSoFar(2, r, v),
           r["sleep"] # 0, r["off"] <= r["sleep"],
           e["sleep"] = Clamp(r["off"] - 1, 0, 60), v["sleep"] # e["sleep"], But("sleep", e, v)
    PROVE  /\ e["sleep"] = Below(r["off"]) /\ But("sleep", e, r)
           /\ SleepHeight(e) < OffHeight(r)
  <1>1. Same(v, r)
    BY DEF OffSoFar
  <1>2. e["blank"] = r["blank"] /\ e["off"] = r["off"] /\ e["dim"] = r["dim"]
    BY <1>1, SameOf, ButOf DEF Sliders
  <1>3. e["sleep"] = Below(r["off"])
    BY RangeOf DEF Clamp, Below
  <1>4. SleepHeight(e) < OffHeight(r)
    BY <1>1, <1>2, <1>3, SameOf, RangeOf DEF SleepHeight, OffHeight, Below
  <1> QED BY <1>2, <1>3, <1>4 DEF But, Sliders

LEMMA DimCallsSleep ==
    ASSUME NEW r, NEW v, NEW e, InRange(r), InRange(v), InRange(e), DimSoFar(2, r, v),
           r["dim"] # BrightnessDisabled, r["sleep"] # 0, r["sleep"] * 60 <= r["dim"],
           e["sleep"] = Clamp((r["dim"] \div 60) + 1, 0, 60), v["sleep"] # e["sleep"], But("sleep", e, v)
    PROVE  /\ e["sleep"] = (r["dim"] \div 60) + 1 /\ But("sleep", e, r)
           /\ SleepHeight(e) < DimHeight(r)
  <1>1. Same(v, r)
    BY DEF DimSoFar
  <1>2. e["blank"] = r["blank"] /\ e["off"] = r["off"] /\ e["dim"] = r["dim"]
    BY <1>1, SameOf, ButOf DEF Sliders
  <1>3. r["dim"] \in Int /\ 9 <= r["dim"] /\ r["dim"] <= 120
    BY RangeOf
  <1>4. e["sleep"] = (r["dim"] \div 60) + 1 /\ e["sleep"] <= 3
    BY <1>3 DEF Clamp
  <1>5. SleepHeight(e) < DimHeight(r)
    BY <1>4, RangeOf DEF SleepHeight, DimHeight
  <1> QED BY <1>2, <1>4, <1>5 DEF But, Sliders

LEMMA SleepCallsBlank ==
    ASSUME NEW r, NEW v, NEW e, InRange(r), InRange(v), InRange(e), SleepSoFar(3, r, v),
           r["blank"] # 0, r["blank"] >= r["sleep"],
           e["blank"] = Clamp(r["sleep"] - 1, 0, 60), v["blank"] # e["blank"], But("blank", e, v)
    PROVE  /\ e["blank"] = Below(r["sleep"]) /\ (e["sleep"] = r["sleep"] \/ Pushed(r, e))
           /\ r["off"] = 0 \/ r["off"] > r["sleep"] => e["off"] = r["off"]
           /\ SleepsBeforeOff(e) /\ BlankHeight(e) < SleepHeight(r)
  <1>2. e["sleep"] = v["sleep"] /\ e["off"] = v["off"] /\ e["dim"] = v["dim"]
    BY ButOf DEF Sliders
  <1>3. e["blank"] = Below(r["sleep"])
    BY RangeOf DEF Clamp, Below
  <1>4. /\ v["sleep"] = r["sleep"] \/ Pushed(r, v)
        /\ r["off"] = 0 \/ r["off"] > r["sleep"] => v["off"] = r["off"]
        /\ SleepsBeforeOff(v)
        /\ (v["blank"] = r["blank"] /\ v["sleep"] = r["sleep"]) \/ BlanksBeforeSleep(v)
    BY DEF SleepSoFar
  <1>5. SleepsBeforeOff(e) /\ (e["sleep"] = r["sleep"] \/ Pushed(r, e))
    BY <1>2, <1>4 DEF SleepsBeforeOff, Pushed
  <1>6. BlankHeight(e) < SleepHeight(r)
    BY <1>2, <1>3, <1>4, RangeOf DEF SleepHeight, BlankHeight, Below, Pushed, SleepsBeforeOff, BlanksBeforeSleep
  <1> QED BY <1>2, <1>3, <1>4, <1>5, <1>6

\* Giving up dimming leaves a handler where it is.
LEMMA BlankGivesUp ==
    ASSUME NEW r, NEW v, NEW e, InRange(r), InRange(v), InRange(e), BlankSoFar(2, r, v),
           60 * r["blank"] <= v["dim"], e["dim"] = BrightnessDisabled, But("dim", e, v)
    PROVE  BlankSoFar(1, r, e) /\ DimHeight(e) < BlankHeight(r)
  <1>1. e["blank"] = v["blank"] /\ e["sleep"] = v["sleep"] /\ e["off"] = v["off"]
    BY ButOf DEF Sliders
  <1>2. BlankSoFar(1, r, e)
    BY <1>1 DEF BlankSoFar, BlanksBeforeSleep, SleepsBeforeOff, DimsBeforeSleep
  <1>3. DimHeight(e) < BlankHeight(r)
    BY RangeOf DEF DimHeight, BlankHeight
  <1> QED BY <1>2, <1>3

LEMMA SleepGivesUp ==
    ASSUME NEW r, NEW v, NEW e, InRange(r), InRange(v), InRange(e), SleepSoFar(2, r, v),
           60 * r["sleep"] <= v["dim"], world.lcd, e["dim"] = BrightnessDisabled, But("dim", e, v)
    PROVE  SleepSoFar(1, r, e) /\ DimHeight(e) < SleepHeight(r)
  <1>1. e["blank"] = v["blank"] /\ e["sleep"] = v["sleep"] /\ e["off"] = v["off"]
    BY ButOf DEF Sliders
  <1>2. /\ e["sleep"] = r["sleep"] \/ Pushed(r, e)
        /\ r["off"] = 0 \/ r["off"] > r["sleep"] => e["off"] = r["off"]
        /\ SleepsBeforeOff(e) /\ BlanksBeforeSleep(e) /\ DimsBeforeSleep(e)
    BY <1>1 DEF SleepSoFar, Pushed, BlanksBeforeSleep, SleepsBeforeOff, DimsBeforeSleep
  <1>3. r["blank"] < r["sleep"] /\ r["sleep"] < 60 /\ DimsBeforeSleep(r) => e["dim"] = r["dim"]
    BY <1>1, RangeOf DEF SleepSoFar, DimsBeforeSleep, BrightnessDisabled, Pushed
  <1>4. DimHeight(e) < SleepHeight(r)
    BY RangeOf DEF DimHeight, SleepHeight
  <1> QED BY <1>2, <1>3, <1>4 DEF SleepSoFar

\* Nothing is in the way of a handler, or has already made room for it.
LEMMA BlankPassesSleep ==
    ASSUME NEW r, NEW v, InRange(r), InRange(v), BlankSoFar(3, r, v),
           r["sleep"] # 0 /\ r["blank"] >= r["sleep"] => v["sleep"] = Clamp(r["blank"] + 1, 0, 60)
    PROVE  BlankSoFar(2, r, v)
  <1>1. Same(v, r)
    BY DEF BlankSoFar
  <1>2. BlanksBeforeSleep(v)
    BY <1>1, SameOf, RangeOf DEF BlanksBeforeSleep, Clamp
  <1>3. ~(r["sleep"] = 0 \/ r["blank"] < r["sleep"]) => v["sleep"] = Least(r["blank"] + 1, 60)
    BY <1>1, SameOf, RangeOf DEF Clamp, Least
  <1>4. (SleepsBeforeOff(r) => SleepsBeforeOff(v)) /\ (DimsBeforeSleep(r) => DimsBeforeSleep(v))
    BY <1>1, SameOf DEF SleepsBeforeOff, DimsBeforeSleep
  <1> QED BY <1>1, <1>2, <1>3, <1>4, SameOf DEF BlankSoFar

LEMMA SleepPassesOff ==
    ASSUME NEW r, NEW v, InRange(r), InRange(v), SleepSoFar(4, r, v),
           r["off"] # 0 /\ r["sleep"] >= r["off"] => v["off"] = Clamp(r["sleep"] + 1, 0, 60)
    PROVE  SleepSoFar(3, r, v)
  <1>1. Same(v, r)
    BY DEF SleepSoFar
  <1>2. SleepsBeforeOff(v)
    BY <1>1, SameOf, RangeOf DEF SleepsBeforeOff, Clamp
  <1> QED BY <1>1, <1>2, SameOf DEF SleepSoFar

LEMMA SleepPassesBlank ==
    ASSUME NEW r, NEW v, InRange(r), InRange(v), SleepSoFar(3, r, v),
           r["blank"] # 0 /\ r["blank"] >= r["sleep"] => v["blank"] = Clamp(r["sleep"] - 1, 0, 60)
    PROVE  SleepSoFar(2, r, v)
  <1>1. BlanksBeforeSleep(v)
    BY RangeOf DEF SleepSoFar, BlanksBeforeSleep, Clamp, Pushed
  <1> QED BY <1>1 DEF SleepSoFar

LEMMA SleepPassesDim ==
    ASSUME NEW r, NEW v, InRange(r), InRange(v), SleepSoFar(2, r, v),
           world.lcd /\ 60 * r["sleep"] <= v["dim"] => v["dim"] = BrightnessDisabled
    PROVE  SleepSoFar(1, r, v)
  <1>1. DimsBeforeSleep(v)
    BY RangeOf DEF SleepSoFar, DimsBeforeSleep, Pushed, BrightnessDisabled
  <1> QED BY <1>1 DEF SleepSoFar

LEMMA OffPassesSleep ==
    ASSUME NEW r, NEW v, InRange(r), InRange(v), OffSoFar(2, r, v),
           r["sleep"] # 0 /\ r["off"] <= r["sleep"] => v["sleep"] = Clamp(r["off"] - 1, 0, 60)
    PROVE  OffSoFar(1, r, v)
  <1>1. Same(v, r)
    BY DEF OffSoFar
  <1>2. r["sleep"] = 0 \/ r["off"] > r["sleep"] \/ (r["off"] = 0 /\ r["sleep"] = 0)
    BY <1>1, SameOf, RangeOf DEF Clamp
  <1> QED BY <1>1, <1>2, SameOf DEF OffSoFar

LEMMA DimPassesSleep ==
    ASSUME NEW r, NEW v, InRange(r), InRange(v), DimSoFar(2, r, v),
           r["dim"] # BrightnessDisabled /\ r["sleep"] # 0 /\ r["sleep"] * 60 <= r["dim"] =>
               v["sleep"] = Clamp((r["dim"] \div 60) + 1, 0, 60)
    PROVE  DimSoFar(1, r, v)
  <1>1. Same(v, r)
    BY DEF DimSoFar
  <1>2. r["dim"] = BrightnessDisabled \/ r["sleep"] = 0 \/ r["sleep"] * 60 > r["dim"]
    <2>1. /\ r["dim"] \in Int /\ 9 <= r["dim"] /\ r["dim"] <= 120 /\ r["sleep"] \in Int /\ 0 <= r["sleep"]
          /\ v["sleep"] = r["sleep"]
      BY <1>1, SameOf, RangeOf
    <2> QED BY <2>1 DEF Clamp
  <1> QED BY <1>1, <1>2, SameOf DEF DimSoFar

\* What a handler does last does not move a slider.
LEMMA StoresSoFar ==
    ASSUME NEW r, NEW v
    PROVE  /\ BlankSoFar(2, r, v) => BlankSoFar(1, r, v)
           /\ BlankSoFar(1, r, v) => BlankSoFar(0, r, v)
           /\ SleepSoFar(1, r, v) => SleepSoFar(0, r, v)
           /\ OffSoFar(1, r, v) => OffSoFar(0, r, v)
           /\ DimSoFar(1, r, v) => DimSoFar(0, r, v)
  BY DEF BlankSoFar, SleepSoFar, OffSoFar, DimSoFar

LEMMA SoFarOf ==
    ASSUME NEW f, NEW v
    PROVE  /\ f.key = "blank" => (SoFar(f, v) <=> BlankSoFar(Len(f.todo), f.read, v)) /\ Height(f) = BlankHeight(f.read)
           /\ f.key = "sleep" => (SoFar(f, v) <=> SleepSoFar(Len(f.todo), f.read, v)) /\ Height(f) = SleepHeight(f.read)
           /\ f.key = "off" => (SoFar(f, v) <=> OffSoFar(Len(f.todo), f.read, v)) /\ Height(f) = OffHeight(f.read)
           /\ f.key = "dim" => (SoFar(f, v) <=> DimSoFar(Len(f.todo), f.read, v)) /\ Height(f) = DimHeight(f.read)
  BY DEF SoFar, Height

LEMMA FrameOf ==
    ASSUME NEW f \in SliderFrames
    PROVE  /\ f.key \in Sliders /\ f.todo \in Todos(f.key) /\ InRange(f.read) /\ Len(f.todo) \in Nat
           /\ f.todo # <<>> =>
                /\ Stepped(f) \in SliderFrames /\ Stepped(f).key = f.key /\ Stepped(f).read = f.read
                /\ Len(Stepped(f).todo) = Len(f.todo) - 1
                /\ f.key = "blank" => /\ Len(f.todo) \in 1..3
                                      /\ Head(f.todo) = "sleep" <=> Len(f.todo) = 3
                                      /\ Head(f.todo) = "dim" <=> Len(f.todo) = 2
                                      /\ Head(f.todo) = "bind" <=> Len(f.todo) = 1
                /\ f.key = "sleep" => /\ Len(f.todo) \in 1..4
                                      /\ Head(f.todo) = "off" <=> Len(f.todo) = 4
                                      /\ Head(f.todo) = "blank" <=> Len(f.todo) = 3
                                      /\ Head(f.todo) = "dim" <=> Len(f.todo) = 2
                                      /\ Head(f.todo) = "store" <=> Len(f.todo) = 1
                /\ f.key \in {"off", "dim"} => /\ Len(f.todo) \in 1..2
                                               /\ Head(f.todo) = "sleep" <=> Len(f.todo) = 2
                                               /\ Head(f.todo) = "store" <=> Len(f.todo) = 1
  <1>1. f.key \in Sliders /\ f.todo \in Todos(f.key) /\ InRange(f.read) /\ f.key \in Widgets
    BY DEF SliderFrames, SliderReads, InRange, Widgets
  <1>2. Len(f.todo) \in Nat
    BY <1>1, TodoOf
  <1>3. f.todo # <<>> => /\ Stepped(f) \in SliderFrames /\ Stepped(f).key = f.key /\ Stepped(f).read = f.read
                         /\ Len(Stepped(f).todo) = Len(f.todo) - 1
    BY SteppedOf
  <1> QED BY <1>1, <1>2, <1>3, StepOf

LEMMA LowHigh ==
    /\ Low("blank") = 0 /\ High("blank") = 60 /\ Low("sleep") = 0 /\ High("sleep") = 60
    /\ Low("off") = 0 /\ High("off") = 60 /\ Low("dim") = 9 /\ High("dim") = 120
  BY DEF Low, High

\* Where a handler may move which slider.
LEMMA MovesOf ==
    ASSUME NEW r, NEW w
    PROVE  /\ w \in Moves("blank", "sleep", r) <=> r["sleep"] # 0 /\ r["blank"] >= r["sleep"] /\ w = r["blank"] + 1
           /\ w \in Moves("off", "sleep", r) <=> r["sleep"] # 0 /\ r["off"] <= r["sleep"] /\ w = r["off"] - 1
           /\ w \in Moves("dim", "sleep", r) <=>
                /\ r["dim"] # BrightnessDisabled /\ r["sleep"] # 0 /\ r["sleep"] * 60 <= r["dim"]
                /\ w = (r["dim"] \div 60) + 1
           /\ w \in Moves("sleep", "off", r) <=> r["off"] # 0 /\ r["sleep"] >= r["off"] /\ w = r["sleep"] + 1
           /\ w \in Moves("sleep", "blank", r) <=> r["blank"] # 0 /\ r["blank"] >= r["sleep"] /\ w = r["sleep"] - 1
           /\ w \in Moves("blank", "dim", r) <=>
                /\ world.lcd /\ r["blank"] * 60 <= shown["dim"] /\ shown["dim"] # BrightnessDisabled
                /\ w = BrightnessDisabled
           /\ w \in Moves("sleep", "dim", r) <=>
                /\ world.lcd /\ r["sleep"] * 60 <= shown["dim"] /\ shown["dim"] # BrightnessDisabled
                /\ w = BrightnessDisabled
  <1> USE DEF Moves
  <1>1. w \in Moves("blank", "sleep", r) <=> r["sleep"] # 0 /\ r["blank"] >= r["sleep"] /\ w = r["blank"] + 1
    BY DEF BlankMovesSleep
  <1>2. w \in Moves("off", "sleep", r) <=> r["sleep"] # 0 /\ r["off"] <= r["sleep"] /\ w = r["off"] - 1
    BY DEF OffMovesSleep
  <1>3. w \in Moves("dim", "sleep", r) <=>
                /\ r["dim"] # BrightnessDisabled /\ r["sleep"] # 0 /\ r["sleep"] * 60 <= r["dim"]
                /\ w = (r["dim"] \div 60) + 1
    BY DEF DimMovesSleep
  <1>4. w \in Moves("sleep", "off", r) <=> r["off"] # 0 /\ r["sleep"] >= r["off"] /\ w = r["sleep"] + 1
    BY DEF SleepMovesOff
  <1>5. w \in Moves("sleep", "blank", r) <=> r["blank"] # 0 /\ r["blank"] >= r["sleep"] /\ w = r["sleep"] - 1
    BY DEF SleepMovesBlank
  <1>6. /\ w \in Moves("blank", "dim", r) <=>
                /\ world.lcd /\ r["blank"] * 60 <= shown["dim"] /\ shown["dim"] # BrightnessDisabled
                /\ w = BrightnessDisabled
    BY DEF GivesUpDimming
  <1>7. w \in Moves("sleep", "dim", r) <=>
                /\ world.lcd /\ r["sleep"] * 60 <= shown["dim"] /\ shown["dim"] # BrightnessDisabled
                /\ w = BrightnessDisabled
    BY DEF GivesUpDimming
  <1> QED BY <1>1, <1>2, <1>3, <1>4, <1>5, <1>6, <1>7

\* Nothing moves: the handler goes on.
LEMMA Passes ==
    ASSUME NEW f \in SliderFrames, f.todo # <<>>, Head(f.todo) \in Sliders, InRange(shown), SoFar(f, shown),
           \A w \in Moves(f.key, Head(f.todo), f.read) :
               shown[Head(f.todo)] = Clamp(w, Low(Head(f.todo)), High(Head(f.todo)))
    PROVE  SoFar(Stepped(f), shown)
  <1> DEFINE r == f.read  t == Head(f.todo)  n == Len(f.todo)
  <1>0. /\ f.key \in Sliders /\ InRange(r) /\ n \in Nat
        /\ Stepped(f).key = f.key /\ Stepped(f).read = r /\ Len(Stepped(f).todo) = n - 1
    BY FrameOf
  <1>r. /\ r["blank"] \in Int /\ r["sleep"] \in Int /\ r["off"] \in Int /\ r["dim"] \in Int
    BY <1>0, RangeOf
  <1>m. \A w \in Moves(f.key, t, r) : shown[t] = Clamp(w, Low(t), High(t))
    OBVIOUS
  <1>b. f.key = "blank" => (SoFar(Stepped(f), shown) <=> BlankSoFar(n - 1, r, shown))
    BY <1>0, SoFarOf
  <1>s. f.key = "sleep" => (SoFar(Stepped(f), shown) <=> SleepSoFar(n - 1, r, shown))
    BY <1>0, SoFarOf
  <1>o. f.key = "off" => (SoFar(Stepped(f), shown) <=> OffSoFar(n - 1, r, shown))
    BY <1>0, SoFarOf
  <1>d. f.key = "dim" => (SoFar(Stepped(f), shown) <=> DimSoFar(n - 1, r, shown))
    BY <1>0, SoFarOf
  <1>f. /\ f.key = "blank" => BlankSoFar(n, r, shown)
        /\ f.key = "sleep" => SleepSoFar(n, r, shown)
        /\ f.key = "off" => OffSoFar(n, r, shown)
        /\ f.key = "dim" => DimSoFar(n, r, shown)
    BY SoFarOf
  <1>t. t \in Sliders
    OBVIOUS
  <1>h1. f.key = "blank" => n \in 1..3 /\ (t = "sleep" <=> n = 3) /\ (t = "dim" <=> n = 2) /\ (t = "bind" <=> n = 1)
    BY FrameOf
  <1>h2. f.key = "sleep" =>
            /\ n \in 1..4
            /\ (t = "off" <=> n = 4) /\ (t = "blank" <=> n = 3) /\ (t = "dim" <=> n = 2) /\ (t = "store" <=> n = 1)
    BY FrameOf
  <1>h3. f.key \in {"off", "dim"} => n \in 1..2 /\ (t = "sleep" <=> n = 2) /\ (t = "store" <=> n = 1)
    BY FrameOf
  <1> HIDE DEF r, t, n
  <1>1. CASE f.key = "blank" /\ t = "sleep"
    <2>1. n = 3
      BY <1>1, <1>h1
    <2>2. BlankSoFar(3, r, shown)
      BY <1>1, <2>1, <1>f
    <2>3. ASSUME r["sleep"] # 0 /\ r["blank"] >= r["sleep"]
          PROVE  shown["sleep"] = Clamp(r["blank"] + 1, 0, 60)
      <3>1. r["blank"] + 1 \in Moves("blank", "sleep", r)
        BY <2>3, MovesOf
      <3> QED BY <1>1, <1>m, <3>1, LowHigh
    <2>4. BlankSoFar(2, r, shown)
      BY <1>0, <2>2, <2>3, BlankPassesSleep
    <2> QED BY <1>b, <1>1, <2>1, <2>4
  <1>2. CASE f.key = "blank" /\ t = "dim"
    <2>1. n = 2
      BY <1>2, <1>h1
    <2>2. BlankSoFar(1, r, shown)
      BY <1>2, <2>1, <1>f, <1>0, StoresSoFar
    <2> QED BY <1>b, <1>2, <2>1, <2>2
  <1>3. CASE f.key = "sleep" /\ t = "off"
    <2>1. n = 4
      BY <1>3, <1>h2
    <2>2. SleepSoFar(4, r, shown)
      BY <1>3, <2>1, <1>f
    <2>3. ASSUME r["off"] # 0 /\ r["sleep"] >= r["off"]
          PROVE  shown["off"] = Clamp(r["sleep"] + 1, 0, 60)
      <3>1. r["sleep"] + 1 \in Moves("sleep", "off", r)
        BY <2>3, MovesOf
      <3> QED BY <1>3, <1>m, <3>1, LowHigh
    <2>4. SleepSoFar(3, r, shown)
      BY <1>0, <2>2, <2>3, SleepPassesOff
    <2> QED BY <1>s, <1>3, <2>1, <2>4
  <1>4. CASE f.key = "sleep" /\ t = "blank"
    <2>1. n = 3
      BY <1>4, <1>h2
    <2>2. SleepSoFar(3, r, shown)
      BY <1>4, <2>1, <1>f
    <2>3. ASSUME r["blank"] # 0 /\ r["blank"] >= r["sleep"]
          PROVE  shown["blank"] = Clamp(r["sleep"] - 1, 0, 60)
      <3>1. r["sleep"] - 1 \in Moves("sleep", "blank", r)
        BY <2>3, MovesOf
      <3> QED BY <1>4, <1>m, <3>1, LowHigh
    <2>4. SleepSoFar(2, r, shown)
      BY <1>0, <2>2, <2>3, SleepPassesBlank
    <2> QED BY <1>s, <1>4, <2>1, <2>4
  <1>5. CASE f.key = "sleep" /\ t = "dim"
    <2>1. n = 2
      BY <1>5, <1>h2
    <2>2. SleepSoFar(2, r, shown)
      BY <1>5, <2>1, <1>f
    <2>3. world.lcd /\ 60 * r["sleep"] <= shown["dim"] => shown["dim"] = BrightnessDisabled
      <3>1. SUFFICES ASSUME world.lcd, 60 * r["sleep"] <= shown["dim"], shown["dim"] # BrightnessDisabled PROVE FALSE
        OBVIOUS
      <3>2. r["sleep"] * 60 = 60 * r["sleep"]
        BY <1>r
      <3>3. BrightnessDisabled \in Moves("sleep", "dim", r)
        BY <3>1, <3>2, MovesOf
      <3>4. shown["dim"] = Clamp(BrightnessDisabled, 9, 120)
        BY <1>5, <1>m, <3>3, LowHigh
      <3>5. Clamp(BrightnessDisabled, 9, 120) = BrightnessDisabled
        BY DEF Clamp, BrightnessDisabled
      <3> QED BY <3>1, <3>4, <3>5
    <2>4. SleepSoFar(1, r, shown)
      BY <1>0, <2>2, <2>3, SleepPassesDim
    <2> QED BY <1>s, <1>5, <2>1, <2>4
  <1>6. CASE f.key = "off" /\ t = "sleep"
    <2>1. n = 2
      BY <1>6, <1>h3
    <2>2. OffSoFar(2, r, shown)
      BY <1>6, <2>1, <1>f
    <2>3. ASSUME r["sleep"] # 0 /\ r["off"] <= r["sleep"]
          PROVE  shown["sleep"] = Clamp(r["off"] - 1, 0, 60)
      <3>1. r["off"] - 1 \in Moves("off", "sleep", r)
        BY <2>3, MovesOf
      <3> QED BY <1>6, <1>m, <3>1, LowHigh
    <2>4. OffSoFar(1, r, shown)
      BY <1>0, <2>2, <2>3, OffPassesSleep
    <2> QED BY <1>o, <1>6, <2>1, <2>4
  <1>7. CASE f.key = "dim" /\ t = "sleep"
    <2>1. n = 2
      BY <1>7, <1>h3
    <2>2. DimSoFar(2, r, shown)
      BY <1>7, <2>1, <1>f
    <2>3. ASSUME r["dim"] # BrightnessDisabled /\ r["sleep"] # 0 /\ r["sleep"] * 60 <= r["dim"]
          PROVE  shown["sleep"] = Clamp((r["dim"] \div 60) + 1, 0, 60)
      <3>1. (r["dim"] \div 60) + 1 \in Moves("dim", "sleep", r)
        BY <2>3, MovesOf
      <3> QED BY <1>7, <1>m, <3>1, LowHigh
    <2>4. DimSoFar(1, r, shown)
      BY <1>0, <2>2, <2>3, DimPassesSleep
    <2> QED BY <1>d, <1>7, <2>1, <2>4
  <1>8. \/ f.key = "blank" /\ t \in {"sleep", "dim"}
        \/ f.key = "sleep" /\ t \in {"off", "blank", "dim"}
        \/ f.key \in {"off", "dim"} /\ t = "sleep"
    <2>1. t \notin {"bind", "store"}
      BY <1>t DEF Sliders
    <2>2. f.key \in {"blank", "sleep", "off", "dim"}
      BY <1>0 DEF Sliders
    <2>3. CASE f.key = "blank"
      <3>1. n \in 1..3 /\ (t = "sleep" <=> n = 3) /\ (t = "dim" <=> n = 2) /\ (t = "bind" <=> n = 1)
        BY <2>3, <1>h1
      <3> QED BY <2>1, <2>3, <3>1
    <2>4. CASE f.key = "sleep"
      <3>1. /\ n \in 1..4
            /\ (t = "off" <=> n = 4) /\ (t = "blank" <=> n = 3) /\ (t = "dim" <=> n = 2) /\ (t = "store" <=> n = 1)
        BY <2>4, <1>h2
      <3> QED BY <2>1, <2>4, <3>1
    <2>5. CASE f.key \in {"off", "dim"}
      <3>1. n \in 1..2 /\ (t = "sleep" <=> n = 2) /\ (t = "store" <=> n = 1)
        BY <2>5, <1>h3
      <3> QED BY <2>1, <2>5, <3>1
    <2> QED BY <2>2, <2>3, <2>4, <2>5
  <1> QED BY <1>1, <1>2, <1>3, <1>4, <1>5, <1>6, <1>7, <1>8

\* A slider is moved: the handler waits for the one of that slider, which has fewer inside it.
LEMMA Calls ==
    ASSUME NEW f \in SliderFrames, f.todo # <<>>, Head(f.todo) \in Sliders, InRange(shown), SoFar(f, shown),
           NEW w \in Moves(f.key, Head(f.todo), f.read), NEW F \in SliderFrames, F.key = Head(f.todo),
           F.read[F.key] = Clamp(w, Low(F.key), High(F.key)), shown[F.key] # F.read[F.key],
           But(F.key, F.read, shown)
    PROVE  Waits(Stepped(f), F) /\ Height(F) < Height(f)
  <1> DEFINE r == f.read  t == F.key  n == Len(f.todo)  e == F.read  g == Stepped(f)
  <1>0. /\ f.key \in Sliders /\ InRange(r) /\ n \in Nat
        /\ g.key = f.key /\ g.read = r /\ Len(g.todo) = n - 1
    BY FrameOf
  <1>e. InRange(e) /\ t \in Sliders
    BY FrameOf
  <1>w. w \in Moves(f.key, t, r) /\ e[t] = Clamp(w, Low(t), High(t)) /\ shown[t] # e[t] /\ But(t, e, shown)
    OBVIOUS
  <1>f. /\ f.key = "blank" => BlankSoFar(n, r, shown) /\ Height(f) = BlankHeight(r)
        /\ f.key = "sleep" => SleepSoFar(n, r, shown) /\ Height(f) = SleepHeight(r)
        /\ f.key = "off" => OffSoFar(n, r, shown) /\ Height(f) = OffHeight(r)
        /\ f.key = "dim" => DimSoFar(n, r, shown) /\ Height(f) = DimHeight(r)
    BY SoFarOf
  <1>g. /\ f.key = "blank" => (SoFar(g, e) <=> BlankSoFar(n - 1, r, e))
        /\ f.key = "sleep" => (SoFar(g, e) <=> SleepSoFar(n - 1, r, e))
    BY <1>0, SoFarOf
  <1>F. /\ t = "blank" => Height(F) = BlankHeight(e)
        /\ t = "sleep" => Height(F) = SleepHeight(e)
        /\ t = "off" => Height(F) = OffHeight(e)
        /\ t = "dim" => Height(F) = DimHeight(e)
    BY SoFarOf
  <1>h1. f.key = "blank" => n \in 1..3 /\ (t = "sleep" <=> n = 3) /\ (t = "dim" <=> n = 2) /\ (t = "bind" <=> n = 1)
    BY FrameOf
  <1>h2. f.key = "sleep" =>
            /\ n \in 1..4
            /\ (t = "off" <=> n = 4) /\ (t = "blank" <=> n = 3) /\ (t = "dim" <=> n = 2) /\ (t = "store" <=> n = 1)
    BY FrameOf
  <1>h3. f.key \in {"off", "dim"} => n \in 1..2 /\ (t = "sleep" <=> n = 2) /\ (t = "store" <=> n = 1)
    BY FrameOf
  <1>W. /\ f.key = "blank" /\ t = "sleep" /\ n = 3 /\ r["sleep"] # 0 /\ r["blank"] >= r["sleep"]
           /\ e["sleep"] = Least(r["blank"] + 1, 60) /\ But("sleep", e, r) => Waits(g, F)
        /\ f.key = "sleep" /\ t = "off" /\ n = 4 /\ r["off"] # 0 /\ r["sleep"] >= r["off"]
           /\ e["off"] = Least(r["sleep"] + 1, 60) /\ But("off", e, r) => Waits(g, F)
        /\ f.key = "off" /\ t = "sleep" /\ n = 2 /\ r["sleep"] # 0 /\ r["off"] <= r["sleep"]
           /\ e["sleep"] = Below(r["off"]) /\ But("sleep", e, r) => Waits(g, F)
        /\ f.key = "dim" /\ t = "sleep" /\ n = 2
           /\ r["dim"] # BrightnessDisabled /\ r["sleep"] # 0 /\ r["sleep"] * 60 <= r["dim"]
           /\ e["sleep"] = (r["dim"] \div 60) + 1 /\ But("sleep", e, r) => Waits(g, F)
    <2> HIDE DEF g
    <2> QED BY <1>0 DEF Waits
  <1>V. /\ /\ f.key = "sleep" /\ t = "blank" /\ n = 3 /\ r["blank"] # 0 /\ r["blank"] >= r["sleep"]
           /\ e["blank"] = Below(r["sleep"]) /\ (e["sleep"] = r["sleep"] \/ Pushed(r, e))
           /\ r["off"] = 0 \/ r["off"] > r["sleep"] => e["off"] = r["off"]
           /\ SleepsBeforeOff(e)
           => Waits(g, F)
        /\ f.key \in {"blank", "sleep"} /\ t = "dim" /\ e["dim"] = BrightnessDisabled /\ SoFar(g, e) => Waits(g, F)
    <2> HIDE DEF g
    <2> QED BY <1>0 DEF Waits
  <1> HIDE DEF r, t, n, e, g
  <1>1. CASE f.key = "blank" /\ t = "sleep"
    <2>1. n = 3 /\ BlankSoFar(3, r, shown)
      BY <1>1, <1>h1, <1>f
    <2>2. r["sleep"] # 0 /\ r["blank"] >= r["sleep"] /\ w = r["blank"] + 1
      BY <1>1, <1>w, MovesOf
    <2>3. e["sleep"] = Clamp(r["blank"] + 1, 0, 60) /\ shown["sleep"] # e["sleep"] /\ But("sleep", e, shown)
      BY <1>1, <1>w, <2>2, LowHigh
    <2>4. /\ e["sleep"] = Least(r["blank"] + 1, 60) /\ But("sleep", e, r)
          /\ SleepHeight(e) < BlankHeight(r)
      BY <1>0, <1>e, <2>1, <2>2, <2>3, BlankCallsSleep
    <2>w. Waits(g, F)
      BY <1>1, <1>W, <2>1, <2>2, <2>4
    <2>h. Height(f) = BlankHeight(r) /\ Height(F) = SleepHeight(e)
      BY <1>1, <1>f, <1>F
    <2> QED BY <2>4, <2>w, <2>h DEF g
  <1>2. CASE f.key = "blank" /\ t = "dim"
    <2>1. n = 2 /\ BlankSoFar(2, r, shown)
      BY <1>2, <1>h1, <1>f
    <2>2. r["blank"] * 60 <= shown["dim"] /\ w = BrightnessDisabled
      BY <1>2, <1>w, MovesOf
    <2>3. 60 * r["blank"] <= shown["dim"]
      BY <2>2, <1>0, RangeOf
    <2>4. e["dim"] = BrightnessDisabled /\ But("dim", e, shown)
      BY <1>2, <1>w, <2>2, LowHigh DEF Clamp, BrightnessDisabled
    <2>5. BlankSoFar(1, r, e) /\ DimHeight(e) < BlankHeight(r)
      BY <1>0, <1>e, <2>1, <2>3, <2>4, BlankGivesUp
    <2>s. SoFar(g, e)
      BY <1>2, <1>g, <2>1, <2>5
    <2>w. Waits(g, F)
      BY <1>2, <1>V, <2>4, <2>s
    <2>h. Height(f) = BlankHeight(r) /\ Height(F) = DimHeight(e)
      BY <1>2, <1>f, <1>F
    <2> QED BY <2>5, <2>w, <2>h DEF g
  <1>3. CASE f.key = "sleep" /\ t = "off"
    <2>1. n = 4 /\ SleepSoFar(4, r, shown)
      BY <1>3, <1>h2, <1>f
    <2>2. r["off"] # 0 /\ r["sleep"] >= r["off"] /\ w = r["sleep"] + 1
      BY <1>3, <1>w, MovesOf
    <2>3. e["off"] = Clamp(r["sleep"] + 1, 0, 60) /\ shown["off"] # e["off"] /\ But("off", e, shown)
      BY <1>3, <1>w, <2>2, LowHigh
    <2>4. /\ e["off"] = Least(r["sleep"] + 1, 60) /\ But("off", e, r)
          /\ OffHeight(e) < SleepHeight(r)
      BY <1>0, <1>e, <2>1, <2>2, <2>3, SleepCallsOff
    <2>w. Waits(g, F)
      BY <1>3, <1>W, <2>1, <2>2, <2>4
    <2>h. Height(f) = SleepHeight(r) /\ Height(F) = OffHeight(e)
      BY <1>3, <1>f, <1>F
    <2> QED BY <2>4, <2>w, <2>h DEF g
  <1>4. CASE f.key = "sleep" /\ t = "blank"
    <2>1. n = 3 /\ SleepSoFar(3, r, shown)
      BY <1>4, <1>h2, <1>f
    <2>2. r["blank"] # 0 /\ r["blank"] >= r["sleep"] /\ w = r["sleep"] - 1
      BY <1>4, <1>w, MovesOf
    <2>3. e["blank"] = Clamp(r["sleep"] - 1, 0, 60) /\ shown["blank"] # e["blank"] /\ But("blank", e, shown)
      BY <1>4, <1>w, <2>2, LowHigh
    <2>i. InRange(r) /\ InRange(shown) /\ InRange(e)
      BY <1>0, <1>e
    <2>a. r["off"] = 0 \/ r["off"] > r["sleep"] => e["off"] = r["off"]
      BY <2>i, <2>1, <2>2, <2>3, SleepCallsBlank
    <2>b. e["blank"] = Below(r["sleep"]) /\ (e["sleep"] = r["sleep"] \/ Pushed(r, e))
      BY <2>i, <2>1, <2>2, <2>3, SleepCallsBlank
    <2>c. SleepsBeforeOff(e) /\ BlankHeight(e) < SleepHeight(r)
      BY <2>i, <2>1, <2>2, <2>3, SleepCallsBlank
    <2>4. /\ e["blank"] = Below(r["sleep"]) /\ (e["sleep"] = r["sleep"] \/ Pushed(r, e))
          /\ r["off"] = 0 \/ r["off"] > r["sleep"] => e["off"] = r["off"]
          /\ SleepsBeforeOff(e) /\ BlankHeight(e) < SleepHeight(r)
      BY <2>a, <2>b, <2>c
    <2>w. Waits(g, F)
      BY <1>4, <1>V, <2>1, <2>2, <2>4
    <2>h. Height(f) = SleepHeight(r) /\ Height(F) = BlankHeight(e)
      BY <1>4, <1>f, <1>F
    <2> QED BY <2>4, <2>w, <2>h DEF g
  <1>5. CASE f.key = "sleep" /\ t = "dim"
    <2>1. n = 2 /\ SleepSoFar(2, r, shown)
      BY <1>5, <1>h2, <1>f
    <2>2. world.lcd /\ r["sleep"] * 60 <= shown["dim"] /\ w = BrightnessDisabled
      BY <1>5, <1>w, MovesOf
    <2>3. 60 * r["sleep"] <= shown["dim"]
      BY <2>2, <1>0, RangeOf
    <2>4. e["dim"] = BrightnessDisabled /\ But("dim", e, shown)
      BY <1>5, <1>w, <2>2, LowHigh DEF Clamp, BrightnessDisabled
    <2>5. SleepSoFar(1, r, e) /\ DimHeight(e) < SleepHeight(r)
      BY <1>0, <1>e, <2>1, <2>2, <2>3, <2>4, SleepGivesUp
    <2>s. SoFar(g, e)
      BY <1>5, <1>g, <2>1, <2>5
    <2>w. Waits(g, F)
      BY <1>5, <1>V, <2>4, <2>s
    <2>h. Height(f) = SleepHeight(r) /\ Height(F) = DimHeight(e)
      BY <1>5, <1>f, <1>F
    <2> QED BY <2>5, <2>w, <2>h DEF g
  <1>6. CASE f.key = "off" /\ t = "sleep"
    <2>1. n = 2 /\ OffSoFar(2, r, shown)
      BY <1>6, <1>h3, <1>f
    <2>2. r["sleep"] # 0 /\ r["off"] <= r["sleep"] /\ w = r["off"] - 1
      BY <1>6, <1>w, MovesOf
    <2>3. e["sleep"] = Clamp(r["off"] - 1, 0, 60) /\ shown["sleep"] # e["sleep"] /\ But("sleep", e, shown)
      BY <1>6, <1>w, <2>2, LowHigh
    <2>4. e["sleep"] = Below(r["off"]) /\ But("sleep", e, r) /\ SleepHeight(e) < OffHeight(r)
      BY <1>0, <1>e, <2>1, <2>2, <2>3, OffCallsSleep
    <2>w. Waits(g, F)
      BY <1>6, <1>W, <2>1, <2>2, <2>4
    <2>h. Height(f) = OffHeight(r) /\ Height(F) = SleepHeight(e)
      BY <1>6, <1>f, <1>F
    <2> QED BY <2>4, <2>w, <2>h DEF g
  <1>7. CASE f.key = "dim" /\ t = "sleep"
    <2>1. n = 2 /\ DimSoFar(2, r, shown)
      BY <1>7, <1>h3, <1>f
    <2>2. /\ r["dim"] # BrightnessDisabled /\ r["sleep"] # 0 /\ r["sleep"] * 60 <= r["dim"]
          /\ w = (r["dim"] \div 60) + 1
      BY <1>7, <1>w, MovesOf
    <2>3. /\ e["sleep"] = Clamp((r["dim"] \div 60) + 1, 0, 60) /\ shown["sleep"] # e["sleep"]
          /\ But("sleep", e, shown)
      BY <1>7, <1>w, <2>2, LowHigh
    <2>4. e["sleep"] = (r["dim"] \div 60) + 1 /\ But("sleep", e, r) /\ SleepHeight(e) < DimHeight(r)
      BY <1>0, <1>e, <2>1, <2>2, <2>3, DimCallsSleep
    <2>w. Waits(g, F)
      BY <1>7, <1>W, <2>1, <2>2, <2>4
    <2>h. Height(f) = DimHeight(r) /\ Height(F) = SleepHeight(e)
      BY <1>7, <1>f, <1>F
    <2> QED BY <2>4, <2>w, <2>h DEF g
  <1>8. \/ f.key = "blank" /\ t \in {"sleep", "dim"}
        \/ f.key = "sleep" /\ t \in {"off", "blank", "dim"}
        \/ f.key \in {"off", "dim"} /\ t = "sleep"
    <2>1. t \notin {"bind", "store"}
      BY <1>e DEF Sliders
    <2>2. f.key \in {"blank", "sleep", "off", "dim"}
      BY <1>0 DEF Sliders
    <2> QED BY <2>1, <2>2, <1>h1, <1>h2, <1>h3
  <1> QED BY <1>1, <1>2, <1>3, <1>4, <1>5, <1>6, <1>7, <1>8 DEF g

\* What a handler does last changes no slider.
LEMMA Stores ==
    ASSUME NEW f \in SliderFrames, f.todo # <<>>, Head(f.todo) \in {"store", "bind"}, NEW v, SoFar(f, v)
    PROVE  SoFar(Stepped(f), v) /\ Len(f.todo) = 1
  <1> DEFINE r == f.read  t == Head(f.todo)  n == Len(f.todo)
  <1>0. f.key \in Sliders
    BY FrameOf
  <1>1. n = 1
    <2>1. CASE f.key = "blank"
      BY <2>1, FrameOf
    <2>2. CASE f.key = "sleep"
      BY <2>2, FrameOf
    <2>3. CASE f.key \in {"off", "dim"}
      BY <2>3, FrameOf
    <2> QED BY <1>0, <2>1, <2>2, <2>3 DEF Sliders
  <1>2. Stepped(f).key = f.key /\ Stepped(f).read = r /\ Len(Stepped(f).todo) = 0
    <2>1. Stepped(f).key = f.key /\ Stepped(f).read = f.read /\ Len(Stepped(f).todo) = Len(f.todo) - 1
      BY FrameOf
    <2>2. 1 - 1 = 0
      OBVIOUS
    <2> QED BY <1>1, <2>1, <2>2
  <1>3. CASE f.key = "blank"
    BY <1>1, <1>2, <1>3, SoFarOf, StoresSoFar
  <1>4. CASE f.key = "sleep"
    BY <1>1, <1>2, <1>4, SoFarOf, StoresSoFar
  <1>5. CASE f.key = "off"
    BY <1>1, <1>2, <1>5, SoFarOf, StoresSoFar
  <1>6. CASE f.key = "dim"
    BY <1>1, <1>2, <1>6, SoFarOf, StoresSoFar
  <1> QED BY <1>0, <1>1, <1>3, <1>4, <1>5, <1>6 DEF Sliders

\* A handler that returns has left the sliders so that the one that waits for it can go on.
LEMMA Returns ==
    ASSUME NEW f \in SliderFrames, f.todo = <<>>, NEW g \in SliderFrames, Waits(g, f),
           NEW v, InRange(v), SoFar(f, v)
    PROVE  SoFar(g, v)
  <1> DEFINE r == g.read  n == Len(g.todo)  e == f.read
  <1>0. InRange(r) /\ InRange(e) /\ Len(f.todo) = 0 /\ n \in Nat
    BY FrameOf
  <1>f. /\ f.key = "blank" => BlankSoFar(0, e, v)
        /\ f.key = "sleep" => SleepSoFar(0, e, v)
        /\ f.key = "off" => OffSoFar(0, e, v)
        /\ f.key = "dim" => DimSoFar(0, e, v)
    BY <1>0, SoFarOf
  <1>g. /\ g.key = "blank" => (SoFar(g, v) <=> BlankSoFar(n, r, v)) /\ (SoFar(g, e) <=> BlankSoFar(n, r, e))
        /\ g.key = "sleep" => (SoFar(g, v) <=> SleepSoFar(n, r, v)) /\ (SoFar(g, e) <=> SleepSoFar(n, r, e))
        /\ g.key = "off" => (SoFar(g, v) <=> OffSoFar(n, r, v))
        /\ g.key = "dim" => (SoFar(g, v) <=> DimSoFar(n, r, v))
    BY SoFarOf
  <1>W. \/ /\ g.key = "blank" /\ f.key = "sleep" /\ n = 2
           /\ r["sleep"] # 0 /\ r["blank"] >= r["sleep"]
           /\ e["sleep"] = Least(r["blank"] + 1, 60) /\ But("sleep", e, r)
        \/ /\ g.key = "sleep" /\ f.key = "off" /\ n = 3
           /\ r["off"] # 0 /\ r["sleep"] >= r["off"]
           /\ e["off"] = Least(r["sleep"] + 1, 60) /\ But("off", e, r)
        \/ /\ g.key = "off" /\ f.key = "sleep" /\ n = 1
           /\ r["sleep"] # 0 /\ r["off"] <= r["sleep"]
           /\ e["sleep"] = Below(r["off"]) /\ But("sleep", e, r)
        \/ /\ g.key = "dim" /\ f.key = "sleep" /\ n = 1
           /\ r["dim"] # BrightnessDisabled /\ r["sleep"] # 0 /\ r["sleep"] * 60 <= r["dim"]
           /\ e["sleep"] = (r["dim"] \div 60) + 1 /\ But("sleep", e, r)
        \/ /\ g.key = "sleep" /\ f.key = "blank" /\ n = 2
           /\ r["blank"] # 0 /\ r["blank"] >= r["sleep"]
           /\ e["blank"] = Below(r["sleep"])
           /\ e["sleep"] = r["sleep"] \/ Pushed(r, e)
           /\ r["off"] = 0 \/ r["off"] > r["sleep"] => e["off"] = r["off"]
           /\ SleepsBeforeOff(e)
        \/ /\ g.key \in {"blank", "sleep"} /\ f.key = "dim" /\ e["dim"] = BrightnessDisabled
           /\ SoFar(g, e)
    BY DEF Waits
  <1> HIDE DEF r, e, n
  <1>1. CASE /\ g.key = "blank" /\ f.key = "sleep" /\ n = 2
             /\ r["sleep"] # 0 /\ r["blank"] >= r["sleep"]
             /\ e["sleep"] = Least(r["blank"] + 1, 60) /\ But("sleep", e, r)
    <2>1. BlankSoFar(2, r, v)
      BY <1>0, <1>1, <1>f, BlankGoesOn
    <2> QED BY <1>1, <1>g, <2>1
  <1>2. CASE /\ g.key = "sleep" /\ f.key = "off" /\ n = 3
             /\ r["off"] # 0 /\ r["sleep"] >= r["off"]
             /\ e["off"] = Least(r["sleep"] + 1, 60) /\ But("off", e, r)
    <2>1. SleepSoFar(3, r, v)
      BY <1>0, <1>2, <1>f, SleepGoesOnAfterOff
    <2> QED BY <1>2, <1>g, <2>1
  <1>3. CASE /\ g.key = "off" /\ f.key = "sleep" /\ n = 1
             /\ r["sleep"] # 0 /\ r["off"] <= r["sleep"]
             /\ e["sleep"] = Below(r["off"]) /\ But("sleep", e, r)
    <2>1. OffSoFar(1, r, v)
      BY <1>0, <1>3, <1>f, OffGoesOn
    <2> QED BY <1>3, <1>g, <2>1
  <1>4. CASE /\ g.key = "dim" /\ f.key = "sleep" /\ n = 1
             /\ r["dim"] # BrightnessDisabled /\ r["sleep"] # 0 /\ r["sleep"] * 60 <= r["dim"]
             /\ e["sleep"] = (r["dim"] \div 60) + 1 /\ But("sleep", e, r)
    <2>1. DimSoFar(1, r, v)
      BY <1>0, <1>4, <1>f, DimGoesOn
    <2> QED BY <1>4, <1>g, <2>1
  <1>5. CASE /\ g.key = "sleep" /\ f.key = "blank" /\ n = 2
             /\ r["blank"] # 0 /\ r["blank"] >= r["sleep"]
             /\ e["blank"] = Below(r["sleep"])
             /\ e["sleep"] = r["sleep"] \/ Pushed(r, e)
             /\ r["off"] = 0 \/ r["off"] > r["sleep"] => e["off"] = r["off"]
             /\ SleepsBeforeOff(e)
    <2>1. SleepSoFar(2, r, v)
      BY <1>0, <1>5, <1>f, SleepGoesOnAfterBlank
    <2> QED BY <1>5, <1>g, <2>1
  <1>6. CASE /\ g.key \in {"blank", "sleep"} /\ f.key = "dim" /\ e["dim"] = BrightnessDisabled
             /\ SoFar(g, e)
    <2>1. Same(v, e)
      BY <1>0, <1>6, <1>f, DimGivenUp
    <2>2. BlankSoFar(n, r, e) => BlankSoFar(n, r, v)
      BY <2>1, SameOf DEF BlankSoFar, BlanksBeforeSleep, SleepsBeforeOff, DimsBeforeSleep
    <2>3. SleepSoFar(n, r, e) => SleepSoFar(n, r, v)
      BY <2>1, SameOf DEF SleepSoFar, BlanksBeforeSleep, SleepsBeforeOff, DimsBeforeSleep, Pushed
    <2> QED BY <1>6, <1>g, <2>2, <2>3
  <1> QED BY <1>W, <1>1, <1>2, <1>3, <1>4, <1>5, <1>6

LEMMA Enters ==
    ASSUME NEW F \in SliderFrames, Len(F.todo) = FullTodo(F.key), NEW v, \A j \in Sliders : F.read[j] = v[j]
    PROVE  SoFar(F, v) /\ Height(F) <= 4 /\ Height(F) \in Nat
  <1>1. Same(v, F.read)
    BY DEF Same
  <1>2. F.key \in Sliders /\ InRange(F.read)
    BY FrameOf
  <1>3. CASE F.key = "blank"
    <2>1. Len(F.todo) = 3
      BY <1>3 DEF FullTodo
    <2>2. (SoFar(F, v) <=> BlankSoFar(Len(F.todo), F.read, v)) /\ Height(F) = BlankHeight(F.read)
      BY <1>3, SoFarOf
    <2>3. BlankSoFar(Len(F.todo), F.read, v)
      BY <1>1, <2>1 DEF BlankSoFar
    <2>4. BlankHeight(F.read) <= 4 /\ BlankHeight(F.read) \in Nat
      BY DEF BlankHeight
    <2> QED BY <2>2, <2>3, <2>4
  <1>4. CASE F.key = "sleep"
    <2>1. Len(F.todo) = 4
      BY <1>4 DEF FullTodo
    <2>2. (SoFar(F, v) <=> SleepSoFar(Len(F.todo), F.read, v)) /\ Height(F) = SleepHeight(F.read)
      BY <1>4, SoFarOf
    <2>3. SleepSoFar(Len(F.todo), F.read, v)
      BY <1>1, <2>1 DEF SleepSoFar
    <2>4. SleepHeight(F.read) <= 4 /\ SleepHeight(F.read) \in Nat
      BY DEF SleepHeight
    <2> QED BY <2>2, <2>3, <2>4
  <1>5. CASE F.key = "off"
    <2>1. Len(F.todo) = 2
      BY <1>5 DEF FullTodo
    <2>2. (SoFar(F, v) <=> OffSoFar(Len(F.todo), F.read, v)) /\ Height(F) = OffHeight(F.read)
      BY <1>5, SoFarOf
    <2>3. OffSoFar(Len(F.todo), F.read, v)
      BY <1>1, <2>1 DEF OffSoFar
    <2>4. OffHeight(F.read) <= 4 /\ OffHeight(F.read) \in Nat
      BY DEF OffHeight
    <2> QED BY <2>2, <2>3, <2>4
  <1>6. CASE F.key = "dim"
    <2>1. Len(F.todo) = 2
      BY <1>6 DEF FullTodo
    <2>2. (SoFar(F, v) <=> DimSoFar(Len(F.todo), F.read, v)) /\ Height(F) = DimHeight(F.read)
      BY <1>6, SoFarOf
    <2>3. DimSoFar(Len(F.todo), F.read, v)
      BY <1>1, <2>1 DEF DimSoFar
    <2>4. DimHeight(F.read) <= 4 /\ DimHeight(F.read) \in Nat
      BY DEF DimHeight
    <2> QED BY <2>2, <2>3, <2>4
  <1> QED BY <1>2, <1>3, <1>4, <1>5, <1>6 DEF Sliders

-----------------------------------------------------------------------------
(* The handlers of the sliders inside each other. *)

LEMMA NestedPrimed ==
    ASSUME world' = world, NestedIn(stack', shown')
    PROVE  Nested'
  <1>1. ASSUME SoFar(stack'[1], shown') PROVE SoFar(stack[1], shown)'
    BY <1>1 DEF SoFar, BlankSoFar, SleepSoFar, OffSoFar, DimSoFar, Ordered, BlanksBeforeSleep,
       SleepsBeforeOff, DimsBeforeSleep, Same, Pushed, Least, Below
  <1>2. ASSUME NEW i, Waits(stack'[i], stack'[i - 1]) PROVE Waits(stack[i], stack[i - 1])'
    BY <1>2 DEF Waits, But, SoFar, BlankSoFar, SleepSoFar, OffSoFar, DimSoFar, Ordered, BlanksBeforeSleep,
       SleepsBeforeOff, DimsBeforeSleep, Same, Pushed, Least, Below
  <1>3. ASSUME NEW i PROVE Height(stack[i])' = Height(stack'[i])
    BY DEF Height
  <1> QED BY <1>1, <1>2, <1>3 DEF Nested, NestedIn

LEMMA HeightOf ==
    ASSUME NEW f \in SliderFrames
    PROVE  Height(f) \in Nat
  <1>1. f.key \in Sliders /\ InRange(f.read)
    BY FrameOf
  <1>2. /\ DimHeight(f.read) \in Nat /\ OffHeight(f.read) \in Nat /\ SleepHeight(f.read) \in Nat
        /\ BlankHeight(f.read) \in Nat
    BY DEF DimHeight, OffHeight, SleepHeight, BlankHeight
  <1> QED BY <1>1, <1>2 DEF Height, Sliders

\* What matters of the handler that is waited for is what it read.
LEMMA WaitsOn ==
    ASSUME NEW g, NEW f, NEW h, Waits(g, f), h.key = f.key, h.read = f.read
    PROVE  Waits(g, h) /\ Height(h) = Height(f)
  <1>1. Waits(g, h)
    BY DEF Waits
  <1>2. Height(h) = Height(f)
    BY DEF Height
  <1> QED BY <1>1, <1>2

LEMMA SameHeight ==
    ASSUME NEW f, NEW h, h.key = f.key, h.read = f.read
    PROVE  Height(h) = Height(f)
  BY DEF Height

\* The user, or another program, sets a widget.
LEMMA NestedEnters ==
    ASSUME NEW k \in Widgets, NEW v, k \in Sliders => InRange(v)
    PROVE  NestedIn(<<Frame(k, v)>>, v)
  <1> DEFINE F == Frame(k, v)  q == <<F>>
  <1>1. Len(q) = 1 /\ q[1] = F /\ F.key = k
    BY DEF Frame
  <1>2. CASE k \in Sliders
    <2>1. F \in SliderFrames /\ Len(F.todo) = FullTodo(F.key) /\ \A j \in Sliders : F.read[j] = v[j]
      BY <1>2, SliderFrame
    <2>2. SoFar(F, v) /\ Height(F) <= 4 /\ Height(F) \in Nat
      BY <2>1, Enters
    <2> HIDE DEF F
    <2>3. Height(q[1]) + (1 - 1) <= 4 /\ SoFar(q[1], v)
      BY <1>1, <2>2
    <2> HIDE DEF q
    <2>4. NestedIn(q, v)
      BY <1>1, <2>3 DEF NestedIn
    <2> QED BY <2>4 DEF q, F
  <1>3. CASE k \notin Sliders
    <2> HIDE DEF q, F
    <2>1. NestedIn(q, v)
      BY <1>1, <1>3 DEF NestedIn
    <2> QED BY <2>1 DEF q, F
  <1> QED BY <1>2, <1>3

\* The innermost handler goes on with its next step.
LEMMA NestedDone ==
    ASSUME StackTyped, Nested, stack # <<>>, Top.todo # <<>>,
           Top.key \in Sliders => SoFar(Stepped(Top), shown)
    PROVE  NestedIn(Done, shown)
  <1> DEFINE f == Top  g == Stepped(Top)
  <1>1. /\ Done \in Seq(Frames) /\ Len(Done) = Len(stack) /\ Done[1] = g
        /\ \A i \in 2..Len(stack) : Done[i] = stack[i]
    BY DoneOf
  <1>2. Top = stack[1] /\ Top \in Frames /\ (Top.key \in Sliders <=> Frames = SliderFrames)
        /\ Frames \in {SliderFrames, OtherFrames} /\ Len(stack) \in Nat \ {0}
    BY StackOf
  <1>3. g.key = Top.key /\ g.read = Top.read
    BY <1>2, SteppedOf
  <1> HIDE DEF Done, f, g
  <1>4. CASE Top.key \in Sliders
    <2>1. /\ \A i \in 2..Len(stack) : Waits(stack[i], stack[i - 1])
          /\ \A i \in 1..Len(stack) : Height(stack[i]) + (Len(stack) - i) <= 4
      BY <1>2, <1>4 DEF Nested, NestedIn
    <2>2. ASSUME NEW i \in 2..Len(stack) PROVE Waits(Done[i], Done[i - 1])
      <3>1. Waits(stack[i], stack[i - 1]) /\ Done[i] = stack[i]
        BY <1>1, <2>1
      <3>2. CASE i = 2
        <4>1. Waits(stack[2], Top)
          BY <1>2, <3>1, <3>2
        <4>2. Waits(stack[2], g)
          BY <1>3, <4>1, WaitsOn
        <4>3. Done[2] = stack[2] /\ 2 - 1 = 1
          BY <3>1, <3>2
        <4> QED BY <1>1, <3>2, <4>2, <4>3
      <3>3. CASE i # 2
        <4>1. i - 1 \in 2..Len(stack)
          BY <3>3, <1>2
        <4> QED BY <1>1, <3>1, <4>1
      <3> QED BY <3>2, <3>3
    <2>3. ASSUME NEW i \in 1..Len(stack) PROVE Height(Done[i]) + (Len(stack) - i) <= 4
      <3>1. Height(Done[i]) = Height(stack[i])
        <4>1. CASE i = 1
          BY <1>1, <1>2, <1>3, <4>1, SameHeight
        <4>2. CASE i # 1
          <5>1. i \in 2..Len(stack)
            BY <4>2, <1>2
          <5> QED BY <1>1, <5>1
        <4> QED BY <4>1, <4>2
      <3> QED BY <2>1, <3>1
    <2>4. SoFar(Done[1], shown)
      BY <1>1, <1>4 DEF g
    <2> QED BY <1>1, <2>2, <2>3, <2>4 DEF NestedIn
  <1>5. CASE Top.key \notin Sliders
    BY <1>1, <1>3, <1>5 DEF NestedIn
  <1> QED BY <1>4, <1>5

\* It calls the handler of the slider it moves.
LEMMA NestedCalls ==
    ASSUME StackTyped, Nested, stack # <<>>, Top.todo # <<>>, Top.key \in Sliders, NEW F \in SliderFrames,
           NEW v, SoFar(F, v), Waits(Stepped(Top), F), Height(F) < Height(Top)
    PROVE  NestedIn(<<F>> \o Done, v)
  <1> DEFINE g == Stepped(Top)  s == <<F>> \o Done  n == Len(stack)
  <1>1. /\ s \in Seq(SliderFrames) /\ Len(s) = n + 1 /\ s[1] = F /\ s[2] = g
        /\ \A i \in 3..n + 1 : s[i] = stack[i - 1]
    BY PushedOf
  <1>2. Top = stack[1] /\ Top \in SliderFrames /\ n \in Nat \ {0}
    BY StackOf
  <1>3. g.key = Top.key /\ g.read = Top.read
    BY <1>2, SteppedOf
  <1>4. /\ \A i \in 2..n : Waits(stack[i], stack[i - 1])
        /\ \A i \in 1..n : Height(stack[i]) + (n - i) <= 4
    BY <1>2 DEF Nested, NestedIn
  <1>5. Waits(g, F) /\ Height(g) = Height(Top) /\ Height(F) \in Nat /\ Height(Top) \in Nat
    BY <1>2, <1>3, SameHeight, HeightOf
  <1> HIDE DEF s, g, n, Top
  <1>6. ASSUME NEW i \in 2..Len(s) PROVE Waits(s[i], s[i - 1])
    <2>1. CASE i = 2
      BY <1>1, <1>5, <2>1
    <2>2. CASE i = 3
      <3>1. 2 \in 2..n /\ 3 \in 3..n + 1
        BY <1>1, <1>2, <2>2
      <3>2. Waits(stack[2], Top)
        BY <1>2, <1>4, <3>1
      <3>3. Waits(stack[2], g)
        BY <1>3, <3>2, WaitsOn
      <3>4. s[3] = stack[2] /\ s[2] = g
        BY <1>1, <3>1
      <3> QED BY <2>2, <3>3, <3>4
    <2>3. CASE i > 3
      <3>1. i \in 3..n + 1 /\ i - 1 \in 3..n + 1 /\ i - 1 \in 2..n
        BY <1>1, <1>2, <2>3
      <3>2. s[i] = stack[i - 1] /\ s[i - 1] = stack[(i - 1) - 1]
        BY <1>1, <3>1
      <3>3. Waits(stack[i - 1], stack[(i - 1) - 1])
        BY <1>4, <3>1
      <3> QED BY <3>2, <3>3
    <2> QED BY <1>1, <1>2, <2>1, <2>2, <2>3
  <1>7. ASSUME NEW i \in 1..Len(s) PROVE Height(s[i]) + (Len(s) - i) <= 4
    <2>0. Height(Top) + (n - 1) <= 4
      <3>1. 1 \in 1..n
        BY <1>2
      <3> QED BY <1>2, <1>4, <3>1
    <2>1. CASE i = 1
      <3>1. Height(F) + n <= 4
        BY <1>2, <1>5, <2>0
      <3> QED BY <1>1, <1>2, <2>1, <3>1
    <2>2. CASE i = 2
      BY <1>1, <1>2, <1>5, <2>0, <2>2
    <2>3. CASE i > 2
      <3>1. i \in 3..n + 1 /\ i - 1 \in 1..n
        BY <1>1, <1>2, <2>3
      <3>2. Height(stack[i - 1]) + (n - (i - 1)) <= 4
        BY <1>4, <3>1
      <3>3. s[i] = stack[i - 1] /\ n - (i - 1) = Len(s) - i
        BY <1>1, <1>2, <3>1
      <3> QED BY <3>2, <3>3
    <2> QED BY <1>1, <1>2, <2>1, <2>2, <2>3
  <1>8. SoFar(s[1], v)
    BY <1>1
  <1> QED BY <1>6, <1>7, <1>8 DEF NestedIn, s

\* It returns to the one that waits for it.
LEMMA NestedReturns ==
    ASSUME StackTyped, Nested, stack # <<>>, Top.todo = <<>>, Top.key \in Sliders => InRange(shown)
    PROVE  NestedIn(Tail(stack), shown)
  <1> DEFINE s == Tail(stack)  n == Len(stack)
  <1>1. SUFFICES ASSUME s # <<>>, s[1].key \in Sliders PROVE NestedIn(s, shown)
    BY DEF NestedIn
  <1>2. /\ s \in Seq(Frames) /\ Len(s) = n - 1 /\ n >= 2 /\ Frames = SliderFrames
        /\ \A i \in 1..n - 1 : s[i] = stack[i + 1]
    BY <1>1, PoppedOf
  <1>3. /\ Top = stack[1] /\ Top \in SliderFrames /\ n \in Nat /\ Top.key \in Sliders
        /\ \A i \in 1..n : stack[i] \in SliderFrames
    BY <1>2, StackOf
  <1>4. /\ SoFar(Top, shown)
        /\ \A i \in 2..n : Waits(stack[i], stack[i - 1])
        /\ \A i \in 1..n : Height(stack[i]) + (n - i) <= 4
    BY <1>3 DEF Nested, NestedIn
  <1> HIDE DEF s, n, Top
  <1>5. SoFar(s[1], shown)
    <2>1. 2 \in 2..n /\ 1 \in 1..n - 1 /\ 2 \in 1..n
      BY <1>2, <1>3
    <2>2. s[1] = stack[2] /\ stack[2] \in SliderFrames
      BY <1>2, <1>3, <2>1
    <2>3. Waits(stack[2], Top)
      BY <1>3, <1>4, <2>1
    <2>4. Top.todo = <<>> /\ InRange(shown)
      BY <1>3
    <2>5. SoFar(stack[2], shown)
      BY <1>3, <1>4, <2>2, <2>3, <2>4, Returns
    <2> QED BY <2>2, <2>5
  <1>6. ASSUME NEW i \in 2..Len(s) PROVE Waits(s[i], s[i - 1])
    <2>1. i \in 1..n - 1 /\ i - 1 \in 1..n - 1 /\ i + 1 \in 2..n /\ (i - 1) + 1 = (i + 1) - 1
      BY <1>2, <1>3
    <2>2. s[i] = stack[i + 1] /\ s[i - 1] = stack[(i + 1) - 1]
      BY <1>2, <2>1
    <2>3. Waits(stack[i + 1], stack[(i + 1) - 1])
      BY <1>4, <2>1
    <2> QED BY <2>2, <2>3
  <1>7. ASSUME NEW i \in 1..Len(s) PROVE Height(s[i]) + (Len(s) - i) <= 4
    <2>1. i \in 1..n - 1 /\ i + 1 \in 1..n /\ n - (i + 1) = Len(s) - i
      BY <1>2, <1>3
    <2>2. Height(stack[i + 1]) + (n - (i + 1)) <= 4
      BY <1>4, <2>1
    <2> QED BY <1>2, <2>1, <2>2
  <1> QED BY <1>5, <1>6, <1>7 DEF NestedIn

LEMMA NestedStep == ASSUME Types, Nested, Next PROVE Nested'
  <1> USE DEF storeVars, daemonVars, dialogVars, lockerVars
  <1>0. /\ StackTyped /\ (~dialog => stack = <<>>) /\ world' = world
        /\ \A f : StackTyped /\ stack # <<>> => Top = stack[1]
    BY NextWorld, StackOf DEF Types, DialogTypes
  <1>r. /\ dialog => InRange(shown)
        /\ stack # <<>> => dialog
    BY <1>0, SliderRange DEF Types, DialogTypes, InRange, Widgets
  <1>a. ASSUME shown' = shown, stack' = stack PROVE Nested'
    BY <1>0, <1>a, NestedPrimed DEF Nested
  <1>b. ASSUME stack' = <<>> PROVE Nested'
    BY <1>b DEF Nested, NestedIn
  <1>c. ASSUME stack # <<>>, Top.todo # <<>>, shown' = shown, stack' = Done,
               Top.key \in Sliders => Step \in {"store", "bind"}
        PROVE  Nested'
    <2>1. Top.key \in Sliders => SoFar(Stepped(Top), shown)
      <3>1. SUFFICES ASSUME Top.key \in Sliders PROVE SoFar(Stepped(Top), shown)
        OBVIOUS
      <3>2. Top \in SliderFrames /\ Top = stack[1]
        BY <1>0, <1>c, <3>1, StackOf
      <3>3. SoFar(Top, shown)
        BY <1>c, <3>1, <3>2 DEF Nested, NestedIn
      <3> QED BY <1>c, <3>1, <3>2, <3>3, Stores DEF Step
    <2>2. NestedIn(Done, shown)
      BY <1>0, <1>c, <2>1, NestedDone
    <2> QED BY <1>0, <1>c, <2>2, NestedPrimed
  <1>d. ASSUME dialog, NEW k \in Widgets, NEW v \in Chosen(k), shown' = [shown EXCEPT ![k] = v],
               stack' = <<Frame(k, shown')>>
        PROVE  Nested'
    <2>1. v \in Values(k) /\ shown \in [Widgets -> Unset..360]
      BY <1>d DEF Chosen, Types, DialogTypes
    <2>2. InRange(shown')
      <3>1. ASSUME NEW j \in Sliders PROVE shown'[j] \in Low(j)..High(j)
        <4>1. shown[j] \in Low(j)..High(j) /\ j \in Widgets
          BY <1>d, <1>r DEF InRange, Widgets
        <4>2. j = k => v \in Low(j)..High(j)
          BY <2>1, SliderRange
        <4> QED BY <1>d, <2>1, <4>1, <4>2
      <3> QED BY <3>1 DEF InRange
    <2>3. NestedIn(<<Frame(k, shown')>>, shown')
      BY <2>2, NestedEnters
    <2> QED BY <1>0, <1>d, <2>3, NestedPrimed
  <1>1. CASE PropertyChanged \/ SessionPropertyChanged \/ DaemonStops \/ DaemonStarts
             \/ LateLockingChanged \/ AutomaticLockingChanged \/ SessionToggles
    BY <1>1, <1>a DEF PropertyChanged, SessionPropertyChanged, DaemonStops, DaemonStarts,
       LateLockingChanged, AutomaticLockingChanged, SessionToggles
  <1>2. CASE OpenDialog
    BY <1>2, <1>0, <1>b DEF OpenDialog
  <1>3. CASE CloseDialog
    BY <1>3, <1>b DEF CloseDialog, Idle
  <1>4. CASE Move
    <2> DEFINE k == Step  r == Top.read
    <2>1. /\ stack # <<>> /\ Top.todo # <<>> /\ Top \in SliderFrames /\ Step \in Sliders /\ dialog
      BY <1>4, MoveStep
    <2>2. Top.key \in Sliders /\ Top = stack[1]
      BY <1>0, <2>1, StackOf, FrameOf
    <2>3. SoFar(Top, shown) /\ InRange(shown)
      BY <1>r, <2>1, <2>2 DEF Nested, NestedIn
    <2>4. CASE /\ \A v \in Moves(Top.key, Step, Top.read) : shown[Step] = Clamp(v, Low(Step), High(Step))
               /\ shown' = shown /\ stack' = Done
      <3>1. SoFar(Stepped(Top), shown)
        BY <2>1, <2>3, <2>4, Passes DEF Step
      <3>2. NestedIn(Done, shown)
        BY <1>0, <2>1, <3>1, NestedDone
      <3> QED BY <1>0, <2>4, <3>2, NestedPrimed
    <2>5. ASSUME NEW v \in Moves(Top.key, Step, Top.read),
                 shown' = [shown EXCEPT ![Step] = Clamp(v, Low(Step), High(Step))],
                 shown[Step] # Clamp(v, Low(Step), High(Step)), stack' = <<Frame(Step, shown')>> \o Done
          PROVE  Nested'
      <3> DEFINE w == Clamp(v, Low(k), High(k))  F == Frame(k, shown')
      <3>1. shown \in [Widgets -> Unset..360] /\ k \in Widgets /\ Sliders \subseteq Widgets
        BY <2>1 DEF Types, DialogTypes, Widgets
      <3>2. shown' = [shown EXCEPT ![k] = w]
        BY <2>5
      <3>3. w \in Low(k)..High(k)
        <4>1. v \in Int
          BY <2>1, MovesInt DEF Step
        <4>2. Low(k) \in Int /\ High(k) \in Int /\ Low(k) <= High(k)
          BY <2>1, SliderRange
        <4> QED BY <4>1, <4>2, ClampOf
      <3> HIDE DEF k, w
      <3>4. shown'[k] = w /\ \A j \in Sliders \ {k} : shown'[j] = shown[j]
        BY <3>1, <3>2
      <3>5. InRange(shown')
        BY <2>3, <3>3, <3>4 DEF InRange
      <3>6. /\ F \in SliderFrames /\ F.key = k /\ Len(F.todo) = FullTodo(k)
            /\ \A j \in Sliders : F.read[j] = shown'[j]
        BY <2>1, <3>5, SliderFrame DEF k
      <3> HIDE DEF F
      <3>7. SoFar(F, shown')
        BY <3>6, Enters
      <3>8. Head(Top.todo) = k /\ k \in Sliders /\ v \in Moves(Top.key, k, Top.read)
        BY <2>1, <2>5 DEF Step, k
      <3>9. F.read[k] = w /\ shown[k] # w /\ But(k, F.read, shown)
        BY <2>5, <3>4, <3>6, <3>8 DEF But, k, w
      <3>10. Waits(Stepped(Top), F) /\ Height(F) < Height(Top)
        BY <2>1, <2>3, <3>6, <3>8, <3>9, Calls DEF w
      <3>11. NestedIn(<<F>> \o Done, shown')
        BY <1>0, <2>1, <2>2, <3>6, <3>7, <3>10, NestedCalls
      <3> QED BY <1>0, <2>5, <3>11, NestedPrimed DEF F, k
    <2> QED BY <1>4, <2>4, <2>5, MoveStep
  <1>5. CASE StoreValue \/ StoreBound \/ StoreSession \/ SetLockOnSuspend \/ StoreSwitch
             \/ UpdateLogindHandleLidSwitch
    <2>1. stack # <<>> /\ Top.todo # <<>> /\ stack' = Done /\ shown' = shown
      BY <1>5 DEF StoreValue, StoreBound, StoreSession, SetLockOnSuspend, StoreSwitch,
         UpdateLogindHandleLidSwitch
    <2>2. Step \in {"store", "bind", "session", "locker", "switch", "logind"}
      BY <1>5 DEF StoreValue, StoreBound, StoreSession, SetLockOnSuspend, StoreSwitch,
         UpdateLogindHandleLidSwitch
    <2>3. Top.key \in Sliders => Step \in {"store", "bind"}
      BY <2>1, <2>2, TopOf DEF Sliders, Lids
    <2> QED BY <1>c, <2>1, <2>3
  <1>6. CASE HandlerReturns
    <2>1. stack # <<>> /\ Top.todo = <<>> /\ stack' = Tail(stack) /\ shown' = shown
      BY <1>6 DEF HandlerReturns
    <2>2. NestedIn(Tail(stack), shown)
      BY <1>0, <1>r, <2>1, NestedReturns
    <2> QED BY <1>0, <2>1, <2>2, NestedPrimed
  <1>7. ASSUME NEW k \in Widgets, Touches(k), NEW v \in Chosen(k), Sets(k, v) PROVE Nested'
    BY <1>7, <1>d DEF Sets, Touches, Idle
  <1>8. CASE BlankChanges
    <2>1. PICK v \in Drags \cap 0..60 :
                IF dialog /\ v # shown["blank"]
                THEN /\ shown' = [shown EXCEPT !["blank"] = v]
                     /\ stack' = <<Frame("blank", shown')>>
                ELSE UNCHANGED <<shown, stack>>
      BY <1>8 DEF BlankChanges
    <2>2. CASE dialog /\ v # shown["blank"]
      <3>1. v \in Chosen("blank") /\ "blank" \in Widgets
        <4>1. Low("blank") = 0 /\ High("blank") = 60 /\ "blank" \in Sliders
          BY DEF Low, High, Sliders
        <4>2. v \in Low("blank")..High("blank") /\ v # -1
          BY <4>1
        <4> QED BY <4>1, <4>2, SliderRange DEF Chosen, Unset, Widgets
      <3> QED BY <1>d, <2>1, <2>2, <3>1
    <2>3. CASE ~(dialog /\ v # shown["blank"])
      BY <1>a, <2>1, <2>3
    <2> QED BY <2>2, <2>3
  <1>9. ASSUME NEW k \in Widgets, Reset(k) PROVE Nested'
    BY <1>9, <1>a DEF Reset
  <1> QED BY <1>1, <1>2, <1>3, <1>4, <1>5, <1>6, <1>7, <1>8, <1>9, UserSets DEF Next, HandlerStep

\* The handlers are no deeper inside each other than five.
LEMMA NestedDepth == ASSUME Types, Nested PROVE Len(stack) <= 5
  <1>0. StackTyped
    BY DEF Types, DialogTypes
  <1>1. CASE stack = <<>>
    BY <1>1
  <1>2. CASE stack # <<>> /\ Top.key \notin Sliders
    <2>1. Len(stack) = 1
      BY <1>0, <1>2, StackOf
    <2> QED BY <2>1
  <1>3. CASE stack # <<>> /\ Top.key \in Sliders
    <2>1. Top = stack[1] /\ Top \in SliderFrames /\ Len(stack) \in Nat \ {0}
      BY <1>0, <1>3, StackOf
    <2>2. 1 \in 1..Len(stack)
      BY <2>1
    <2>3. Height(Top) + (Len(stack) - 1) <= 4
      BY <1>3, <2>1, <2>2 DEF Nested, NestedIn
    <2>4. Height(Top) \in Nat
      BY <2>1, HeightOf
    <2> QED BY <2>1, <2>3, <2>4
  <1> QED BY <1>1, <1>2, <1>3

-----------------------------------------------------------------------------
(* The order of the sliders. *)

LEMMA OrderPrimed ==
    ASSUME world' = world, Orderly => OrderIn(channel', shown', stack', dialog')
    PROVE  OrderInv'
  <1>1. Orderly' <=> Orderly
    BY DEF Orderly, InOrder, Choices, Low, High
  <1>2. ASSUME NEW v PROVE Ordered(v)' <=> Ordered(v)
    BY DEF Ordered, SleepsBeforeOff, BlanksBeforeSleep, DimsBeforeSleep
  <1>3. OrderIn(channel', shown', stack', dialog') => OrderIn(channel, shown, stack, dialog)'
    BY DEF OrderIn, BottomIn, Ordered, SleepsBeforeOff, BlanksBeforeSleep, DimsBeforeSleep, Fits, Low, High
  <1> QED BY <1>1, <1>3 DEF OrderInv

\* Orders depend on the sliders only.
LEMMA OrderOf ==
    ASSUME NEW v, NEW s
    PROVE  /\ s["sleep"] = v["sleep"] /\ s["off"] = v["off"] => (SleepsBeforeOff(v) => SleepsBeforeOff(s))
           /\ s["sleep"] = v["sleep"] /\ s["blank"] = v["blank"] => (BlanksBeforeSleep(v) => BlanksBeforeSleep(s))
           /\ s["sleep"] = v["sleep"] /\ s["dim"] = v["dim"] => (DimsBeforeSleep(v) => DimsBeforeSleep(s))
           /\ ~world.lcd => DimsBeforeSleep(s)
  BY DEF SleepsBeforeOff, BlanksBeforeSleep, DimsBeforeSleep

LEMMA BottomDone ==
    ASSUME StackTyped, stack # <<>>, Top.todo # <<>>, BottomIn(stack)
    PROVE  BottomIn(Done)
  <1> DEFINE g == Stepped(Top)  n == Len(stack)
  <1>1. /\ Done # <<>> /\ Len(Done) = n /\ Done[1] = g
        /\ \A i \in 2..n : Done[i] = stack[i]
    BY DoneOf
  <1>2. Top = stack[1] /\ n \in Nat \ {0}
    BY StackOf
  <1>3. g.key = Top.key /\ g.read = Top.read
    BY StackOf, SteppedOf
  <1> HIDE DEF Done, g, Top, n
  <1>4. Done[n].key = stack[n].key /\ Done[n].read = stack[n].read
    <2>1. CASE n = 1
      BY <1>1, <1>2, <1>3, <2>1
    <2>2. CASE n # 1
      <3>1. n \in 2..n
        BY <1>2, <2>2
      <3> QED BY <1>1, <3>1
    <2> QED BY <2>1, <2>2
  <1> QED BY <1>1, <1>4 DEF BottomIn, n

LEMMA BottomCalls ==
    ASSUME StackTyped, stack # <<>>, Top.todo # <<>>, Top.key \in Sliders, BottomIn(stack), NEW F \in SliderFrames
    PROVE  BottomIn(<<F>> \o Done)
  <1> DEFINE g == Stepped(Top)  s == <<F>> \o Done  n == Len(stack)
  <1>1. /\ s # <<>> /\ Len(s) = n + 1 /\ s[1] = F /\ s[2] = g
        /\ \A i \in 3..n + 1 : s[i] = stack[i - 1]
    BY PushedOf
  <1>2. Top = stack[1] /\ n \in Nat \ {0}
    BY StackOf
  <1>3. g.key = Top.key /\ g.read = Top.read
    BY StackOf, SteppedOf
  <1> HIDE DEF s, g, Top, n
  <1>4. s[Len(s)].key = stack[n].key /\ s[Len(s)].read = stack[n].read
    <2>1. CASE n = 1
      BY <1>1, <1>2, <1>3, <2>1
    <2>2. CASE n # 1
      <3>1. n + 1 \in 3..n + 1 /\ (n + 1) - 1 = n
        BY <1>2, <2>2
      <3> QED BY <1>1, <3>1
    <2> QED BY <2>1, <2>2
  <1>5. BottomIn(s)
    BY <1>1, <1>2, <1>4 DEF BottomIn, n
  <1> QED BY <1>5 DEF s

LEMMA BottomReturns ==
    ASSUME StackTyped, stack # <<>>, BottomIn(stack)
    PROVE  BottomIn(Tail(stack))
  <1> DEFINE s == Tail(stack)  n == Len(stack)
  <1>1. /\ Len(s) = n - 1 /\ (s # <<>> => n >= 2) /\ \A i \in 1..n - 1 : s[i] = stack[i + 1]
    BY PoppedOf
  <1>2. n \in Nat \ {0}
    BY StackOf
  <1> HIDE DEF s
  <1>3. ASSUME s # <<>> PROVE s[Len(s)] = stack[n]
    <2>1. n - 1 \in 1..n - 1 /\ (n - 1) + 1 = n
      BY <1>1, <1>2, <1>3
    <2> QED BY <1>1, <2>1
  <1>4. BottomIn(s)
    BY <1>3 DEF BottomIn
  <1> QED BY <1>4 DEF s

\* The user drags a slider among others that are in order.
LEMMA BottomEnters ==
    ASSUME NEW k \in Widgets, NEW v, Ordered(v), NEW s, k \in Sliders => InRange(s),
           \A j \in Sliders \ {k} : s[j] = v[j]
    PROVE  BottomIn(<<Frame(k, s)>>)
  <1> DEFINE F == Frame(k, s)  q == <<F>>
  <1>1. Len(q) = 1 /\ q[1] = F /\ F.key = k
    BY DEF Frame
  <1>2. CASE k \in Sliders
    <2>1. \A j \in Sliders : F.read[j] = s[j]
      BY <1>2, SliderFrame
    <2> HIDE DEF F
    <2>2. /\ k # "blank" => F.read["blank"] = v["blank"]
          /\ k # "sleep" => F.read["sleep"] = v["sleep"]
          /\ k # "off" => F.read["off"] = v["off"]
          /\ k # "dim" => F.read["dim"] = v["dim"]
      BY <2>1 DEF Sliders
    <2>3. /\ k = "blank" => SleepsBeforeOff(F.read) /\ DimsBeforeSleep(F.read)
          /\ k = "off" => BlanksBeforeSleep(F.read) /\ DimsBeforeSleep(F.read)
          /\ k = "dim" => BlanksBeforeSleep(F.read) /\ SleepsBeforeOff(F.read)
      BY <2>2, OrderOf DEF Ordered
    <2> HIDE DEF q
    <2>4. BottomIn(q)
      BY <1>1, <2>3 DEF BottomIn
    <2> QED BY <2>4 DEF q, F
  <1>3. CASE k \notin Sliders
    <2> HIDE DEF q, F
    <2>1. BottomIn(q)
      BY <1>1, <1>3 DEF BottomIn, Sliders
    <2> QED BY <2>1 DEF q, F
  <1> QED BY <1>2, <1>3

\* The outermost handler leaves the sliders in order.
LEMMA OrderReturns ==
    ASSUME NEW f \in SliderFrames, f.todo = <<>>, InRange(shown), SoFar(f, shown), BottomIn(<<f>>)
    PROVE  Ordered(shown)
  <1> DEFINE r == f.read  q == <<f>>
  <1>0. InRange(r) /\ f.key \in Sliders /\ Len(f.todo) = 0
    BY FrameOf
  <1>1. Len(q) = 1 /\ q[1] = f /\ q # <<>>
    OBVIOUS
  <1> HIDE DEF q
  <1>2. /\ f.key = "blank" => SleepsBeforeOff(r) /\ DimsBeforeSleep(r)
        /\ f.key = "off" => BlanksBeforeSleep(r) /\ DimsBeforeSleep(r)
        /\ f.key = "dim" => BlanksBeforeSleep(r) /\ SleepsBeforeOff(r)
    BY <1>1 DEF BottomIn, q
  <1>3. CASE f.key = "blank"
    <2>1. BlankSoFar(0, r, shown)
      BY <1>0, <1>3, SoFarOf
    <2> QED BY <1>2, <1>3, <2>1 DEF BlankSoFar, Ordered
  <1>4. CASE f.key = "sleep"
    <2>1. SleepSoFar(0, r, shown)
      BY <1>0, <1>4, SoFarOf
    <2> QED BY <2>1 DEF SleepSoFar, Ordered
  <1>5. CASE f.key = "off"
    <2>1. OffSoFar(0, r, shown)
      BY <1>0, <1>5, SoFarOf
    <2>2. CASE r["sleep"] = 0 \/ r["off"] > r["sleep"]
      <3>1. Same(shown, r)
        BY <2>1, <2>2 DEF OffSoFar
      <3>2. BlanksBeforeSleep(shown) /\ DimsBeforeSleep(shown)
        BY <1>2, <1>5, <3>1, SameOf, OrderOf
      <3>3. SleepsBeforeOff(shown)
        BY <1>0, <2>2, <3>1, SameOf, RangeOf DEF SleepsBeforeOff
      <3> QED BY <3>2, <3>3 DEF Ordered
    <2>3. CASE ~(r["sleep"] = 0 \/ r["off"] > r["sleep"])
      BY <2>1, <2>3 DEF OffSoFar
    <2> QED BY <2>2, <2>3
  <1>6. CASE f.key = "dim"
    <2>1. DimSoFar(0, r, shown)
      BY <1>0, <1>6, SoFarOf
    <2>2. CASE r["dim"] = BrightnessDisabled \/ r["sleep"] = 0 \/ r["sleep"] * 60 > r["dim"]
      <3>1. Same(shown, r)
        BY <2>1, <2>2 DEF DimSoFar
      <3>2. BlanksBeforeSleep(shown) /\ SleepsBeforeOff(shown)
        BY <1>2, <1>6, <3>1, SameOf, OrderOf
      <3>3. DimsBeforeSleep(shown)
        BY <1>0, <2>2, <3>1, SameOf, RangeOf DEF DimsBeforeSleep
      <3> QED BY <3>2, <3>3 DEF Ordered
    <2>3. CASE ~(r["dim"] = BrightnessDisabled \/ r["sleep"] = 0 \/ r["sleep"] * 60 > r["dim"])
      BY <2>1, <2>3 DEF DimSoFar
    <2> QED BY <2>2, <2>3
  <1> QED BY <1>0, <1>3, <1>4, <1>5, <1>6 DEF Sliders

\* A slider or another setting is stored: what the channel then has of the sliders.
LEMMA SliderStores ==
    ASSUME Types, Nested, StoreValue \/ StoreBound \/ StoreSession \/ SetLockOnSuspend \/ StoreSwitch
                          \/ UpdateLogindHandleLidSwitch
    PROVE  /\ stack # <<>> /\ Top.todo # <<>> /\ stack' = Done /\ shown' = shown /\ dialog /\ dialog' = dialog
           /\ \/ Top.key \notin Sliders /\ \A j \in Sliders : channel'[j] = channel[j]
              \/ /\ Top \in SliderFrames /\ Len(Top.todo) = 1
                 /\ channel'[Top.key] = (IF Top.key = "blank" THEN shown["blank"] ELSE Top.read[Top.key])
                 /\ \A j \in Sliders \ {Top.key} : channel'[j] = channel[j]
  <1> USE DEF storeVars, daemonVars, dialogVars, lockerVars
  <1>0. StackTyped /\ channel \in Storable
    BY DEF Types, DialogTypes, StoreTypes
  <1>1. stack # <<>> /\ Top.todo # <<>> /\ stack' = Done /\ shown' = shown /\ dialog /\ dialog' = dialog
    <2>1. stack # <<>> /\ Top.todo # <<>> /\ stack' = Done /\ shown' = shown /\ dialog' = dialog
      BY DEF StoreValue, StoreBound, StoreSession, SetLockOnSuspend, StoreSwitch, UpdateLogindHandleLidSwitch
    <2> QED BY <2>1, TopOf
  <1>2. /\ Top.key \in Sliders => Top \in SliderFrames /\ Frames = SliderFrames
        /\ Step \in {"session", "locker"} => Top.key = "lock"
        /\ Step = "switch" => Top.key = "handle-keys"
        /\ Step = "logind" => Top.key \in Lids \cup {"lock"}
        /\ Step = "bind" => Top.key = "blank"
        /\ Step = "store" => Top.key # "blank"
    BY <1>1, TopOf
  <1>3. ASSUME NEW k \in Keys, NEW v, Write(k, v)
        PROVE  channel'[k] = v /\ \A j \in Keys \ {k} : channel'[j] = channel[j]
    <2>1. channel' = [channel EXCEPT ![k] = v]
      BY <1>3 DEF Write
    <2> QED BY <1>0, <2>1 DEF Storable
  <1>k. Sliders \subseteq Keys /\ Top.key \in Keys /\ "brightness-switch" \in Keys \ Sliders
        /\ "logind-lid" \in Keys \ Sliders
    BY <1>1, TopOf DEF Keys, Widgets, Sliders
  <1>4. CASE Top.key \in Sliders
    <2>1. Step \in {"store", "bind"}
      <3>1. StoreValue \/ StoreBound
        BY <1>2, <1>4 DEF StoreSession, SetLockOnSuspend, StoreSwitch, UpdateLogindHandleLidSwitch, Sliders, Lids
      <3> QED BY <3>1 DEF StoreValue, StoreBound
    <2>2. Len(Top.todo) = 1
      <3>1. SoFar(Top, shown)
        <4>1. Top = stack[1]
          BY <1>0, <1>1, StackOf
        <4> QED BY <1>1, <1>4, <4>1 DEF Nested, NestedIn
      <3> QED BY <1>1, <1>2, <1>4, <2>1, <3>1, Stores DEF Step
    <2>3. CASE Step = "store"
      <3>1. StoreValue
        BY <2>3 DEF StoreBound, StoreSession, SetLockOnSuspend, StoreSwitch, UpdateLogindHandleLidSwitch
      <3>2. Write(Top.key, Top.read[Top.key])
        BY <3>1 DEF StoreValue
      <3> QED BY <1>1, <1>2, <1>3, <1>4, <1>k, <2>2, <2>3, <3>2
    <2>4. CASE Step = "bind"
      <3>1. StoreBound
        BY <2>4 DEF StoreValue, StoreSession, SetLockOnSuspend, StoreSwitch, UpdateLogindHandleLidSwitch
      <3>2. Write("blank", shown["blank"])
        BY <3>1 DEF StoreBound
      <3> QED BY <1>1, <1>2, <1>3, <1>4, <1>k, <2>2, <2>4, <3>2
    <2> QED BY <2>1, <2>3, <2>4
  <1>5. CASE Top.key \notin Sliders
    <2>1. CASE StoreValue
      <3>1. Write(Top.key, Top.read[Top.key])
        BY <2>1 DEF StoreValue
      <3> QED BY <1>1, <1>3, <1>5, <1>k, <3>1
    <2>2. CASE StoreBound
      <3>1. Top.key = "blank"
        BY <1>2, <2>2 DEF StoreBound
      <3> QED BY <1>5, <3>1 DEF Sliders
    <2>3. CASE StoreSession \/ SetLockOnSuspend
      BY <1>1, <1>5, <2>3 DEF StoreSession, SetLockOnSuspend
    <2>4. CASE StoreSwitch
      <3>1. \A j \in Keys \ {"brightness-switch"} : channel'[j] = channel[j]
        BY <1>3, <1>k, <2>4 DEF StoreSwitch
      <3> QED BY <1>1, <1>5, <1>k, <3>1
    <2>5. CASE UpdateLogindHandleLidSwitch
      <3>1. \A j \in Keys \ {"logind-lid"} : channel'[j] = channel[j]
        BY <1>3, <1>k, <2>5 DEF UpdateLogindHandleLidSwitch
      <3> QED BY <1>1, <1>5, <1>k, <3>1
    <2> QED BY <2>1, <2>2, <2>3, <2>4, <2>5
  <1> QED BY <1>4, <1>5

\* A slider is moved by the handler of another one.
LEMMA SliderMoves ==
    ASSUME Types, Nested, Move
    PROVE  /\ stack # <<>> /\ Top.todo # <<>> /\ Top \in SliderFrames /\ Top.key \in Sliders /\ Top = stack[1]
           /\ dialog /\ dialog' = dialog /\ channel' = channel /\ InRange(shown) /\ SoFar(Top, shown)
           /\ Step \in Sliders
           /\ \/ /\ shown' = shown /\ stack' = Done
                 /\ \A v \in Moves(Top.key, Step, Top.read) : shown[Step] = Clamp(v, Low(Step), High(Step))
              \/ \E F \in SliderFrames :
                    /\ F.key = Step /\ F.todo # <<>> /\ stack' = <<F>> \o Done
                    /\ \A j \in Sliders \ {Step} : shown'[j] = shown[j]
  <1>0. StackTyped /\ (dialog => InRange(shown)) /\ shown \in [Widgets -> Unset..360]
    BY SliderRange DEF Types, DialogTypes, InRange, Widgets
  <1>1. /\ stack # <<>> /\ Top.todo # <<>> /\ Top \in SliderFrames /\ Step \in Sliders /\ dialog
        /\ dialog' = dialog
    BY MoveStep
  <1>2. channel' = channel
    BY DEF Move, storeVars
  <1>3. Top.key \in Sliders /\ Top = stack[1]
    BY <1>0, <1>1, StackOf, FrameOf
  <1>4. SoFar(Top, shown)
    BY <1>1, <1>3 DEF Nested, NestedIn
  <1>5. ASSUME NEW v \in Moves(Top.key, Step, Top.read),
               shown' = [shown EXCEPT ![Step] = Clamp(v, Low(Step), High(Step))],
               stack' = <<Frame(Step, shown')>> \o Done
        PROVE  \E F \in SliderFrames :
                    /\ F.key = Step /\ F.todo # <<>> /\ stack' = <<F>> \o Done
                    /\ \A j \in Sliders \ {Step} : shown'[j] = shown[j]
    <2> DEFINE k == Step  w == Clamp(v, Low(k), High(k))  F == Frame(k, shown')
    <2>1. v \in Int /\ Low(k) \in Int /\ High(k) \in Int /\ Low(k) <= High(k)
      BY <1>1, MovesInt, SliderRange DEF Step
    <2>2. w \in Low(k)..High(k)
      BY <2>1, ClampOf
    <2>3. shown' = [shown EXCEPT ![k] = w] /\ Sliders \subseteq Widgets
      BY <1>5 DEF Widgets
    <2> HIDE DEF w
    <2>4. shown'[k] = w /\ \A j \in Sliders \ {k} : shown'[j] = shown[j]
      BY <1>0, <1>1, <2>3
    <2>5. InRange(shown')
      <3>1. ASSUME NEW j \in Sliders PROVE shown'[j] \in Low(j)..High(j)
        <4>1. CASE j = k
          BY <2>2, <2>4, <4>1
        <4>2. CASE j # k
          BY <1>0, <1>1, <2>4, <4>2 DEF InRange
        <4> QED BY <4>1, <4>2
      <3> QED BY <3>1 DEF InRange
    <2>6. F \in SliderFrames /\ F.key = k /\ F.todo # <<>>
      BY <1>1, <2>5, SliderFrame
    <2> HIDE DEF F
    <2> QED BY <1>5, <2>4, <2>6 DEF F
  <1>6. \/ /\ shown' = shown /\ stack' = Done
           /\ \A v \in Moves(Top.key, Step, Top.read) : shown[Step] = Clamp(v, Low(Step), High(Step))
        \/ \E v \in Moves(Top.key, Step, Top.read) :
              /\ shown' = [shown EXCEPT ![Step] = Clamp(v, Low(Step), High(Step))]
              /\ stack' = <<Frame(Step, shown')>> \o Done
    BY MoveStep
  <1> QED BY <1>0, <1>1, <1>2, <1>3, <1>4, <1>5, <1>6

\* The dialog opens with what is stored of the sliders.
LEMMA OpensSliders ==
    ASSUME Types, OpenDialog
    PROVE  /\ dialog' /\ stack = <<>> /\ stack' = <<>> /\ channel' = channel
           /\ \A k \in Sliders : Fits(channel, k) /\ (k = "dim" => world.lcd) => shown'[k] = channel[k]
  <1>1. ~dialog /\ dialog' = TRUE /\ shown' = [k \in Widgets |-> Show(k)] /\ stack' = stack /\ channel' = channel
    BY DEF OpenDialog, storeVars
  <1>2. stack = <<>> /\ world.source \in {"ac", "battery"}
    BY <1>1, WorldOf DEF Types, DialogTypes, WorldTypes
  <1>3. ASSUME NEW k \in Sliders, Fits(channel, k), k = "dim" => world.lcd PROVE shown'[k] = channel[k]
    <2>1. k \in Widgets /\ k # "level"
      BY DEF Widgets, Sliders
    <2>2. channel[k] \in Choices(k) /\ channel[k] # Unset
      BY <1>3, SliderRange DEF Fits, Unset
    <2>3. Show(k) = channel[k]
      BY <1>2, <1>3, <2>1, <2>2, ShowsStored
    <2> QED BY <1>1, <2>1, <2>3
  <1> QED BY <1>1, <1>2, <1>3

LEMMA OrderStep ==
    ASSUME Types, Nested, AppliedInv, OrderInv, Next
    PROVE  OrderInv'
  <1> USE DEF storeVars, daemonVars, dialogVars, lockerVars
  <1>0. StackTyped /\ (~dialog => stack = <<>>) /\ (stack # <<>> => dialog) /\ world' = world /\ dialog \in BOOLEAN
    BY NextWorld DEF Types, DialogTypes
  <1>r. dialog => InRange(shown)
    BY SliderRange DEF Types, DialogTypes, InRange, Widgets
  <1>s. SUFFICES ASSUME Orderly PROVE OrderIn(channel', shown', stack', dialog')
    BY <1>0, OrderPrimed
  <1>i. /\ \A k \in Sliders : Fits(channel, k)
        /\ ~dialog => Ordered(channel)
        /\ dialog /\ (stack = <<>> \/ stack[1].key \notin Sliders) => Ordered(shown)
        /\ BottomIn(stack)
    BY <1>s DEF OrderInv, OrderIn
  <1>a. ASSUME channel' = channel, shown' = shown, stack' = stack, dialog' = dialog
        PROVE  OrderIn(channel', shown', stack', dialog')
    BY <1>a, <1>i DEF OrderIn
  <1>1. CASE PropertyChanged \/ DaemonStops \/ DaemonStarts
             \/ LateLockingChanged \/ AutomaticLockingChanged \/ SessionToggles
    BY <1>1, <1>a DEF PropertyChanged, DaemonStops, DaemonStarts,
       LateLockingChanged, AutomaticLockingChanged, SessionToggles
  <1>2. CASE SessionPropertyChanged
    <2>1. \A k \in Sliders : channel'[k] = channel[k]
      BY <1>2 DEF SessionPropertyChanged, Sliders, Types, StoreTypes, Storable, Keys, Widgets
    <2>2. shown' = shown /\ stack' = stack /\ dialog' = dialog
      BY <1>2 DEF SessionPropertyChanged
    <2>3. Ordered(channel) => Ordered(channel')
      BY <2>1, OrderOf DEF Ordered, Sliders
    <2> QED BY <1>i, <2>1, <2>2, <2>3 DEF OrderIn, Fits
  <1>3. CASE OpenDialog
    <2>1. /\ dialog' /\ stack = <<>> /\ stack' = <<>> /\ channel' = channel /\ ~dialog
          /\ \A k \in Sliders : Fits(channel, k) /\ (k = "dim" => world.lcd) => shown'[k] = channel[k]
      BY <1>3, OpensSliders DEF OpenDialog
    <2>2. /\ shown'["blank"] = channel["blank"] /\ shown'["sleep"] = channel["sleep"]
          /\ shown'["off"] = channel["off"] /\ (world.lcd => shown'["dim"] = channel["dim"])
      BY <1>i, <2>1 DEF Sliders
    <2>3. Ordered(shown')
      BY <1>i, <2>1, <2>2, OrderOf DEF Ordered
    <2> QED BY <1>i, <2>1, <2>3 DEF OrderIn, BottomIn
  <1>4. CASE CloseDialog
    <2>1. dialog /\ stack = <<>> /\ ~dialog' /\ stack' = <<>> /\ channel' = channel
      BY <1>4 DEF CloseDialog, Idle
    <2>2. Ordered(shown) /\ InRange(shown)
      BY <1>i, <1>r, <2>1
    <2>3. \A k : ~Pending(stack, k)
      BY <2>1 DEF Pending
    <2>4. ~OffMoved(stack)
      BY <2>1 DEF OffMoved
    <2>5. /\ shown["blank"] = channel["blank"] /\ shown["off"] = channel["off"]
          /\ shown["sleep"] = channel["sleep"] \/ AtLast(channel, shown)
          /\ world.lcd => shown["dim"] = channel["dim"]
      BY <1>s, <1>i, <2>1, <2>3, <2>4 DEF AppliedInv, AppliedIn, Applied, Sliders
    <2>6. Ordered(channel)
      <3>1. CASE shown["sleep"] = channel["sleep"]
        BY <2>2, <2>5, <3>1, OrderOf DEF Ordered
      <3>2. CASE AtLast(channel, shown)
        <4>1. SleepsBeforeOff(channel)
          BY <2>5, <3>2 DEF AtLast, SleepsBeforeOff
        <4>2. BlanksBeforeSleep(channel)
          BY <2>2, <2>5, <3>2, RangeOf DEF AtLast, BlanksBeforeSleep, Ordered
        <4>3. DimsBeforeSleep(channel)
          BY <2>2, <2>5, <3>2, RangeOf DEF AtLast, DimsBeforeSleep
        <4> QED BY <4>1, <4>2, <4>3 DEF Ordered
      <3> QED BY <2>5, <3>1, <3>2
    <2> QED BY <1>i, <2>1, <2>6 DEF OrderIn, BottomIn
  <1>5. CASE Move
    <2>1. /\ stack # <<>> /\ Top.todo # <<>> /\ Top \in SliderFrames /\ Top.key \in Sliders /\ Top = stack[1]
          /\ dialog /\ dialog' = dialog /\ channel' = channel /\ Step \in Sliders
          /\ \/ stack' = Done
             \/ \E F \in SliderFrames : F.key = Step /\ stack' = <<F>> \o Done
      BY <1>5, SliderMoves
    <2>2. CASE stack' = Done
      <3>1. BottomIn(stack') /\ stack'[1].key \in Sliders /\ stack' # <<>>
        BY <1>0, <1>i, <2>1, <2>2, BottomDone, DoneOf, FrameOf
      <3> QED BY <1>i, <2>1, <3>1 DEF OrderIn
    <2>3. ASSUME NEW F \in SliderFrames, F.key = Step, stack' = <<F>> \o Done
          PROVE  OrderIn(channel', shown', stack', dialog')
      <3>1. BottomIn(stack') /\ stack'[1] = F /\ stack' # <<>>
        BY <1>0, <1>i, <2>1, <2>3, BottomCalls, PushedOf
      <3> QED BY <1>i, <2>1, <2>3, <3>1 DEF OrderIn
    <2> QED BY <2>1, <2>2, <2>3
  <1>6. CASE StoreValue \/ StoreBound \/ StoreSession \/ SetLockOnSuspend \/ StoreSwitch
             \/ UpdateLogindHandleLidSwitch
    <2>1. /\ stack # <<>> /\ Top.todo # <<>> /\ stack' = Done /\ shown' = shown /\ dialog /\ dialog' = dialog
          /\ \/ Top.key \notin Sliders /\ \A j \in Sliders : channel'[j] = channel[j]
             \/ /\ Top \in SliderFrames /\ Len(Top.todo) = 1
                /\ channel'[Top.key] = (IF Top.key = "blank" THEN shown["blank"] ELSE Top.read[Top.key])
                /\ \A j \in Sliders \ {Top.key} : channel'[j] = channel[j]
      BY <1>6, SliderStores
    <2>2. BottomIn(stack') /\ stack'[1].key = stack[1].key /\ stack' # <<>> /\ stack[1] = Top
      <3>1. /\ BottomIn(Done) /\ Done[1] = Stepped(Top) /\ Done # <<>> /\ Top = stack[1]
            /\ Stepped(Top).key = Top.key
        BY <1>0, <1>i, <2>1, BottomDone, DoneOf, StackOf, SteppedOf
      <3> QED BY <2>1, <3>1
    <2>3. \A k \in Sliders : Fits(channel', k)
      <3>1. ASSUME NEW k \in Sliders PROVE Fits(channel', k)
        <4>1. CASE channel'[k] = channel[k]
          BY <1>i, <4>1 DEF Fits
        <4>2. CASE channel'[k] # channel[k]
          <5>1. /\ Top \in SliderFrames /\ k = Top.key
                /\ channel'[k] = (IF k = "blank" THEN shown["blank"] ELSE Top.read[k])
            BY <2>1, <4>2
          <5>2. InRange(Top.read) /\ InRange(shown)
            BY <1>r, <2>1, <5>1, FrameOf
          <5>3. channel'[k] \in Low(k)..High(k)
            BY <5>1, <5>2 DEF InRange
          <5> QED BY <5>3 DEF Fits
        <4> QED BY <4>1, <4>2
      <3> QED BY <3>1
    <2> QED BY <1>i, <2>1, <2>2, <2>3 DEF OrderIn
  <1>7. CASE HandlerReturns
    <2>1. /\ stack # <<>> /\ Top.todo = <<>> /\ stack' = Tail(stack) /\ shown' = shown /\ channel' = channel
          /\ dialog' = dialog
      BY <1>7 DEF HandlerReturns
    <2>2. BottomIn(stack')
      BY <1>0, <1>i, <2>1, BottomReturns
    <2>3. Top = stack[1] /\ Len(stack) \in Nat \ {0} /\ Len(stack') = Len(stack) - 1
      BY <1>0, <2>1, StackOf, PoppedOf
    <2>4. CASE stack' = <<>> /\ Top.key \in Sliders
      <3>1. Len(stack) = 1
        BY <2>3, <2>4
      <3>2. Top \in SliderFrames
        BY <2>1, <2>4, TopOf
      <3>3. SoFar(Top, shown) /\ InRange(shown)
        BY <1>0, <1>r, <2>1, <2>3, <2>4 DEF Nested, NestedIn
      <3>4. BottomIn(<<Top>>)
        <4> DEFINE f == Top  q == <<f>>
        <4> HIDE DEF f
        <4>1. Len(q) = 1 /\ q[1] = f
          OBVIOUS
        <4> HIDE DEF q
        <4>2. BottomIn(q)
          BY <1>i, <2>1, <2>3, <3>1, <4>1 DEF BottomIn, f
        <4> QED BY <4>2 DEF q, f
      <3>5. Ordered(shown)
        BY <2>1, <3>2, <3>3, <3>4, OrderReturns
      <3> QED BY <1>0, <1>i, <2>1, <2>2, <3>5 DEF OrderIn
    <2>5. CASE stack' = <<>> /\ Top.key \notin Sliders
      BY <1>0, <1>i, <2>1, <2>2, <2>3, <2>5 DEF OrderIn
    <2>6. CASE stack' # <<>>
      <3>1. Head(stack') = stack[2] /\ Len(stack) >= 2 /\ Frames = SliderFrames /\ stack'[1] = stack[2]
        <4>1. Len(stack) >= 2 /\ Frames = SliderFrames /\ \A i \in 1..Len(stack) - 1 : Tail(stack)[i] = stack[i + 1]
          BY <1>0, <2>1, <2>6, PoppedOf
        <4>2. 1 \in 1..Len(stack) - 1 /\ 1 + 1 = 2
          BY <2>3, <4>1
        <4>3. stack'[1] = stack[2]
          BY <2>1, <4>1, <4>2
        <4> QED BY <1>0, <2>1, <2>6, <4>1, <4>3, PoppedOf
      <3>2. stack[2] \in SliderFrames
        <4>1. 2 \in 1..Len(stack)
          BY <2>3, <3>1
        <4> QED BY <1>0, <2>1, <3>1, <4>1, StackOf
      <3>3. stack'[1].key \in Sliders
        BY <3>1, <3>2, FrameOf
      <3> QED BY <1>0, <1>i, <2>1, <2>2, <2>6, <3>3 DEF OrderIn
    <2> QED BY <2>4, <2>5, <2>6
  <1>8. ASSUME NEW k \in Widgets, Touches(k), NEW v \in Chosen(k), Sets(k, v)
        PROVE  OrderIn(channel', shown', stack', dialog')
    <2>1. /\ dialog /\ stack = <<>> /\ shown' = [shown EXCEPT ![k] = v] /\ stack' = <<Frame(k, shown')>>
          /\ channel' = channel /\ dialog' = dialog
      BY <1>8 DEF Touches, Sets, Idle
    <2>2. shown \in [Widgets -> Unset..360] /\ Sliders \subseteq Widgets
      BY DEF Types, DialogTypes, Widgets
    <2>3. Ordered(shown) /\ InRange(shown)
      BY <1>i, <1>r, <2>1
    <2>4. \A j \in Sliders \ {k} : shown'[j] = shown[j]
      BY <2>1, <2>2
    <2>5. k \in Sliders => InRange(shown')
      <3>1. v \in Values(k) /\ shown'[k] = v
        BY <2>1, <2>2 DEF Chosen
      <3> QED BY <2>3, <2>4, <3>1, SliderRange DEF InRange
    <2>6. BottomIn(<<Frame(k, shown')>>)
      BY <2>3, <2>4, <2>5, BottomEnters
    <2>7. k \notin Sliders => Ordered(shown')
      BY <2>3, <2>4, OrderOf DEF Ordered, Sliders
    <2>8. stack' # <<>> /\ stack'[1].key = k
      BY <2>1 DEF Frame
    <2> QED BY <1>i, <2>1, <2>6, <2>7, <2>8 DEF OrderIn
  <1>9. CASE BlankChanges \/ \E k \in Widgets : Reset(k)
    BY <1>s, <1>9 DEF BlankChanges, Reset, Orderly
  <1> QED BY <1>1, <1>2, <1>3, <1>4, <1>5, <1>6, <1>7, <1>8, <1>9, UserSets DEF Next, HandlerStep

-----------------------------------------------------------------------------
(* What the dialog shows is stored, or on its way. *)

LEMMA AppliedPrimed ==
    ASSUME world' = world,
           dialog' => /\ AppliedIn(channel', shown', stack')
                      /\ Orderly /\ world.lcd => Applied(channel', shown', stack', "dim")
    PROVE  AppliedInv'
  <1>1. Orderly' <=> Orderly
    BY DEF Orderly, InOrder, Choices, Low, High
  <1> QED BY <1>1 DEF AppliedInv, AppliedIn, Applied, Pending, AtLast, OffMoved, Fits, Low, High

LEMMA PendingDone ==
    ASSUME StackTyped, stack # <<>>, Top.todo # <<>>, NEW k, Pending(stack, k),
           k # Top.key \/ Stepped(Top).todo # <<>>
    PROVE  Pending(Done, k)
  <1> DEFINE g == Stepped(Top)  n == Len(stack)
  <1>1. Len(Done) = n /\ Done[1] = g /\ \A i \in 2..n : Done[i] = stack[i]
    BY DoneOf
  <1>2. Top = stack[1] /\ n \in Nat \ {0} /\ g.key = Top.key
    BY StackOf, SteppedOf
  <1>3. PICK i \in 1..n : stack[i].key = k /\ stack[i].todo # <<>>
    BY DEF Pending
  <1>4. k # Top.key \/ g.todo # <<>>
    OBVIOUS
  <1> HIDE DEF Done, g, n, Top
  <1>5. CASE i = 1
    <2>1. Done[1].key = k /\ Done[1].todo # <<>> /\ 1 \in 1..n
      BY <1>1, <1>2, <1>3, <1>4, <1>5
    <2> QED BY <1>1, <2>1 DEF Pending
  <1>6. CASE i # 1
    <2>1. i \in 2..n
      BY <1>2, <1>6
    <2> QED BY <1>1, <1>3, <2>1 DEF Pending
  <1> QED BY <1>5, <1>6

LEMMA PendingCalls ==
    ASSUME StackTyped, stack # <<>>, Top.todo # <<>>, Top.key \in Sliders, NEW F \in SliderFrames, F.todo # <<>>
    PROVE  /\ Pending(<<F>> \o Done, F.key)
           /\ \A k : Pending(Done, k) => Pending(<<F>> \o Done, k)
  <1> DEFINE s == <<F>> \o Done  n == Len(stack)  g == Stepped(Top)
  <1>1. /\ Len(s) = n + 1 /\ s[1] = F /\ s[2] = g
        /\ \A i \in 3..n + 1 : s[i] = stack[i - 1]
    BY PushedOf
  <1>2. /\ n \in Nat \ {0} /\ Len(Done) = n /\ Done[1] = g /\ \A i \in 2..n : Done[i] = stack[i]
    BY StackOf, DoneOf
  <1> HIDE DEF s, n, g, Done
  <1>3. Pending(s, F.key)
    <2>1. 1 \in 1..Len(s)
      BY <1>1, <1>2
    <2> QED BY <1>1, <2>1 DEF Pending
  <1>4. ASSUME NEW k, Pending(Done, k) PROVE Pending(s, k)
    <2>1. PICK i \in 1..n : Done[i].key = k /\ Done[i].todo # <<>>
      BY <1>2, <1>4 DEF Pending
    <2>2. i + 1 \in 1..Len(s)
      BY <1>1, <1>2
    <2>3. s[i + 1] = Done[i]
      <3>1. CASE i = 1
        BY <1>1, <1>2, <3>1
      <3>2. CASE i # 1
        <4>1. i + 1 \in 3..n + 1 /\ (i + 1) - 1 = i /\ i \in 2..n
          BY <1>2, <3>2
        <4> QED BY <1>1, <1>2, <4>1
      <3> QED BY <3>1, <3>2
    <2> QED BY <2>1, <2>2, <2>3 DEF Pending
  <1> QED BY <1>3, <1>4 DEF s

LEMMA PendingReturns ==
    ASSUME StackTyped, stack # <<>>, Top.todo = <<>>, NEW k, Pending(stack, k)
    PROVE  Pending(Tail(stack), k)
  <1> DEFINE s == Tail(stack)  n == Len(stack)
  <1>1. Len(s) = n - 1 /\ \A i \in 1..n - 1 : s[i] = stack[i + 1]
    BY PoppedOf
  <1>2. Top = stack[1] /\ n \in Nat \ {0}
    BY StackOf
  <1>3. PICK i \in 1..n : stack[i].key = k /\ stack[i].todo # <<>>
    BY DEF Pending
  <1>4. Top.todo = <<>>
    OBVIOUS
  <1> HIDE DEF s, n, Top
  <1>5. i # 1
    BY <1>2, <1>3, <1>4
  <1>6. i - 1 \in 1..n - 1 /\ (i - 1) + 1 = i
    BY <1>2, <1>5
  <1>7. s[i - 1] = stack[i]
    BY <1>1, <1>6
  <1>8. Pending(s, k)
    BY <1>1, <1>3, <1>6, <1>7 DEF Pending
  <1> QED BY <1>8 DEF s

\* What a handler stores is what the dialog shows, but for the last minute of the sleep slider.
LEMMA StoresShown ==
    ASSUME NEW f \in SliderFrames, Len(f.todo) = 1, SoFar(f, shown), InRange(shown)
    PROVE  /\ f.key = "off" => f.read["off"] = shown["off"]
           /\ f.key = "sleep" => f.read["sleep"] = shown["sleep"] \/ Pushed(f.read, shown)
           /\ f.key = "dim" /\ (f.read["dim"] = BrightnessDisabled \/ BlanksBeforeSleep(f.read)) =>
                f.read["dim"] = shown["dim"]
  <1> DEFINE r == f.read
  <1>0. InRange(r)
    BY FrameOf
  <1>1. ASSUME f.key = "off" PROVE r["off"] = shown["off"]
    <2>1. OffSoFar(1, r, shown)
      BY <1>1, SoFarOf
    <2> QED BY <2>1 DEF OffSoFar
  <1>2. ASSUME f.key = "sleep" PROVE r["sleep"] = shown["sleep"] \/ Pushed(r, shown)
    <2>1. SleepSoFar(1, r, shown)
      BY <1>2, SoFarOf
    <2> QED BY <2>1 DEF SleepSoFar
  <1>3. ASSUME f.key = "dim", r["dim"] = BrightnessDisabled \/ BlanksBeforeSleep(r) PROVE r["dim"] = shown["dim"]
    <2>1. DimSoFar(1, r, shown)
      BY <1>3, SoFarOf
    <2>2. CASE r["dim"] = BrightnessDisabled \/ r["sleep"] = 0 \/ r["sleep"] * 60 > r["dim"]
      BY <2>1, <2>2, SameOf DEF DimSoFar
    <2>3. CASE ~(r["dim"] = BrightnessDisabled \/ r["sleep"] = 0 \/ r["sleep"] * 60 > r["dim"])
      <3>1. r["blank"] < r["sleep"]
        BY <1>0, <1>3, <2>3, RangeOf DEF BlanksBeforeSleep
      <3> QED BY <2>1, <2>3, <3>1 DEF DimSoFar
    <2> QED BY <2>2, <2>3
  <1> QED BY <1>1, <1>2, <1>3

\* The handler of dimming has read that dimming is given up, or it is the outermost one.
LEMMA DimIsOutermost ==
    ASSUME StackTyped, Nested, BottomIn(stack), stack # <<>>, Top.key = "dim"
    PROVE  Top.read["dim"] = BrightnessDisabled \/ BlanksBeforeSleep(Top.read)
  <1>1. Top = stack[1] /\ Len(stack) \in Nat \ {0}
    BY StackOf
  <1>2. CASE Len(stack) = 1
    BY <1>1, <1>2 DEF BottomIn
  <1>3. CASE Len(stack) # 1
    <2>1. 2 \in 2..Len(stack) /\ 2 - 1 = 1
      BY <1>1, <1>3
    <2>2. Waits(stack[2], stack[1])
      <3>1. \A i \in 2..Len(stack) : Waits(stack[i], stack[i - 1])
        BY <1>1 DEF Nested, NestedIn, Sliders
      <3> QED BY <2>1, <3>1
    <2> QED BY <1>1, <2>2 DEF Waits
  <1> QED BY <1>2, <1>3

\* A handler that moves another slider goes on afterwards.
LEMMA GoesOn ==
    ASSUME NEW f \in SliderFrames, f.todo # <<>>, Head(f.todo) \in Sliders
    PROVE  Stepped(f).todo # <<>>
  <1> DEFINE n == Len(f.todo)  t == Head(f.todo)  q == Stepped(f).todo
  <1>1. f.key \in Sliders /\ n \in Nat /\ Len(q) = n - 1
    BY FrameOf
  <1>2. t \notin {"store", "bind"}
    BY DEF Sliders
  <1>3. f.key = "blank" => n \in 1..3 /\ (t = "bind" <=> n = 1)
    BY FrameOf
  <1>4. f.key = "sleep" => n \in 1..4 /\ (t = "store" <=> n = 1)
    BY FrameOf
  <1>5. f.key \in {"off", "dim"} => n \in 1..2 /\ (t = "store" <=> n = 1)
    BY FrameOf
  <1> HIDE DEF n, t, q
  <1>6. n >= 2
    BY <1>1, <1>2, <1>3, <1>4, <1>5 DEF Sliders
  <1>7. Len(q) # 0
    BY <1>1, <1>6
  <1> QED BY <1>7, NotEmpty DEF q

LEMMA AppliedStep ==
    ASSUME Types, Nested, AppliedInv, OrderInv, Next
    PROVE  AppliedInv'
  <1> USE DEF storeVars, daemonVars, dialogVars, lockerVars
  <1> DEFINE G == /\ AppliedIn(channel', shown', stack')
                  /\ Orderly /\ world.lcd => Applied(channel', shown', stack', "dim")
  <1>0. StackTyped /\ (~dialog => stack = <<>>) /\ (stack # <<>> => dialog) /\ world' = world /\ dialog \in BOOLEAN
    BY NextWorld DEF Types, DialogTypes
  <1>r. dialog => InRange(shown)
    BY SliderRange DEF Types, DialogTypes, InRange, Widgets
  <1>k. /\ "blank" \in Sliders /\ "sleep" \in Sliders /\ "off" \in Sliders /\ "dim" \in Sliders
        /\ shown \in [Widgets -> Unset..360] /\ Sliders \subseteq Widgets
    BY DEF Types, DialogTypes, Sliders, Widgets
  <1>s. SUFFICES ASSUME dialog' PROVE G
    BY <1>0, AppliedPrimed
  <1>i. dialog => /\ Fits(channel, "blank") => Applied(channel, shown, stack, "blank")
                  /\ Fits(channel, "off") => Applied(channel, shown, stack, "off")
                  /\ Fits(channel, "sleep") =>
                        Applied(channel, shown, stack, "sleep") \/ AtLast(channel, shown) \/ OffMoved(stack)
                  /\ Orderly /\ world.lcd => Applied(channel, shown, stack, "dim")
    BY DEF AppliedInv, AppliedIn
  <1>e. stack = <<>> => /\ ~OffMoved(stack) /\ \A k : ~Pending(stack, k)
    BY DEF OffMoved, Pending
  \* Nothing of the sliders changes, but for settings that are reset.
  <1>a. ASSUME dialog, shown' = shown, stack' = stack,
               \A j \in Sliders : channel'[j] = channel[j] \/ (~Fits(channel', j) /\ ~Orderly)
        PROVE  G
    <2>1. \A j \in Sliders : Fits(channel', j) \/ (Orderly /\ world.lcd) => channel'[j] = channel[j] \/ ~Fits(channel', j)
      BY <1>a
    <2>2. \A j \in Sliders : Fits(channel', j) =>
            Fits(channel, j) /\ channel'[j] = channel[j] /\
            (Applied(channel, shown, stack, j) => Applied(channel', shown', stack', j))
      BY <1>a DEF Fits, Applied
    <2>3. AppliedIn(channel', shown', stack')
      BY <1>a, <1>i, <1>k, <2>2 DEF AppliedIn, AtLast
    <2>4. Orderly /\ world.lcd => Applied(channel', shown', stack', "dim")
      BY <1>a, <1>i, <1>k DEF Applied
    <2> QED BY <2>3, <2>4
  <1>1. CASE PropertyChanged \/ DaemonStops \/ DaemonStarts
             \/ LateLockingChanged \/ AutomaticLockingChanged \/ SessionToggles
    BY <1>1, <1>a, <1>s DEF PropertyChanged, DaemonStops, DaemonStarts,
       LateLockingChanged, AutomaticLockingChanged, SessionToggles
  <1>2. CASE SessionPropertyChanged
    <2>1. \A k \in Sliders : channel'[k] = channel[k]
      BY <1>2 DEF SessionPropertyChanged, Sliders, Types, StoreTypes, Storable, Keys, Widgets
    <2> QED BY <1>2, <1>a, <1>s, <2>1 DEF SessionPropertyChanged
  <1>3. CASE OpenDialog
    <2>1. /\ stack' = <<>> /\ channel' = channel
          /\ \A k \in Sliders : Fits(channel, k) /\ (k = "dim" => world.lcd) => shown'[k] = channel[k]
      BY <1>3, OpensSliders
    <2>2. Orderly => Fits(channel, "dim")
      BY <1>k DEF OrderInv, OrderIn
    <2> QED BY <1>k, <2>1, <2>2 DEF AppliedIn, Applied
  <1>4. CASE CloseDialog
    BY <1>4, <1>s DEF CloseDialog
  <1>5. CASE Move
    <2> DEFINE f == Top  r == Top.read
    <2>1. /\ stack # <<>> /\ Top.todo # <<>> /\ Top \in SliderFrames /\ Top.key \in Sliders /\ Top = stack[1]
          /\ dialog /\ dialog' = dialog /\ channel' = channel /\ InRange(shown) /\ SoFar(Top, shown)
          /\ Step \in Sliders
          /\ \/ /\ shown' = shown /\ stack' = Done
                /\ \A v \in Moves(Top.key, Step, Top.read) : shown[Step] = Clamp(v, Low(Step), High(Step))
             \/ \E F \in SliderFrames :
                   /\ F.key = Step /\ F.todo # <<>> /\ stack' = <<F>> \o Done
                   /\ \A j \in Sliders \ {Step} : shown'[j] = shown[j]
      BY <1>5, SliderMoves
    <2>2. Stepped(Top).todo # <<>>
      BY <2>1, GoesOn DEF Step
    <2>3. \A k : Pending(stack, k) => Pending(Done, k)
      BY <1>0, <2>1, <2>2, PendingDone
    <2>4. Pending(Done, Top.key)
      <3>1. Pending(stack, Top.key)
        <4>1. 1 \in 1..Len(stack)
          BY <1>0, <2>1, StackOf
        <4> QED BY <2>1, <4>1 DEF Pending
      <3> QED BY <2>3, <3>1
    <2>5. ASSUME OffMoved(stack)
          PROVE  /\ Step = "sleep" /\ shown["sleep"] = 59
                 /\ \E v \in Moves(Top.key, Step, Top.read) : shown[Step] # Clamp(v, Low(Step), High(Step))
      <3>1. /\ f.key = "off" /\ Len(f.todo) = 2 /\ r["off"] < 60 /\ r["sleep"] = 59
        BY <2>1, <2>5 DEF OffMoved
      <3>2. Step = "sleep"
        BY <2>1, <3>1, FrameOf DEF Step
      <3>3. OffSoFar(2, r, shown) /\ InRange(r)
        <4>1. OffSoFar(Len(f.todo), r, shown)
          BY <2>1, <3>1, SoFarOf
        <4>2. InRange(r)
          BY <2>1, FrameOf
        <4> QED BY <3>1, <4>1, <4>2
      <3>4. Same(shown, r) /\ shown["sleep"] = 59
        BY <3>1, <3>3, SameOf DEF OffSoFar
      <3>5. r["off"] - 1 \in Moves("off", "sleep", r)
        BY <3>1, <3>3, RangeOf, MovesOf
      <3>6. Clamp(r["off"] - 1, 0, 60) # 59
        BY <3>1, <3>3, RangeOf DEF Clamp
      <3>7. Low("sleep") = 0 /\ High("sleep") = 60
        BY LowHigh
      <3> QED BY <3>1, <3>2, <3>4, <3>5, <3>6, <3>7
    <2>6. CASE /\ shown' = shown /\ stack' = Done
               /\ \A v \in Moves(Top.key, Step, Top.read) : shown[Step] = Clamp(v, Low(Step), High(Step))
      <3>1. ~OffMoved(stack)
        BY <2>5, <2>6
      <3>2. \A k : Applied(channel, shown, stack, k) => Applied(channel', shown', stack', k)
        BY <2>1, <2>3, <2>6 DEF Applied
      <3>3. AtLast(channel, shown) => AtLast(channel', shown')
        BY <2>1, <2>6
      <3>4. \A k : Fits(channel', k) => Fits(channel, k)
        BY <2>1
      <3> QED BY <1>i, <2>1, <3>1, <3>2, <3>3, <3>4 DEF AppliedIn
    <2>7. ASSUME NEW F \in SliderFrames, F.key = Step, F.todo # <<>>, stack' = <<F>> \o Done,
                 \A j \in Sliders \ {Step} : shown'[j] = shown[j]
          PROVE  G
      <3>1. Pending(stack', Step) /\ \A k : Pending(Done, k) => Pending(stack', k)
        BY <1>0, <2>1, <2>7, PendingCalls
      <3>2. \A k \in Sliders : Applied(channel, shown, stack, k) => Applied(channel', shown', stack', k)
        <4>1. ASSUME NEW k \in Sliders, Applied(channel, shown, stack, k) PROVE Applied(channel', shown', stack', k)
          BY <2>1, <2>3, <2>7, <3>1, <4>1 DEF Applied
        <4> QED BY <4>1
      <3>3. AtLast(channel, shown) => AtLast(channel', shown') \/ Applied(channel', shown', stack', "sleep")
        <4>1. SUFFICES ASSUME AtLast(channel, shown), ~Pending(stack', "sleep") PROVE AtLast(channel', shown')
          BY DEF Applied
        <4>2. Step # "sleep" /\ Top.key # "sleep"
          BY <2>4, <3>1, <4>1
        <4>3. Step # "off"
          <5>1. CASE f.key = "blank"
            BY <2>1, <5>1, FrameOf DEF Step
          <5>2. CASE f.key \in {"off", "dim"}
            BY <2>1, <5>2, FrameOf DEF Step
          <5> QED BY <2>1, <4>2, <5>1, <5>2 DEF Sliders
        <4>4. shown'["sleep"] = shown["sleep"] /\ shown'["off"] = shown["off"]
          BY <1>k, <2>7, <4>2, <4>3
        <4> QED BY <2>1, <4>1, <4>4 DEF AtLast
      <3>4. OffMoved(stack) => Applied(channel', shown', stack', "sleep")
        BY <2>5, <3>1 DEF Applied
      <3>5. \A k : Fits(channel', k) => Fits(channel, k)
        BY <2>1
      <3> QED BY <1>i, <1>k, <2>1, <3>2, <3>3, <3>4, <3>5 DEF AppliedIn
    <2> QED BY <2>1, <2>6, <2>7
  <1>6. CASE StoreValue \/ StoreBound \/ StoreSession \/ SetLockOnSuspend \/ StoreSwitch
             \/ UpdateLogindHandleLidSwitch
    <2>1. /\ stack # <<>> /\ Top.todo # <<>> /\ stack' = Done /\ shown' = shown /\ dialog /\ dialog' = dialog
          /\ \/ Top.key \notin Sliders /\ \A j \in Sliders : channel'[j] = channel[j]
             \/ /\ Top \in SliderFrames /\ Len(Top.todo) = 1
                /\ channel'[Top.key] = (IF Top.key = "blank" THEN shown["blank"] ELSE Top.read[Top.key])
                /\ \A j \in Sliders \ {Top.key} : channel'[j] = channel[j]
      BY <1>6, SliderStores
    <2>2. \A k : k # Top.key /\ Pending(stack, k) => Pending(Done, k)
      BY <1>0, <2>1, PendingDone
    <2>3. Top = stack[1]
      BY <1>0, <2>1, StackOf
    <2>4. ASSUME NEW k \in Sliders, k # Top.key
          PROVE  /\ channel'[k] = channel[k]
                 /\ Applied(channel, shown, stack, k) => Applied(channel', shown', stack', k)
      BY <2>1, <2>2, <2>4 DEF Applied
    <2>5. ~OffMoved(stack) \/ Top.key \notin Sliders
      BY <2>1, <2>3 DEF OffMoved
    <2>6. CASE Top.key \notin Sliders
      <3>1. ~OffMoved(stack)
        BY <1>k, <2>3, <2>6 DEF OffMoved
      <3>2. \A k \in Sliders : /\ channel'[k] = channel[k]
                               /\ Applied(channel, shown, stack, k) => Applied(channel', shown', stack', k)
        BY <2>4, <2>6
      <3> QED BY <1>i, <1>k, <2>1, <3>1, <3>2 DEF AppliedIn, AtLast, Fits
    <2>7. CASE Top.key \in Sliders
      <3>1. /\ Top \in SliderFrames /\ Len(Top.todo) = 1
            /\ channel'[Top.key] = (IF Top.key = "blank" THEN shown["blank"] ELSE Top.read[Top.key])
        BY <2>1, <2>7
      <3>2. SoFar(Top, shown) /\ InRange(shown)
        BY <1>r, <2>1, <2>3, <2>7 DEF Nested, NestedIn
      <3>3. ~OffMoved(stack)
        BY <2>5, <2>7
      <3>4. Top.key # "sleep" /\ AtLast(channel, shown) => AtLast(channel', shown')
        BY <1>k, <2>1, <2>4 DEF AtLast
      <3>5. Top.key = "blank" => Applied(channel', shown', stack', "blank")
        BY <2>1, <3>1 DEF Applied
      <3>6. Top.key = "off" => Applied(channel', shown', stack', "off")
        <4>1. ASSUME Top.key = "off" PROVE channel'["off"] = shown["off"]
          BY <3>1, <3>2, <4>1, StoresShown
        <4> QED BY <2>1, <4>1 DEF Applied
      <3>7. Top.key = "sleep" => Applied(channel', shown', stack', "sleep") \/ AtLast(channel', shown')
        <4>1. ASSUME Top.key = "sleep" PROVE channel'["sleep"] = shown["sleep"] \/ AtLast(channel', shown)
          <5>1. Top.read["sleep"] = shown["sleep"] \/ Pushed(Top.read, shown)
            BY <3>1, <3>2, <4>1, StoresShown
          <5>2. channel'["sleep"] = Top.read["sleep"]
            BY <3>1, <4>1
          <5> QED BY <5>1, <5>2 DEF Pushed, AtLast
        <4> QED BY <2>1, <4>1 DEF Applied
      <3>8. Top.key = "dim" /\ Orderly => Applied(channel', shown', stack', "dim")
        <4>1. ASSUME Top.key = "dim", Orderly PROVE channel'["dim"] = shown["dim"]
          <5>1. BottomIn(stack)
            BY <4>1 DEF OrderInv, OrderIn
          <5>2. Top.read["dim"] = BrightnessDisabled \/ BlanksBeforeSleep(Top.read)
            BY <1>0, <2>1, <4>1, <5>1, DimIsOutermost
          <5>3. Top.read["dim"] = shown["dim"]
            BY <3>1, <3>2, <4>1, <5>2, StoresShown
          <5> QED BY <3>1, <4>1, <5>3
        <4> QED BY <2>1, <4>1 DEF Applied
      <3>9. \A k \in Sliders : k # Top.key /\ Fits(channel', k) => Fits(channel, k)
        BY <2>4 DEF Fits
      <3>10. AppliedIn(channel', shown', stack')
        <4>1. Fits(channel', "blank") => Applied(channel', shown', stack', "blank")
          BY <1>i, <1>k, <2>1, <2>4, <3>5, <3>9
        <4>2. Fits(channel', "off") => Applied(channel', shown', stack', "off")
          BY <1>i, <1>k, <2>1, <2>4, <3>6, <3>9
        <4>3. Fits(channel', "sleep") => Applied(channel', shown', stack', "sleep") \/ AtLast(channel', shown')
          BY <1>i, <1>k, <2>1, <2>4, <3>3, <3>4, <3>7, <3>9
        <4> QED BY <4>1, <4>2, <4>3 DEF AppliedIn
      <3>11. Orderly /\ world.lcd => Applied(channel', shown', stack', "dim")
        BY <1>i, <1>k, <2>1, <2>4, <3>8
      <3> QED BY <3>10, <3>11
    <2> QED BY <2>6, <2>7
  <1>7. CASE HandlerReturns
    <2>1. /\ stack # <<>> /\ Top.todo = <<>> /\ stack' = Tail(stack) /\ shown' = shown /\ channel' = channel
      BY <1>7 DEF HandlerReturns
    <2>2. \A k : Pending(stack, k) => Pending(stack', k)
      BY <1>0, <2>1, PendingReturns
    <2>3. ~OffMoved(stack)
      <3>1. Top = stack[1] /\ Len(Top.todo) = 0
        BY <1>0, <2>1, StackOf
      <3> QED BY <3>1 DEF OffMoved
    <2>4. \A k : Applied(channel, shown, stack, k) => Applied(channel', shown', stack', k)
      BY <2>1, <2>2 DEF Applied
    <2> QED BY <1>0, <1>i, <2>1, <2>3, <2>4 DEF AppliedIn
  <1>d. ASSUME NEW k \in Widgets, NEW v \in Chosen(k), dialog, stack = <<>>, v # shown[k],
               shown' = [shown EXCEPT ![k] = v], stack' = <<Frame(k, shown')>>,
               \A j \in Sliders \ {k} : channel'[j] = channel[j]
        PROVE  /\ AppliedIn(channel', shown', stack')
               /\ channel' = channel => (Orderly /\ world.lcd => Applied(channel', shown', stack', "dim"))
    <2> DEFINE F == Frame(k, shown')  q == <<F>>
    <2>1. shown'[k] = v /\ \A j \in Sliders \ {k} : shown'[j] = shown[j]
      BY <1>d, <1>k
    <2>2. k \in Sliders => InRange(shown')
      <3>1. v \in Values(k)
        BY DEF Chosen
      <3> QED BY <1>d, <1>r, <2>1, <3>1, SliderRange DEF InRange
    <2>3. Len(q) = 1 /\ q[1] = F /\ F.key = k
      BY DEF Frame
    <2>4. k \in Sliders => F \in SliderFrames /\ F.todo # <<>> /\ Len(F.todo) = FullTodo(k)
                           /\ \A j \in Sliders : F.read[j] = shown'[j]
      BY <2>2, SliderFrame
    <2>5. stack' = q
      BY <1>d
    <2> HIDE DEF F, q
    <2>6. k \in Sliders => Pending(stack', k)
      <3>1. 1 \in 1..Len(q)
        BY <2>3
      <3> QED BY <2>3, <2>4, <2>5, <3>1 DEF Pending
    <2>7. \A j \in Sliders \ {k} : Applied(channel, shown, stack, j) => Applied(channel', shown', stack', j)
      BY <1>d, <1>e, <2>1 DEF Applied
    <2>8. \A j \in Sliders : j = k => Applied(channel', shown', stack', j)
      BY <2>6 DEF Applied
    <2>9. AtLast(channel, shown) => AtLast(channel', shown') \/ OffMoved(stack') \/ k = "sleep"
      <3>1. SUFFICES ASSUME AtLast(channel, shown), k # "sleep", ~AtLast(channel', shown') PROVE OffMoved(stack')
        OBVIOUS
      <3>2. channel'["sleep"] = 60 /\ shown'["sleep"] = 59
        BY <1>d, <1>k, <2>1, <3>1 DEF AtLast
      <3>3. k = "off" /\ v # 60
        BY <1>d, <1>k, <2>1, <3>1, <3>2 DEF AtLast
      <3>4. Len(F.todo) = 2 /\ F.read["off"] = v /\ F.read["sleep"] = 59 /\ InRange(shown')
        BY <1>k, <2>1, <2>2, <2>4, <3>2, <3>3 DEF FullTodo
      <3>5. v < 60
        BY <2>1, <3>3, <3>4, RangeOf
      <3> QED BY <2>3, <2>5, <3>3, <3>4, <3>5 DEF OffMoved
    <2>10. \A j \in Sliders \ {k} : Fits(channel', j) => Fits(channel, j)
      BY <1>d DEF Fits
    <2>11. AppliedIn(channel', shown', stack')
      <3>1. Fits(channel', "blank") => Applied(channel', shown', stack', "blank")
        BY <1>d, <1>i, <1>k, <2>7, <2>8, <2>10
      <3>2. Fits(channel', "off") => Applied(channel', shown', stack', "off")
        BY <1>d, <1>i, <1>k, <2>7, <2>8, <2>10
      <3>3. Fits(channel', "sleep") =>
              Applied(channel', shown', stack', "sleep") \/ AtLast(channel', shown') \/ OffMoved(stack')
        BY <1>d, <1>e, <1>i, <1>k, <2>7, <2>8, <2>9, <2>10
      <3> QED BY <3>1, <3>2, <3>3 DEF AppliedIn
    <2>12. Orderly /\ world.lcd => Applied(channel', shown', stack', "dim")
      BY <1>d, <1>i, <1>k, <2>7, <2>8
    <2> QED BY <2>11, <2>12
  <1>8. ASSUME NEW k \in Widgets, Touches(k), NEW v \in Chosen(k), Sets(k, v) PROVE G
    <2>1. /\ dialog /\ stack = <<>> /\ v # shown[k] /\ shown' = [shown EXCEPT ![k] = v]
          /\ stack' = <<Frame(k, shown')>> /\ channel' = channel
      BY <1>8 DEF Touches, Sets, Idle
    <2> QED BY <1>d, <2>1
  <1>9. CASE BlankChanges
    <2>0. stack = <<>> /\ ~Orderly /\ dialog
      BY <1>9, <1>s DEF BlankChanges, Orderly
    <2>1. PICK v \in Drags \cap 0..60 :
                /\ Write("blank", v)
                /\ IF dialog /\ v # shown["blank"]
                   THEN /\ shown' = [shown EXCEPT !["blank"] = v]
                        /\ stack' = <<Frame("blank", shown')>>
                   ELSE UNCHANGED <<shown, stack>>
      BY <1>9 DEF BlankChanges
    <2>2. channel'["blank"] = v /\ \A j \in Sliders \ {"blank"} : channel'[j] = channel[j]
      <3>1. channel' = [channel EXCEPT !["blank"] = v]
        BY <2>1 DEF Write
      <3> QED BY <3>1 DEF Types, StoreTypes, Storable, Keys, Widgets, Sliders
    <2>3. CASE v # shown["blank"]
      <3>1. v \in Chosen("blank") /\ "blank" \in Widgets
        <4>1. Low("blank") = 0 /\ High("blank") = 60 /\ "blank" \in Sliders
          BY DEF Low, High, Sliders
        <4>2. v \in Low("blank")..High("blank") /\ v # -1
          BY <4>1
        <4> QED BY <4>1, <4>2, SliderRange DEF Chosen, Unset, Widgets
      <3>2. AppliedIn(channel', shown', stack')
        BY <1>d, <2>0, <2>1, <2>2, <2>3, <3>1
      <3> QED BY <2>0, <3>2
    <2>4. CASE v = shown["blank"]
      <3>1. shown' = shown /\ stack' = stack
        BY <2>1, <2>4
      <3>2. Applied(channel', shown', stack', "blank")
        BY <2>2, <2>4, <3>1 DEF Applied
      <3>3. \A j \in Sliders \ {"blank"} : /\ Fits(channel', j) => Fits(channel, j)
                                           /\ Applied(channel, shown, stack, j) => Applied(channel', shown', stack', j)
        BY <2>2, <3>1 DEF Applied, Fits
      <3>4. AtLast(channel, shown) => AtLast(channel', shown')
        BY <1>k, <2>2, <3>1 DEF AtLast
      <3> QED BY <1>i, <1>k, <2>0, <3>1, <3>2, <3>3, <3>4 DEF AppliedIn
    <2> QED BY <2>3, <2>4
  <1>10. ASSUME NEW k \in Widgets, Reset(k) PROVE G
    <2>1. channel' = [channel EXCEPT ![k] = Unset] /\ shown' = shown /\ stack' = stack /\ dialog' = dialog
      BY <1>10 DEF Reset, Write
    <2>2. ~Orderly
      BY <1>10 DEF Reset, Orderly
    <2>3. ASSUME NEW j \in Sliders PROVE channel'[j] = channel[j] \/ ~Fits(channel', j)
      <3>1. CASE j = k
        <4>1. channel'[j] = Unset
          BY <2>1, <3>1 DEF Types, StoreTypes, Storable, Keys
        <4>2. Low(j) \in Int /\ 0 <= Low(j) /\ High(j) \in Int
          BY SliderRange
        <4> QED BY <4>1, <4>2 DEF Fits, Unset
      <3>2. CASE j # k
        BY <2>1, <3>2 DEF Types, StoreTypes, Storable, Keys, Widgets
      <3> QED BY <3>1, <3>2
    <2> QED BY <1>a, <1>s, <2>1, <2>2, <2>3
  <1> QED BY <1>1, <1>2, <1>3, <1>4, <1>5, <1>6, <1>7, <1>8, <1>9, <1>10, UserSets DEF Next, HandlerStep

-----------------------------------------------------------------------------
(* The theorems. *)

\* The invariant: what the values are, what the daemon knows, how the handlers stand inside each
\* other, and what the sliders show of what is stored.
IInv == Types /\ DaemonInv /\ Nested /\ OrderInv /\ AppliedInv

LEMMA InitIInv == Init => IInv
  <1> SUFFICES ASSUME Init PROVE IInv
    OBVIOUS
  <1>1. Types
    BY InitTypes
  <1>2. /\ world \in Worlds /\ channel = world.stored /\ inbox = <<>> /\ conf = InitialConf /\ ~dialog
        /\ stack = <<>>
    BY DEF Init
  <1>3. DaemonInv
    <2>1. Told(channel, inbox) /\ Heard(channel, inbox, conf) /\ Defaulted(channel, inbox, conf)
      BY <1>1, <1>2, LoadTells DEF Types
    <2> QED BY <2>1 DEF DaemonInv
  <1>4. Nested /\ AppliedInv
    BY <1>2 DEF Nested, NestedIn, AppliedInv
  <1>5. OrderInv
    <2>1. SUFFICES ASSUME Orderly PROVE OrderIn(channel, shown, stack, dialog)
      BY DEF OrderInv
    <2>2. \A k \in Sliders : Fits(channel, k)
      BY <1>2, <2>1, SliderRange DEF Orderly, Fits
    <2>3. Ordered(channel)
      <3>1. InRange(channel)
        BY <2>2 DEF InRange, Fits
      <3>2. channel["sleep"] * 60 = 60 * channel["sleep"]
        BY <3>1, RangeOf
      <3> QED BY <1>2, <2>1, <3>2 DEF Orderly, InOrder, Ordered, SleepsBeforeOff, BlanksBeforeSleep, DimsBeforeSleep
    <2> QED BY <1>2, <2>2, <2>3 DEF OrderIn, BottomIn
  <1> QED BY <1>1, <1>3, <1>4, <1>5 DEF IInv

LEMMA StayIInv == IInv /\ UNCHANGED vars => IInv'
  <1> SUFFICES ASSUME IInv, UNCHANGED vars PROVE IInv'
    OBVIOUS
  <1> USE DEF storeVars, daemonVars, dialogVars, lockerVars
  <1>1. /\ world' = world /\ channel' = channel /\ session' = session /\ inbox' = inbox /\ conf' = conf
        /\ running' = running /\ dialog' = dialog /\ shown' = shown /\ stack' = stack /\ locker' = locker
        /\ lockerShown' = lockerShown
    BY DEF vars
  <1>2. Types'
    <2>1. StoreTypes' /\ InboxTypes' /\ LockerTypes'
      BY <1>1 DEF IInv, Types, StoreTypes, InboxTypes, LockerTypes
    <2>2. DaemonTypes'
      <3>1. \A k : Accepts(k)' = Accepts(k)
        BY DEF Accepts
      <3> QED BY <1>1, <3>1 DEF IInv, Types, DaemonTypes
    <2>3. DialogTypes'
      BY <1>1, WorldStays DEF IInv, Types, DialogTypes, StackTyped
    <2> QED BY <1>1, <2>1, <2>2, <2>3 DEF IInv, Types
  <1>3. DaemonInv'
    <2>1. CASE running
      BY <1>1, <2>1, DaemonPrimed DEF IInv, DaemonInv
    <2>2. CASE ~running
      BY <1>1, <2>2 DEF DaemonInv
    <2> QED BY <2>1, <2>2
  <1>4. Nested'
    BY <1>1, NestedPrimed DEF IInv, Nested
  <1>5. OrderInv'
    BY <1>1, OrderPrimed DEF IInv, OrderInv
  <1>6. AppliedInv'
    BY <1>1, AppliedPrimed DEF IInv, AppliedInv
  <1> QED BY <1>2, <1>3, <1>4, <1>5, <1>6 DEF IInv

LEMMA NextIInv == IInv /\ [Next]_vars => IInv'
  <1>1. ASSUME IInv, Next PROVE IInv'
    BY <1>1, TypesStep, DaemonStep, NestedStep, OrderStep, AppliedStep DEF IInv
  <1> QED BY <1>1, StayIInv

LEMMA Invariance == Spec => []IInv
  BY InitIInv, NextIInv, PTL DEF Spec

\* Whatever the user touches and whoever else writes the settings, every setting keeps to its
\* range in the channel, in the daemon and in the dialog, and the handlers of the sliders, which
\* call each other, never stand deeper than five inside each other.
THEOREM SettingsTypeOK == Spec => []TypeOK
  <1>1. IInv => TypeOK
    <2> SUFFICES ASSUME IInv PROVE TypeOK
      OBVIOUS
    <2>1. Len(stack) <= 5
      BY NestedDepth DEF IInv
    <2>2. inbox \in Seq([key : Keys \cup {"session"}, value : Nat \cup {Unset}])
      <3> DEFINE S == [key : Keys \cup {"session"}, value : Nat \cup {Unset}]
      <3>1. Notices \subseteq S /\ inbox \in Seq(Notices)
        BY DEF IInv, Types, InboxTypes, Notices
      <3> HIDE DEF S
      <3> QED BY <3>1, SeqMonotonic DEF S
    <2> QED BY <2>1, <2>2 DEF IInv, Types, StoreTypes, DaemonTypes, DialogTypes, LockerTypes, TypeOK
  <1> QED BY <1>1, Invariance, PTL

\* Once nothing is on its way, the daemon works with what the dialog shows of every slider.
THEOREM DialogIsApplied == Spec => []ShownIsApplied
  <1>1. IInv => ShownIsApplied
    <2> SUFFICES ASSUME IInv, AtRest, ~AtTheEnd, NEW k \in Sliders, channel[k] \in Choices(k),
                        k = "dim" => world.lcd /\ Orderly
                 PROVE  shown[k] = channel[k] /\ conf[k] = channel[k]
      BY DEF ShownIsApplied
    <2>1. dialog /\ stack = <<>> /\ inbox = <<>> /\ running
      BY DEF AtRest, Idle
    <2>2. Fits(channel, k)
      BY SliderRange DEF Fits
    <2>3. (\A j : ~Pending(stack, j)) /\ ~OffMoved(stack)
      BY <2>1 DEF Pending, OffMoved
    <2>4. ~AtLast(channel, shown)
      BY DEF AtTheEnd, AtLast
    <2>5. shown[k] = channel[k]
      BY <2>1, <2>2, <2>3, <2>4 DEF IInv, AppliedInv, AppliedIn, Applied, Sliders
    <2>6. conf[k] = channel[k]
      <3>1. k \in Keys /\ k # "brightness-switch"
        BY DEF Keys, Widgets, Sliders
      <3>2. channel[k] \in Accepts(k)
        <4>1. channel[k] \in Low(k)..High(k)
          BY <2>2 DEF Fits
        <4>2. k = "dim" => 9 <= channel[k] /\ channel[k] \in Nat
          BY <4>1 DEF Low, High
        <4>3. k # "dim" => channel[k] \in Int /\ 0 <= channel[k] /\ channel[k] <= 60
          BY <4>1 DEF Low, High, Sliders
        <4>4. CASE k = "dim"
          BY <4>2, <4>4 DEF Accepts, Buttons, Lids
        <4>5. CASE k \in {"sleep", "off"}
          <5>1. channel[k] \in 0..MaxUint16
            BY <4>3, <4>5, Limits
          <5>2. Accepts(k) = 0..MaxUint16
            BY <4>5 DEF Accepts, Buttons, Lids
          <5> QED BY <5>1, <5>2
        <4>6. CASE k = "blank"
          <5>1. channel[k] \in 0..MaxInt16
            BY <4>3, <4>6, Limits
          <5>2. Accepts(k) = 0..MaxInt16
            BY <4>6 DEF Accepts, BlankRange, Buttons, Lids
          <5> QED BY <5>1, <5>2
        <4> QED BY <4>4, <4>5, <4>6 DEF Sliders
      <3>3. Silent(inbox, k)
        BY <2>1 DEF Silent
      <3> QED BY <2>1, <3>1, <3>2, <3>3 DEF IInv, DaemonInv, Heard
    <2> QED BY <2>5, <2>6
  <1> QED BY <1>1, Invariance, PTL

\* Sliders that are stored in order are in order whenever no handler runs, however they were
\* dragged, except at the very end of the sliders.
THEOREM SlidersStayInOrder == Spec => []StaysInOrder
  <1>1. IInv => StaysInOrder
    <2> SUFFICES ASSUME IInv, Idle, ~AtTheEnd, world.lcd, Orderly PROVE InOrder(shown)
      BY DEF StaysInOrder
    <2>1. Ordered(shown)
      BY DEF IInv, OrderInv, OrderIn, Idle
    <2> QED BY <2>1 DEF Ordered, SleepsBeforeOff, BlanksBeforeSleep, DimsBeforeSleep, InOrder, AtTheEnd
  <1> QED BY <1>1, Invariance, PTL

\* When the dialog opens it shows what the daemon does, also of settings that were never made,
\* but for those of which the two have different defaults.
THEOREM OpensWithWhatApplies == Spec => ShowsWhatApplies
  <1>1. IInv /\ [Next]_vars =>
            [OpenDialog /\ inbox = <<>> /\ "reset" \notin world.others =>
                \A k \in Widgets :
                    /\ channel[k] \in Choices(k) \cup (IF k \in Diverging THEN {} ELSE {Unset})
                    /\ conf[k] \in Choices(k) /\ Usable(k)'
                    => shown'[k] = conf[k]]_vars
    <2> SUFFICES ASSUME IInv, OpenDialog, inbox = <<>>, "reset" \notin world.others, NEW k \in Widgets,
                        channel[k] \in Choices(k) \cup (IF k \in Diverging THEN {} ELSE {Unset}),
                        conf[k] \in Choices(k), Usable(k)'
                 PROVE  shown'[k] = conf[k]
      OBVIOUS
    <2> QED BY OpensTruthfully DEF IInv
  <1> QED BY <1>1, Invariance, PTL DEF Spec, ShowsWhatApplies

LEMMA InitLid == Init => LidInv
  BY DEF Init, LidInv, LidAlone, Decided, Notified, LockStored

LEMMA StayLid == LidInv /\ UNCHANGED vars => LidInv'
  BY DEF LidInv, LidAlone, Decided, Deciding, Notified, LockStored, vars, storeVars, daemonVars, dialogVars,
     lockerVars, HasLocker, LogindHandlesLid, Stored, Top

\* Where the user waits until his last choice has reached the daemon, logind is told to handle
\* the lid just when the screen is locked for sleep and a lid suspends.
THEOREM LidSwitchIsRight ==
    ASSUME UserWaits
    PROVE  Spec => []LidSwitchFollows
  <1>1. LidInv => LidSwitchFollows
    <2> SUFFICES ASSUME LidInv, Idle, LidAlone, channel["logind-lid"] # Unset
                 PROVE  (channel["logind-lid"] = 1) = LogindHandlesLid
      BY DEF LidSwitchFollows, LidAlone
    <2>1. channel["logind-lid"] = 1 <=> LogindHandlesLid
      BY DEF LidInv, Decided, Deciding, Idle
    <2> QED BY <2>1 DEF LogindHandlesLid
  <1>2. IInv /\ LidInv /\ [Next]_vars => LidInv'
    BY LidStep, StayLid DEF IInv
  <1> QED BY <1>1, <1>2, InitLid, Invariance, PTL DEF Spec

-----------------------------------------------------------------------------
(* The display: what the X server is told follows the settings that the      *)
(* dialog stores, if their minutes fit the server's seconds.                 *)

\* The longest time whose seconds a guint16 holds.
LastMinute == 1092

\* The times the user may set are ones that blpm-dpms.c:151 can tell to the server.
TimesFit ==
    \A s \in DpmsSettings :
        {s.sleepOnAc, s.offOnAc, s.sleepOnBattery, s.offOnBattery} \subseteq 0..LastMinute

\* The dialog's sliders offer such times only.
LEMMA SlidersFit == \A k \in {"sleep", "off"} : Choices(k) \subseteq 0..LastMinute
  <1> SUFFICES ASSUME NEW k \in {"sleep", "off"} PROVE Choices(k) \subseteq 0..LastMinute
    OBVIOUS
  <1>1. Choices(k) = Low(k)..High(k)
    BY SliderRange DEF Sliders
  <1>2. LastMinute \in Nat /\ 60 <= LastMinute
    BY DEF LastMinute
  <1>3. Low(k) = 0 /\ High(k) = 60
    BY LowHigh
  <1> HIDE DEF LastMinute
  <1>4. \A n \in Low(k)..High(k) : n \in 0..LastMinute
    BY <1>2, <1>3
  <1> QED BY <1>1, <1>4

\* What the settings and the power object's state are taken from.
DisplayTypes ==
    /\ dpms \in DpmsSettings
    /\ onAcBlank \in Nat /\ onBatteryBlank \in Nat
    /\ presentationMode \in BOOLEAN /\ onBattery \in BOOLEAN /\ source \in BOOLEAN

\* The DPMS object's copies agree with the power object, and the server was told what they say:
\* its timeouts are only set while DPMS is enabled.
DisplayTold ==
    /\ inhibited = presentationMode
    /\ dpmsOnBattery = onBattery
    /\ enabled = (dpms.enabled /\ ~presentationMode)
    /\ enabled => timeouts = Timeouts(dpms, onBattery)
    /\ presentationMode => blank = 0

DisplayIInv == DisplayTypes /\ DisplayTold

\* Minutes become seconds without a remainder being lost.
LEMMA SecondsFit == ASSUME NEW m \in 0..LastMinute PROVE Seconds(m) = 60 * m
  BY SMT DEF Seconds, LastMinute

\* The timeouts told to the server are the minutes of the settings.
LEMMA TimeoutsFit ==
    ASSUME TimesFit, NEW s \in DpmsSettings, NEW battery \in BOOLEAN
    PROVE  LET t == Timeouts(s, battery)
               sleep == IF battery THEN s.sleepOnBattery ELSE s.sleepOnAc
           IN  /\ t.off = 60 * (IF battery THEN s.offOnBattery ELSE s.offOnAc)
               /\ t.standby + t.suspend = 60 * sleep
               /\ (IF s.standby THEN t.suspend ELSE t.standby) = 0
  <1> DEFINE sleep == IF battery THEN s.sleepOnBattery ELSE s.sleepOnAc
             off == IF battery THEN s.offOnBattery ELSE s.offOnAc
  <1>1. sleep \in 0..LastMinute /\ off \in 0..LastMinute
    BY DEF TimesFit
  <1>2. Seconds(sleep) = 60 * sleep /\ Seconds(off) = 60 * off
    <2> HIDE DEF sleep, off
    <2> QED BY <1>1, SecondsFit
  <1>3. Timeouts(s, battery).off = Seconds(off)
    BY DEF Timeouts
  <1>4. /\ Timeouts(s, battery).standby = IF s.standby THEN Seconds(sleep) ELSE 0
        /\ Timeouts(s, battery).suspend = IF s.standby THEN 0 ELSE Seconds(sleep)
    BY DEF Timeouts
  <1> HIDE DEF sleep
  <1>5. sleep \in Nat
    BY <1>1 DEF LastMinute
  <1>6. Timeouts(s, battery).standby + Timeouts(s, battery).suspend = 60 * sleep
    BY <1>2, <1>4, <1>5
  <1>7. (IF s.standby THEN Timeouts(s, battery).suspend ELSE Timeouts(s, battery).standby) = 0
    BY <1>4
  <1> QED BY <1>2, <1>3, <1>6, <1>7 DEF sleep

LEMMA DisplayStarts == DisplayInit => DisplayIInv
  <1> SUFFICES ASSUME DisplayInit PROVE DisplayIInv
    OBVIOUS
  <1> USE DEF DisplayInit
  <1>1. dpms.enabled \in BOOLEAN
    BY DpmsAssumption
  <1>2. DisplayTypes
    BY BlankAssumption DEF DisplayTypes
  <1>3. DisplayTold
    BY <1>1 DEF DisplayTold
  <1> QED BY <1>2, <1>3 DEF DisplayIInv

\* A refresh of the DPMS object tells the server what the settings say.
LEMMA RefreshTells ==
    ASSUME NEW s, NEW inhibit, NEW battery, Refresh(s, inhibit, battery)
    PROVE  /\ enabled' = (s.enabled /\ ~inhibit)
           /\ enabled' => timeouts' = Timeouts(s, battery)
  BY DEF Refresh

LEMMA DisplayStep ==
    DisplayIInv /\ [DisplayNext]_displayVars => DisplayIInv'
  <1> SUFFICES ASSUME DisplayIInv, [DisplayNext]_displayVars PROVE DisplayIInv'
    OBVIOUS
  <1> USE DEF DisplayIInv, settingVars, serverVars
  <1>1. CASE DpmsSettingChanged
    <2>1. DisplayTypes'
      BY <1>1 DEF DpmsSettingChanged, DisplayTypes
    <2>2. Refresh(dpms', inhibited, dpmsOnBattery)
      BY <1>1 DEF DpmsSettingChanged
    <2>3. DisplayTold'
      BY <1>1, <2>2, RefreshTells DEF DpmsSettingChanged, DisplayTold
    <2> QED BY <2>1, <2>3
  <1>2. CASE BlankSettingChanged
    <2>1. DisplayTypes'
      BY <1>2, BlankAssumption DEF BlankSettingChanged, DisplayTypes
    <2>2. presentationMode => blank' = 0
      BY <1>2 DEF BlankSettingChanged, BlankTime
    <2>3. DisplayTold'
      BY <1>2, <2>2 DEF BlankSettingChanged, DisplayTold
    <2> QED BY <2>1, <2>3
  <1>3. CASE ChangePresentationMode
    <2>1. DisplayTypes'
      BY <1>3 DEF ChangePresentationMode, DisplayTypes
    <2>2. Refresh(dpms, presentationMode', dpmsOnBattery)
      BY <1>3 DEF ChangePresentationMode
    <2>3. presentationMode' => blank' = 0
      BY <1>3 DEF ChangePresentationMode, BlankTime
    <2>4. DisplayTold'
      BY <1>3, <2>2, <2>3, RefreshTells DEF ChangePresentationMode, DisplayTold
    <2> QED BY <2>1, <2>4
  <1>4. CASE CheckPower
    <2>1. DisplayTypes'
      BY <1>4 DEF CheckPower, DisplayTypes
    <2>2. Refresh(dpms, inhibited, source)
      BY <1>4 DEF CheckPower
    <2>3. presentationMode => blank' = 0
      BY <1>4 DEF CheckPower, BlankTime, DisplayTold
    <2>4. DisplayTold'
      BY <1>4, <2>2, <2>3, RefreshTells DEF CheckPower, DisplayTold
    <2> QED BY <2>1, <2>4
  <1>5. CASE SourceChanges
    BY <1>5 DEF SourceChanges, DisplayTypes, DisplayTold
  <1>6. CASE DevicesChange
    BY <1>6 DEF DevicesChange, DisplayTypes, DisplayTold
  <1>7. CASE UNCHANGED displayVars
    BY <1>7 DEF displayVars, DisplayTypes, DisplayTold
  <1> QED BY <1>1, <1>2, <1>3, <1>4, <1>5, <1>6, <1>7 DEF DisplayNext

LEMMA DisplayFollows == ASSUME TimesFit PROVE DisplayIInv => DisplayFollowsSettings
  <1> SUFFICES ASSUME DisplayIInv PROVE DisplayFollowsSettings
    OBVIOUS
  <1>1. presentationMode => ~enabled /\ blank = 0
    BY DEF DisplayIInv, DisplayTypes, DisplayTold
  <1>2. Handled => enabled = (dpms.enabled /\ ~presentationMode)
    BY DEF DisplayIInv, DisplayTold
  <1>3. ASSUME Handled, enabled
        PROVE  /\ timeouts.off = 60 * (IF source THEN dpms.offOnBattery ELSE dpms.offOnAc)
               /\ timeouts.standby + timeouts.suspend =
                    60 * (IF source THEN dpms.sleepOnBattery ELSE dpms.sleepOnAc)
               /\ (IF dpms.standby THEN timeouts.suspend ELSE timeouts.standby) = 0
    <2>1. timeouts = Timeouts(dpms, source)
      BY <1>3 DEF DisplayIInv, DisplayTold, Handled
    <2>2. dpms \in DpmsSettings /\ source \in BOOLEAN
      BY DEF DisplayIInv, DisplayTypes
    <2> QED BY <2>1, <2>2, TimeoutsFit
  <1> QED BY <1>1, <1>2, <1>3 DEF DisplayFollowsSettings

\* In every order of settings, presentations, plugs and devices the X server has the DPMS
\* timeouts set for the present source, and a presentation is neither switched off nor blanked
\* (blpm_dpms_refresh, blpm_power_change_presentation_mode), if the times fit 16 bits.
THEOREM DisplayAlwaysFollows ==
    ASSUME TimesFit
    PROVE  DisplaySpec => []DisplayFollowsSettings
  <1>1. DisplayIInv => DisplayFollowsSettings
    BY DisplayFollows
  <1> QED BY <1>1, DisplayStarts, DisplayStep, PTL DEF DisplaySpec
=============================================================================
