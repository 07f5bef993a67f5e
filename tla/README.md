# A specification of blade-pm

blade-pm is a power manager for a desktop session: a daemon that watches UPower's
batteries, the lid, the sleep keys and the user's idle time, and puts the machine to
sleep, dims or blanks the screen or asks the user, as the settings say; with it come a
settings dialog and a panel plugin. These modules specify their decisions as TLA+ state
machines, check them with TLC on small instances, and prove their safety properties
for every instance with TLAPS.

The daemon has one thread and one main loop, so each signal handler runs to its end,
with two exceptions on which most of this development turns: a dialog
(`gtk_dialog_run`) is a main loop inside a handler, and everything outside the daemon
(UPower, the X server, the bus, polkit, other processes, the user) goes on while a handler
runs, above all while it waits for the answer of a blocking call.

## Inventory

| Part | Source | State it keeps | Operations and handlers | Modelled in |
|---|---|---|---|---|
| Inhibit service | `src/blpm-inhibit.c`, `libdbus/blpm-dbus-monitor.c` | list of inhibitors (cookie, connection), flag `inhibited`, watched names | Inhibit, UnInhibit, NameOwnerChanged | `Inhibit` |
| Batteries and power state | `src/blpm-battery.c`, `src/blpm-power.c` | per device percentage and charge class; overall state, source, dialog, low-battery flag | UPower's device and daemon signals, critical action, its dialog | `Power`; the dialog's offers in `Logins` |
| Idle alarms | `src/egg-idletime.c` | timeouts, reset alarm, last counter value | XSync events, alarm set and removed, reset | `Idle` |
| Backlight | `src/blpm-backlight.c` | `dimmed`, `block`, `last_level`; brightness switch and its saved value | alarm, reset, keys, source change; start and finalize | `Idle`, `Brightness`, `Instances` |
| Manager | `src/blpm-manager.c` | copies of `inhibited`, source and presentation mode, timer of the last key, logind descriptor | key, lid and alarm handlers, changed settings, quit, restart | `Sleep`, `Idle`, `Logins`, `Instances` |
| Going to sleep | `src/blpm-power.c`, `src/blpm-network-manager.c` | lid, source; locals of `blpm_power_sleep` kept across its dialogs | sleep, property changes, D-Bus Suspend and Hibernate | `Sleep` |
| Display power | `src/blpm-dpms.c`, `src/blpm-power.c` | inhibited, source; the X server's DPMS and blanking timeouts | setting, source and presentation changes | `Display`; the panel behind a lid in `Sleep` |
| Start-up and bus names | `src/blpm-main.c`, `libdbus/blpm-dbus.c` | the two bus names | launch, restart, quit | `Instances` |
| Brightness back-ends | `common/blpm-brightness.c`, `src/blpm-backlight-helper.c` | the output or kernel interface used, its range, the step | set up, up, down, set, get; the helper's exit codes | `Brightness` |
| Keyboard backlight | `src/blpm-kbd-backlight.c` | level, maximum, step | up, down | `Brightness` |
| Panel plugin | `bar-plugins/power-manager-plugin/` | the menu's slider, its 50 ms timer, the minimum level | drag, wheel, open, close | `Brightness` |
| Login managers | `src/blpm-systemd.c`, `blpm-console-kit.c`, `blpm-suspend.c`, `blpm-manager.c` | what can be done; logind's lock on keys and lid | sleep, shutdown, reboot; inhibit, close | `Logins` |
| Polkit | `src/blpm-polkit.c` | cached subject, its timer | question, timeout, changed rules | `Logins` |
| Buttons | `src/blpm-button.c` | keycode map | X key events | `Logins` |
| Configuration | `src/blpm-blconf.c` | all settings | load, set with range check, notify, the session's lock setting | `Settings` |
| Settings dialog | `settings/blpm-settings.c`, `blpm-settings-main.c` | the widgets | slider handlers that move each other, combos, toggles, light-locker | `Settings` |
| Notifications | `src/blpm-notify.c` | the last and the critical notification | show, close | no |
| Device names, icons, debugging | `common/blpm-power-common.c`, `blpm-debug.c` | none | formatting | no |

How they interact: the manager, the backlight, DPMS and the power object are objects of
one process and call each other by GObject signals, synchronously (`lid-changed`,
`on-battery-changed`, `has-inhibit-changed`, `waking-up` ...). So a listener may run a
dialog's main loop inside the emitter. UPower's, the X server's and the bus's messages
arrive in order and are handled late. Configuration changes come as notifications
of properties. Between processes the shared state is the table of bus names, the configuration
channel, the screen's brightness and the kernel's brightness switch.

What is hard here, with the properties it leads to:

- *Handlers interrupted by their own dialogs.* Values read before a dialog are used after
  it: the brightness, the source, whether the sleep is inhibited, that the battery is
  critical, that the network is asleep (`Sleep`, `Power`). A slider moved by a handler
  runs its own handler inside it (`Settings`).
- *Late events.* An alarm is handled when the user is back; a lid signal when the source
  has changed (`Idle`, `Sleep`).
- *Copies of one fact in several objects*, told by signals that are only sent on a change
  (`Inhibit`, `Sleep`, `Display`), or in several processes (`Settings`).
- *Answers that age.* Polkit's rules, logind's lock and what may be done are asked in several
  calls and used much later (`Logins`).
- *Read, add a step, set*, by two processes and a timer (`Brightness`).
- *Clients that leave* at any point of their calls (`Inhibit`).
- *Two daemons at once*, as a restart spawns the new one before the old one finished, and
  *crashes* between storing and restoring a kernel parameter (`Instances`).

## The modules

Each module starts with a comment that says what it stands for. Names are the
source's where TLA+ allows it. Definitions whose comment starts with `Mutant:` are
deliberately wrong variants of the definition below them: each property was checked to
fail when the variant takes its place, so none holds whatever the code does. No
specification uses them. Module `MCx` instantiates `x` for TLC, `xProofs` holds its theorems (those of `Display` are in `SettingsProofs`).

In most modules one variable (`machine` or `world`) is chosen
at the start and never changes. It says what may happen around the daemon: whether mains
power is switched, whether locking the screen may fail, whether a daemon may crash, which
keys the user touches. One run so covers several worlds, and a property that needs a condition
names it: "if no lock fails, then ...". The code provides none of these conditions. What happens
without each is said below, module by module, under "What else happens"; for three of them, where
the program's own words promise more, a run shows the violation.

### Inhibit and InhibitContract

`InhibitContract` is what the service promises: a set of clients that want an inhibition
(`wanting`) and a set of those that have one (`holders`); no wanted one is dropped unless it is
`forgotten`, and every unwanted one ends (`WF` on its end only). `Inhibit` is the implementation:
calls and `NameOwnerChanged` signals are in one
inbox, as the bus delivers them to one connection in order; `Dispatch` takes the
first and does what the handler does, including the monitor's watch list and the two copies
of the flag. A cookie is `max + 1 .. max + CookieSpread` (39 in the code,
`blpm-inhibit.c:121`). `Restart` empties the daemon's side; the clients notice nothing and go on
using their cookies.

- `inhibit_worlds`: a client with two cookies and a well-known name beside two plain ones
  (`Plain`: one cookie, no name). The flag and its copies agree with the list. While nothing was
  forgotten (no well-known name given up, no restart), a held cookie names an inhibitor of its
  holder and prevents the idle sleep. For the plain clients the service implements the contract,
  also across a restart and whatever the third client does.
- `inhibit_name_dropped`: the monitor is told that a well-known name changed hands, takes the
  previous owner for a client that left, and drops its inhibitor: the machine sleeps
  although the client holds a cookie, which the manual page says prevents it. This is the
  condition's reason; the other half, a restart, forgets all inhibitors by design.

What else happens: a client with two cookies that
releases one loses its only watch, so the other inhibitor outlives the client
(`blpm-inhibit.c:175`); a client that lost its inhibitor with a dropped name, or
by a restart, can release its stale cookie when another client has been given the same number
(`blpm-inhibit.c:353`, the sender is not compared), which ends that client's inhibition: the
contract counts it among the forgotten.

### Power

UPower's side is `acPlugged`, `present` and `percentage`; the daemon's is what it was last
told. A signal is a step that catches up, as UPower's client objects hold the newest
value only. `ChargeOf` compares the percentage with the critical level the way
`blpm_battery_check_charge` does. A question about a failed lock (`asking`) leaves the
handler of a critical battery waiting while the others run. `MaxChances` bounds how often a
device may charge or arrive or the level change.

`power_critical` has three machines: a battery and a mouse, two batteries, both with everything plugged,
unplugged and changed at any time; and one with two batteries where nothing else happens. The critical
action is only taken on battery with every supply critical, once per stretch of critical
power; the low-battery flag is only raised for a critical
battery; and on the third machine a critical battery is dealt with. `OneActionPerEpisode` is
about machines with batteries only and a fixed level: each battery learns of a new level at a time
of its own, and a mouse counts as a supply as long as its "ac-online" is true
(`blpm-power.c:570` takes whether the machine is on mains for whether the device supplies power), so
both may split a stretch into two. `LowBatteryOnlyWhenCritical` is an action property, because
the plain invariant is false: the handler interrupted by its question raises the
flag when it is answered, with the battery long recovered. It says that this is the only way.

`power_unplugged` is the third machine with a plug: batteries that become critical on mains
and are then unplugged are never dealt with, as a change of the source leads to no
new look at the charge.

What else happens: a mouse that is added is taken for a supply until the source changes, so while the daemon knows
no battery (one is being exchanged, on a machine that runs on another) a low mouse alone brings the critical
action: `ActionJustified` speaks of the batteries and UPSs that are known. The comment at `blpm-battery.c:330` promises a signal for worsening
only, while the condition at line 333 compares the new class with itself and is always true.

### Idle

The X server's idle counter, the alarm events it sent, and the daemon that handles them in
order. An alarm triggers whenever the counter reaches its timeout; the reset alarm
is armed at the first alarm, just below the counter value of that event. An event of an alarm that
was destroyed before it was handled stays in the queue (`stale`) and is dropped when its turn comes
(`EventIgnored`). The backlight dims and undims; the manager asks for sleep. Presentation mode holds off both,
an inhibition only the sleep. A change of the source and the end of presentation mode (`ChangePresentationMode`) set all
alarms anew, destroy the reset alarm and undim, like the return of the user (`ResetAll`). While the machine
sleeps (`asleep`) its handler does
not return. `world.prompt` restricts the user's and the world's steps to a daemon that has
caught up; otherwise events are handled arbitrarily late.

`idle_worlds` has four worlds: a daemon that keeps up, one that does so while mains power and presentation mode are
switched also with the user away, on a machine that never sleeps on idle, one that is late, and a user whom nothing disturbs.
In all of them a dimmed screen has an armed reset alarm. With a
daemon that keeps up (`KeepsUp`: prompt, the source stays as it is while the machine sleeps, writing the
brightness does not fail) the user's brightness comes back, an active user's screen is not
left dim, and an idle alarm brings sleep only while the user is away. Undisturbed
(`Undisturbed`: the source is never switched, no presentation, nothing inhibits) a user who is away for good finds the
machine asleep. That is the liveness property; its fairness is weak fairness of each handler of the daemon
and of waking up: the main loop dispatches what is pending, and a suspended machine is
woken one day. Nothing is assumed of the user.

Where the machine sleeps on idle, a daemon that keeps up sees the source and presentation mode switched only in front of the user
(what happens otherwise is the second item below), and the screen is dimmed earlier than the machine sleeps, as the ranges of the
dialog have it. Without idle sleeps both are switched at any time, so leaving presentation mode finds a dimmed screen and
has to undim it.

What else happens without the conditions:

- when the source changes during a sleep, the level read before the sleep, dimmed, is written back
  after the alarms' reset has restored the user's level (`blpm-power.c:515`);
- after mains power was switched, or presentation mode left, while the user is away, `reset_set` is cleared, and the alarm of the
  idle sleep arms the reset alarm only after the wake-up, just below the counter value of before the sleep
  (`egg-idletime.c:207-217`, whose comment has it fire "the next time idle_counter < the current counter
  value"): the counter is below it already, the alarm does not fire, and the next dimming stays in
  front of the active user; the same follows a sleep across a change of the source (line 269);
- a dim alarm handled after the user has come back leaves the screen dim, and the next one
  stores the dimmed level as the one to restore (`blpm-backlight.c:116`);
- with equal timeouts for both sources, an idle sleep across a change of the source is followed by a
  second one in front of the active user (`blpm-manager.c:516`);
- an alarm that expires while sleep is inhibited is dropped and not set again, so the machine stays
  awake when the inhibition ends (`blpm-manager.c:497`).

### Sleep

`stack` is the call stack: a frame per `blpm_power_sleep`, per
`blpm_power_get_properties` and per error dialog that has not returned. A step runs the
innermost call up to its next dialog, its next blocking call that the outside can
interfere with, or its return. New handlers start while the innermost call is a
dialog or the stack is empty, and only on fewer than `MaxFrames` frames (the bound). Dialogs are
answered innermost first, which is how nested main loops return. Blocking D-Bus calls
dispatch no signals, so the properties read after waking are the ones the UPower client
had before: the comment at `blpm-power.c:512` expects more of it, but the news come with the
next signal, and the model handles them then. The settings may change while any main loop runs.

`sleep_worlds` has four worlds: locks that work (`LockWorks`), where UPower reports lid and source
in one signal or in two; locks that fail for a user who goes on
(`GoesOn`), and for one who may not. In all of them a handler does not sleep the machine again and
again (`ReentryBounded`: checking the lid after a sleep that the lid asked for finds
nothing new), and opening the lid has the panel on.
A user who goes on gets the network back. With locks that work, the daemon's view of lid and source is
UPower's, and the machine sleeps with consent.

What else happens without the conditions:

- the lock fails, the user does not go on and no sleep happens, but the Network Manager, told to
  sleep before, is not woken (`blpm-power.c:447`);
- a sleep from within another one's lock question wakes the network, after which the outer one
  suspends with it up (`blpm-power.c:520`);
- the source changes while a lid's sleep asks about the lock, and line 345 of `blpm-power.c` goes back
  to the value read before;
- a brightness set while the question is open is lost, and an application that inhibits meanwhile is not asked
  about;
- a lid closed and a plug pulled in one report get the action of the old source (`blpm-manager.c:430`);
- a lid that closed before the user handed it to logind leaves its panel off: `PanelOnWhenOpen` is about
  users who do not.

### Display

The DPMS settings, presentation mode, source, devices and the values last told to the X
server. `display_follows` shows that the server's DPMS timeouts follow all changes in any order, and
that a presentation keeps the screen on, neither switched off nor blanked. Of the blanking time outside presentations nothing is
stated, because it does not always follow the source: `blpm_update_blank_time` is called inside the loop over
the devices (`blpm-power.c:270`), so when the last battery leaves, the blanking time of the old source
stays. `Seconds` is what 16 bits keep of the seconds (`blpm-dpms.c:151`): 1092 minutes fit and are in
the run; a longer time, which the setting's range admits and the dialog does not offer, wraps.

### Instances

Processes that run blade-pm, a step for each blocking call on the bus, on the
configuration and on the helper that sets the kernel's brightness switch. Names are granted by
the bus (`Nobody`, a process, or `Foreign`). A restart releases the names, spawns a process,
and only then finalizes the backlight.

`instances_worlds` has a world of restarts only, one of crashes in which a new daemon sets
up after the old one has finished (`overlap` is false), and one with everything at once. In
all of them at most one daemon serves, with both names. Without overlap the original value of the
switch survives crashes at any point. In the first a
restart ends with a running daemon: the liveness property, under weak fairness of each process's own steps (a process
that waits for nothing runs on). `instances_lost` shows what overlap, which nothing in the code prevents,
costs: the new daemon reads the switch its predecessor set, the predecessor clears the stored original,
and the new one stores the other value as the original.

What else happens: the predecessor may restore the switch after the new daemon has set it; a daemon
that is refused a name calls `gtk_main_quit` before `gtk_main` (`blpm-manager.c:298`, `blpm-main.c:227`)
and stays as a process that neither serves nor ends (`zombie`); one that is refused the second name keeps the first
(`blpm-manager.c:292`), so no later start succeeds. With three processes a start between the two releases of
a restart can become such a process, and the restart serves nobody: `RestartServes` is checked with
two. The helper's calls and the configuration's writes succeed in this model, and a value
could be read from the kernel.

### Brightness

The screen's brightness, as the daemon (keys) and the panel plugin (slider and wheel) change it.
`Setup` is what `blpm_brightness_setup` finds: an output of the X server with a range, or the kernel
interface that comes first in the helper's list, or nothing; `HelperExit` is the helper's exit code,
by which its callers go. A change is three steps of its process, `Read`, `Set` and `ReadBack`, as each is a
blocking call and the other process may act between them; the panel's slider is clamped to the minimum
level, moves its timer, and is set when the timer fires. The keyboard's light has the same two keys
and a step of its own.

`brightness_worlds` has machines whose user holds one key (`KeysReachTheEnd`: the step is never zero
and does not miss the ends; weak fairness of the steps of a change under way, and of the key
that is held), the panel alone (`SliderIsApplied`: whatever wheel, slider and minimum level do, a
moved slider is on the screen or about to be), and both processes at once, with a helper that may or may
not become root. Everywhere the level stays in the hardware's range (`TypeOK`).

What else happens: the slider's range may begin below the hardware's minimum; and the panel
can go below its own safe minimum, which the comment at `power-manager-button.c:85` says is
there for screens that turn black: the wheel's guards (lines 656 and 1160) compare the level before the step,
and a timer that fires within 50 ms after the menu was closed reads the slider when it is gone
(line 1196), and sets level 0. The guard that the wheel over the icon evaluates twice is evaluated once; reading
does not fail once set-up found hardware.

### Settings

The configuration channel, the daemon's copy of it, and the dialog. A handler of the dialog is a frame on `stack` with
the values it read at its start and the steps that are left; a step that moves another slider (`Move`) pushes that
slider's handler, and the daemon's notifications and other programs act between steps.
`DefaultOnAc`, `DefaultOnBattery` and `Low`, `High`, `Choices` are the dialog's defaults and
what its widgets offer; `Accepts` and `Default` the daemon's ranges and defaults. The lock setting
is also the session manager's, and with light-locker the dialog derives from three settings whether logind
handles the lid. A reset of a setting is ignored by the daemon (the FIXME of its handler).

`settings_worlds` shows that, once all handlers and notifications are done, what the dialog shows is what the daemon does
(`ShownIsApplied`), that sliders which are in order stay in order (`StaysInOrder`: the screen blanks before it sleeps,
sleeps before it is off, dims before it sleeps), that a dialog opens with what the daemon does
(`ShowsWhatApplies`), and that logind's setting for the lid follows the choices (`LidSwitchFollows`).
The first two except the very end of the sliders: at 60 minutes the handlers inside a handler move the outer
slider once more, and the outer handler stores the value it read first (59 shown, 60 stored). That may be the model's own: here
every moved slider runs its handler at once, inside the one that runs, while GTK starts the emission for a slider that moves
during its own handler over when that handler is done. The nesting admits more than GTK does, and the exceptions
made for it claim less. The order, and what is said of
the slider for dimming, are about sliders that are stored in order and that no other program writes
(`Orderly`): from values in each other's way, blank 60, sleep 2, off 59 and dim 119, a drag of dim to 120 comes back to the
slider for dimming inside its own handler, which then stores what it read at its start. `Crossed` is such a world, where the other
sliders are checked to agree. `LidSwitchFollows` is about a user who waits for the daemon (`MaxInbox` is 1): when the lock is toggled
twice before the daemon has handled the session's first notification, the daemon writes the first value
over the second in the channel (`blpm-blconf.c:227`), and logind keeps what was right for the second. `ShowsWhatApplies`
excepts the settings of `Diverging`, which the user never touched and of which dialog and
daemon have different defaults: the critical level (10 and 5) and, on battery, the blanking time (1 and 10). For the tray icon
and the blanking time the daemon's value is the one of the objects that act on it: the construct properties of the manager
(`TrayRange`, `TrayDefault`, `blpm-manager.c:146`) and of the power object (`BlankRange`, `BlankDefault`, `blpm-power.c:1153`).

What else happens: a slider set to "Never" (0) drags the others to 0; without light-locker toggling the
lock leaves logind's lid setting as it was; the combos for the sleep modes offer what is possible, not what is authorised;
sliders other than the blanking time do not follow other programs while the dialog is open;
and the daemon takes over the session's lock setting and then overwrites it with its own
channel's (`blpm-blconf.c:624`).

### Logins

What the daemon may do, and who handles a key or the lid. A handler is the list of blocking calls it has
still to make (`todo`); messages about changed rules, settings and hardware wait in `inbox`.
Polkit's side is `allowed`; the daemon's is what it asked the login manager (`granted`) and UPower or the
kernel (`can`) at its start, and polkit for each of the two sleeps (`auth`). logind's side is the locks
with their descriptors; `fd` is the manager's number. A hardware event goes to logind unless a lock blocks it, and
to the daemon by the X server (the keycodes grabbed, with `KeyMap`'s one slot per button) or UPower.

`logins_worlds` shows that at rest the lid has one handler, and a key that the settings leave to the
daemon the daemon alone (`HandledOnce`), however often the lock was closed and taken again; that the
daemon ends up with polkit's rules although it asks two questions and the rules change in between
(`AuthFollowsRules`); that the assertion of the timer that frees polkit's subject holds and no subject stays without a timer
(`TimerFindsSubject`); and that a warning of a critical battery, when it is shown, offers and D-Bus's Suspend and Hibernate
start no sleep that, by all the daemon has heard, is forbidden, that logind did not grant at the start, or
that without logind the machine is not capable of (`OffersAreAllowed`).

What else happens:

- a key left to logind is acted on by both: only the lid's handler looks at the setting;
- between the close of the lock and the next one (`blpm-manager.c:703`) logind handles what comes,
  although the comment at line 864 says "Don't allow systemd to handle power/suspend/hibernate buttons and lid-switch";
- if logind is away when a setting changes, the lock is not asked for again until the next change; without a
  system bus descriptor 0 is closed at every change;
- what logind and UPower answered at start is never asked again; CanReboot is read from a property,
  "can-reboot", that does not exist;
- the daemon looks at its permissions for these two only: the keys, the lid and the idle alarm (`blpm-manager.c:333-355`), the critical
  action (`blpm-power.c:772-783`), and the buttons of a warning, which stay and act by force
  (`blpm-power.c:525-539`, `582-588`), start a sleep without a look at what is possible or allowed, and leave the refusal to whoever carries it out;
- the Hibernate keysym's keycode is overwritten by Suspend's in the map: the key stays grabbed and does
  nothing.

The hardware produces one event at a time, one rule set stands for all back-ends' action names, polkit support is compiled
in, UPower is 0.99 or newer and there is a system bus.

## Runs

| Run | Bounds | Result |
|---|---|---|
| `inhibit_worlds` | 3 clients (one with 2 cookies and a name, two plain), cookies to 4, spread 1, inbox of 2, 1 sleep, 1 restart, 1 dropped name | passes |
| `inhibit_name_dropped` | 2 clients, 1 cookie each, cookies to 6, inbox of 2, no restart | `HeldPreventsSleep` fails |
| `power_critical` | 2 devices, percentages 5, 15, 16, levels 5 and 15, 2 chances, 3 machines | passes |
| `power_unplugged` | the same, 1 machine | `CriticalIsHandled` fails |
| `idle_worlds` | counter to 3, 3 events, levels 0 to 2, 4 worlds | passes |
| `sleep_worlds` | 2 settings and 2 levels, handlers on fewer than 2 frames, 4 worlds | passes |
| `display_follows` | 3 DPMS settings, 3 blanking times | passes |
| `instances_worlds` | 2 processes, 1 other manager, 3 worlds | passes |
| `instances_lost` | 2 processes | `OriginalKept` fails |
| `brightness_worlds` | outputs with 5 to 106 levels, kernel interfaces, keyboards with maxima 3 to 39; minimum to 3; slider dragged to 8 values | passes |
| `settings_worlds` | sliders dragged to 0, 1, 9, 59, 60, 120; 1 notification on its way when the user acts; the widgets of one page each | passes |
| `logins_worlds` | 3 login managers, 2 odd keymaps, 3 rule sets, 3 changes, inbox of 3 | passes |

Why the bounds are enough: the handlers compare values with each other and with a few
thresholds, so two or three levels, and percentages on both sides of each threshold, reach
each branch; two batteries are enough for "some" and "all"; two events in an inbox for each
order; two nested handlers for each value that one changes under the other (`sleep_worlds` also
passes with three); two processes
for a restart; brightness ranges on both sides of the 20 levels at which the step changes, and ones it does
not divide; slider values at both ends and next to them. The safety invariants of all modules are proved
for any bound besides, see below. Deadlock is not checked where the world is bounded and may come to a
rest (`Inhibit`, `Power`, `Idle`, `Brightness`, `Settings`, `Logins`: all clients leave, all chances are used,
all events are handled, nobody touches anything); in the other modules it is.

## What is proved

Each proof is for every value of the constants: any clients, devices, processes, machines, rules, bounds and
worlds. The assumptions are the named `ASSUME`s of the module, which only give the constants their
types, and three that single theorems make: `TimesFit` on the display's times, `UserWaits` on the lid switch
and `WorldsFit` on the idle timeouts, all described below.

`InhibitProofs`: `TypeOK`, `CopiesAgree`, `CookiesUnique` and `WatchesHold` are
invariants. Their conjunction is inductive: cookies are unique as a new one exceeds every
live one (`FreshCookie`), and a watch is only added together with an inhibitor and goes with
the first one that goes. A second inductive invariant, `Delivered`, speaks of the inbox: the client of a release on its way
has given the cookie up, its inhibitor is still listed and no loss of that client is ahead of it (`Released`); no cookie is
released twice (`ReleasedOnce`); only clients that have left are reported lost (`Left`). As long as no name was given up and the
daemon was not restarted, the entries that go are therefore nobody's that is connected: `HeldCookiesLive`, and
`NoIdleSleepWhileHeld` with it. `ImplementsSafety` takes each action to a step of `InhibitContract` or to a stutter.

`PowerProofs`: `TypeOK` (inductive); the critical dialog is only open in a critical state
(`DialogOnlyWhenCritical`) and the low-battery flag goes stale only through a question (each update of the state ends
with the dialog and the flag brought in line); the critical action is only taken on battery and
with every known supply critical (from the maximum of the charge classes); and
`SteadyIsHandled`. The inductive invariant of the last, `NothingMissed`, says of a steady machine that
all devices are known, that the overall state is critical when all charges are, and that a
critical state on battery has raised the flag. `OneActionPerEpisode`
is an argument about credit, `PaidFor`: the batteries whose charge the daemon has yet to find (`Surprises`) each cost
a chance, a critical stretch only ends when one of them is found, and so the actions and the surprises together
exceed the chances at most by the action of a stretch under way.

`IdleProofs`: `TypeOK`, `DimmedHasReset` and `SleepsWhenIdle`. The types need `Counted`: an alarm's event
carries at least 1, so that "just below it" is a counter value. `DimmedHasReset` is inductive with the types: the
reset alarm is disarmed only by its own expiry, which undims, and a dim alarm is handled after
its event has armed it. `SleepsWhenIdle` needs the queue: while there is something to handle, the daemon
knows the source (`SourceKnown`), and the sleep alarm of that source is queued at most once, with the user away
for its time and the machine awake (`InTime`). Without the first, the alarm of the other source would be
taken for the present one's; without "once", the second of two equal events would be handled after the wake-up.
`ActiveIsBright` and `BrightnessRestored` assume `WorldsFit`: in the worlds of a daemon that keeps up, mains power and
presentation mode are not switched with the user away unless the machine never sleeps on idle, and every screen dims before the
machine sleeps; what happens otherwise is listed under "Idle". Their invariant `Fits` relates the alarms, the queue and the backlight. `Way`: a set reset alarm is below
the counter or has its event in the queue (`ResetComes`), where no alarm is behind it (`InOrder`); a dim alarm
that was reached has set it or is queued (`DimsSeen`), at a counter value that was passed (`Passed`); and what the sleep
leaves in the queue neither dims nor sets a reset (`Sleeper`). With the user there and the queue empty no reset is then
set, so nothing is dimmed. `DimOnce`: a dimmed screen has no second dim alarm coming, which would store the dimmed level.
`Pressed`: a key that spoke for itself is not followed by an alarm that would clear `block` while the screen
is dimmed. `Remembered`: the three places where the user's level is kept.

`SleepProofs`: all of `Sleep`'s properties, for stacks of any depth. The inductive invariant says of the
whole stack what a single call cannot know. `LidRead`: a lid is checked at once after it was read, so only the
innermost call can be such a check, and the lid stored otherwise is UPower's. `Heights`: a call that is not a
check lies at most `MaxFrames` deep from where it began, and one that finds a changed lid was started by the
main loop, which bounds the reentry. `Sources`: while locks work no question is asked inside a check, so a check
stores the source UPower told last. `Networks`: a sleeping network has a call on the stack that will wake it.
`Consents`: no call but the innermost is past its question. `Panels`: an open lid has its panel on, also inside handlers.

`SettingsProofs`: all of `Settings`' properties and, as it is about what the dialog's settings come to, `Display`'s. The
handlers of the sliders store what they read at their start, long after they have moved other sliders, whose
handlers moved others again. The inductive invariant, `IInv`, has five parts.
`Types`: every frame is a handler of a widget, with values of its widgets and a tail of its steps; when a
second one runs, all are handlers of sliders.
`DaemonInv`: of each key the last notification on its way carries the channel's value, and without one the daemon's copy
is that value, or its default if it was never set (`Told`, `Heard`, `Defaulted`).
`Nested` says of each frame what its handler has done so far to the values it read (`SoFar`, a table for each slider), of each frame
below the top that its slider waits for the one above (`Waits`), and how many handlers it may still have inside it (`Height`): a handler
that is called has fewer than its caller, and as none has more than 4, at most five are nested. That a drag
comes to an end is thus a safety property, part of `TypeOK`.
`OrderInv`: if the sliders were stored in order, the outermost handler read them in order but for its own slider
(`BottomIn`), so that by `SoFar` the order is back when its steps are done.
`AppliedInv`: a slider that differs from the channel has a handler on the stack that is yet to store it (`Pending`), but for
the sleep slider at the very end (`AtLast`, `OffMoved`); where sliders are in order the handler of the dim slider is only
called when dimming is given up, or is the outermost (`DimIsOutermost`).
`DialogIsApplied` and `SlidersStayInOrder` follow for a dialog without handlers. `OpensWithWhatApplies` needs `DaemonInv` only.
`LidSwitchIsRight` assumes a user who waits (`UserWaits`, `MaxInbox` at most 1, for the reason given under "Settings"),
and has an invariant of its own, `LidInv`: while a handler of the lock or of a lid runs, a notification of the session carries
what this handler read (`Notified`), so that the daemon's echo of it changes nothing.

`DisplayFollowsSettings` assumes times up to 1092 minutes (`TimesFit`, `SecondsFit` being the arithmetic of 16 bits), which the
dialog's sliders keep to (`SlidersFit`). The invariant `DisplayTold` says that the copies agree and the
server was told the present timeouts, as long as DPMS is enabled.

`InstancesProofs`: `TypeOK`, `OneManager`, `SwitchRestored` and `SwitchAsSet` (the switch is what the running daemon
set). The invariants are
`OwnsNames` (from the reservation to the release of a name its owner is the process), which gives
`OneManager`, and, without overlap, `AtMostOneBusy` (between reading the
switch and clearing the stored value there is one process, which follows from the second name and from
the absence of overlap) and `OriginalKnown` (the original value is stored, or in
the kernel, and whoever is to restore it has it).

`BrightnessProofs`: the arithmetic of both steps (`StepSuffices`, `KbdStepSuffices`); `TypeOK`; `OwnWay`, that an up
never lowers and a down never raises the level unless the other process set it in between; and
`SliderIsApplied`, by an invariant on the wheel: at each of its steps it is known on which side of the slider the level is, so
that the slider it moves in the end either is the level's or starts the timer.

`LoginsProofs`: all of `Logins`' properties. `Locked` says that logind holds what `fd` stands for, or the
handler is about to ask for it; `OneEvent` and `Pending` that the one event under way belongs to whom the
settings say; `Asked` that a sleep about which no question is left is authorised as the rules say;
`Capable` that what is taken for possible was granted by logind or is supported by the machine, for which the login manager
has to be asked before anything else (`LoginFirst`).

Only model-checked: liveness (`IdleSleeps`, `RestartServes`, `KeysReachTheEnd`, and the liveness of the contract
in `ImplementsContract`), as the prover has no `ENABLED`.

## Not modelled

- Widgets, texts, icons, logging, D-Bus marshalling: drawing and formatting.
- Notifications (`blpm-notify.c`): nothing depends on them but what the user sees. Every caller passes FALSE for
  `simple`, so the state kept for the simple kind is never used.
- The device lists of the dialog and of the panel, which draw what UPower says; the check for another
  dialog (`libdbus/blpm-unique.c`), which two dialogs started together both pass.
- `blpm-pm-helper.c`, a process that runs one command as root; `blpm_suspend_try_action`;
  the FreeBSD half of the backlight helper; the manager's GetConfig, which changes nothing.
- Errors of the brightness helper and of the configuration service in `Instances`; the
  two-second retry of the system bus in `Inhibit`; levels set by other programs in `Brightness`.

## What could follow

A composition of `Settings` with `Display` and `Idle`, which so far take the settings as inputs.
