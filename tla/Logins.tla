------------------------------- MODULE Logins -------------------------------
(***************************************************************************)
(* The daemon and the login manager: who handles a key or the lid          *)
(* (logind, or the daemon that holds logind's inhibitor lock,              *)
(* src/blpm-manager.c and src/blpm-button.c), and who may sleep, shut down *)
(* or reboot (src/blpm-systemd.c, src/blpm-console-kit.c,                  *)
(* src/blpm-suspend.c, src/blpm-polkit.c and their use in                  *)
(* src/blpm-power.c).                                                      *)
(*                                                                         *)
(* A handler of the daemon makes several blocking calls, each a step of    *)
(* its own: polkit's rules, the settings and the hardware change between   *)
(* them.  What they tell the daemon waits in its inbox until the handler   *)
(* is done.                                                                *)
(***************************************************************************)
EXTENDS Naturals, Sequences, FiniteSets

CONSTANTS
    Worlds,        \* the machines
    Rules,         \* the sets of actions polkit's rules may allow
    MaxChanges,    \* bound: changes of rules and of settings, each
    MaxInbox       \* bound: messages waiting for the daemon

Sleeps == {"suspend", "hibernate"}
Actions == Sleeps \cup {"shutdown", "reboot"}
Keys == {"power-key", "suspend-key", "hibernate-key"}
Events == Keys \cup {"lid-switch"}
Keysyms == {"PowerOff", "Hibernate", "Suspend", "Sleep"}

\* login: the login manager, "none" for a ConsoleKit that cannot sleep.  supports: how the
\* machine can sleep.  keymap: the keycode of each keysym, 0 for none.  events: the hardware
\* events that happen, and whose settings change.  others: do rules change ("rules"), clients
\* ask ("clients"), logind go away ("logind"), questions to polkit fail ("polkit"), the daemon
\* restart ("restart")?
WorldTypes ==
    [login : {"logind", "consolekit2", "none"}, supports : SUBSET Sleeps,
     keymap : [Keysyms -> Nat], events : SUBSET Events,
     others : SUBSET {"rules", "clients", "logind", "polkit", "restart"}]

ASSUME LoginsAssumption ==
    /\ Worlds \subseteq WorldTypes
    /\ Rules \subseteq SUBSET Actions
    /\ MaxChanges \in Nat /\ MaxInbox \in Nat

VARIABLES
    world,         \* the machine; it stays the same
    allowed,       \* what polkit's rules allow the user
    channel,       \* the logind-handle settings: the events left to logind
    logindUp,      \* does org.freedesktop.login1 have an owner?
    locks,         \* inhibitor locks logind holds for the daemon, by their descriptor
    event,         \* the hardware event the daemon still has to handle or handled last
    inbox,         \* messages for the daemon, oldest first
    changes,       \* changes of the rules and of the settings so far

    todo,          \* the blocking calls the running handler still has to make
    granted,       \* can_* of XfpmSystemd or XfpmConsoleKit
    can,           \* can_suspend and can_hibernate of XfpmPower
    auth,          \* auth_suspend and auth_hibernate of XfpmPower
    subject,       \* subject_valid of XfpmPolkit
    timers,        \* timers that will free its subject
    conf,          \* the daemon's copy of the logind-handle settings
    fd,            \* inhibit_fd of XfpmManager, 0 for -1
    answer         \* the last warning or D-Bus request: who asked for what, and the outcome

outside == <<world, allowed, channel, logindUp, event, changes>>
rights == <<granted, can, auth, subject, timers>>
inhibitor == <<conf, locks, fd>>
vars == <<outside, inbox, todo, rights, inhibitor, answer>>

Logind == world.login = "logind"

(* The messages. *)
PolicyChanged == [kind |-> "policy", key |-> "none", left |-> FALSE]
\* left: is the event left to logind from now on?
SettingChanged(e, left) == [kind |-> "setting", key |-> e, left |-> left]
Happened(e) == [kind |-> "event", key |-> e, left |-> FALSE]

\* What a request was answered; an offer is the set of actions a warning has buttons for.
NoAnswer == [asked |-> "nothing", of |-> {}, outcome |-> "none"]
Answer(asked, of, outcome) == [asked |-> asked, of |-> of, outcome |-> outcome]

NoEvent == [key |-> "none", quiet |-> TRUE, ours |-> FALSE, logind |-> FALSE, daemon |-> FALSE, done |-> TRUE]

Waiting(k) == \E i \in DOMAIN inbox : inbox[i].kind = k
AtRest == todo = <<>>

\* Which step of a handler comes next.
Now(step) == todo # <<>> /\ Head(todo) = step
Done == todo' = Tail(todo)

-----------------------------------------------------------------------------
(* Keys. *)

\* The keysyms in the order in which blpm_button_setup grabs them, and the button of each.
Grabs == <<"PowerOff", "Hibernate", "Suspend", "Sleep">>
ButtonFor == [PowerOff |-> 1, Hibernate |-> 2, Suspend |-> 2, Sleep |-> 3]

\* blpm_key_map has one keycode for each button, that of the keysym grabbed last.
KeyMap(b) ==
    LET mine == {i \in DOMAIN Grabs : ButtonFor[Grabs[i]] = b /\ world.keymap[Grabs[i]] # 0}
    IN  IF mine = {} THEN 0
        ELSE world.keymap[Grabs[CHOOSE i \in mine : \A j \in mine : j <= i]]

\* blpm_button_get_key: the last button with that keycode, 0 if it is nobody's.  No key has
\* keycode 0, and an entry without a keycode has no button.
GetKey(code) ==
    LET found == {b \in 1..3 : code # 0 /\ KeyMap(b) = code}
    IN  IF found = {} THEN 0 ELSE CHOOSE b \in found : \A c \in found : c <= b

\* What X makes of the keys logind knows by their kernel names.
KeysymOf == [e \in Keys |->
    CASE e = "power-key" -> "PowerOff" [] e = "suspend-key" -> "Sleep" [] OTHER -> "Suspend"]

HasKey(e) == world.keymap[KeysymOf[e]] # 0

-----------------------------------------------------------------------------
(* Polkit and the login managers. *)

\* Mutant: the subject is made anew for every question.
InitDataAlways == subject' = TRUE /\ timers' = timers + 1

\* blpm_polkit_init_data: a subject for the questions, freed a minute later.
InitData ==
    /\ subject' = TRUE
    /\ timers' = IF subject THEN timers ELSE timers + 1

\* Mutant: the data are freed without a timer.
FreeDataTwice ==
    /\ AtRest
    /\ timers' = timers - 1
    /\ subject' = FALSE
    /\ UNCHANGED <<outside, inbox, todo, granted, can, auth, inhibitor, answer>>

\* Timeout after 60 seconds.
FreeData ==
    /\ AtRest
    /\ timers > 0
    /\ timers' = timers - 1
    /\ subject' = FALSE
    /\ UNCHANGED <<outside, inbox, todo, granted, can, auth, inhibitor, answer>>

\* What blpm_polkit_check_auth answers: a question that fails is a no.
Answers == IF "polkit" \in world.others THEN SUBSET allowed ELSE {allowed}

\* A ConsoleKit that sleeps answers for the machine as well.
ConsoleKitAnswers ==
    allowed \cap
        ((Actions \ Sleeps) \cup IF world.login = "consolekit2" THEN world.supports ELSE {})

\* logind's flags are polkit's answers when the daemon starts.
AskLoginManager ==
    /\ Now("login")
    /\ Done
    /\ IF Logind
       THEN InitData /\ granted' \in Answers
       ELSE granted' = ConsoleKitAnswers /\ UNCHANGED <<subject, timers>>
    /\ UNCHANGED <<outside, inbox, can, auth, inhibitor, answer>>

\* check_for_consolekit2.
ConsoleKit2 == ~Logind /\ granted \cap Sleeps # {}

\* Without a login manager that sleeps the daemon asks pm-is-supported.
CanSleep == IF Logind \/ ConsoleKit2 THEN granted \cap Sleeps ELSE world.supports

GetProperties ==
    /\ Now("properties")
    /\ Done
    /\ can' = CanSleep
    /\ UNCHANGED <<outside, inbox, granted, auth, subject, timers, inhibitor, answer>>

CheckAuth(a) ==
    /\ Now(a)
    /\ Done
    /\ InitData
    /\ \E yes \in Answers : auth' = IF a \in yes THEN auth \cup {a} ELSE auth \ {a}
    /\ UNCHANGED <<outside, inbox, granted, can, inhibitor, answer>>

\* Mutant: what may be hibernated may be suspended.
PolkitQuestionsOne == <<"hibernate">>

\* blpm_power_check_polkit_auth asks two questions.
PolkitQuestions == <<"suspend", "hibernate">>

\* Init of the power object and start of the manager, which begin with the login manager.
StartUp == <<"login", "properties">> \o PolkitQuestions \o <<"inhibit">>

-----------------------------------------------------------------------------
(* Logind's inhibitor lock. *)

\* The events the settings leave to the daemon.
OurEvents == Events \ conf

Free == {n \in 1..(Cardinality(locks) + 1) : \A l \in locks : l.fd # n}

\* No lock when there is nothing to block, without logind, and when it does not answer.
InhibitSleep ==
    /\ Now("inhibit")
    /\ Done
    /\ IF OurEvents # {} /\ Logind /\ logindUp
       THEN /\ fd' = CHOOSE n \in Free : \A m \in Free : n <= m
            /\ locks' = locks \cup {[fd |-> fd', what |-> OurEvents]}
       ELSE fd' = 0 /\ UNCHANGED locks
    /\ UNCHANGED <<outside, inbox, rights, conf, answer>>

\* Mutant: the old descriptor is forgotten.
CloseForgotten == UNCHANGED locks

\* Closing the descriptor gives up the lock.
Close == locks' = {l \in locks : l.fd # fd}

SystemdEventsChanged ==
    /\ Close
    /\ todo' = <<"inhibit">>
    /\ UNCHANGED fd

Blocked(e) == \E l \in locks : e \in l.what

-----------------------------------------------------------------------------
(* The daemon's main loop. *)

\* blpm_polkit_changed_cb.
HandlePolicy(m) ==
    /\ m.kind = "policy"
    /\ todo' = PolkitQuestions
    /\ UNCHANGED <<event, rights, inhibitor, answer>>

\* The daemon's copy gets the new value, and its listener is told.
HandleSetting(m) ==
    /\ m.kind = "setting"
    /\ conf' = IF m.left THEN conf \cup {m.key} ELSE conf \ {m.key}
    /\ SystemdEventsChanged
    /\ UNCHANGED <<event, rights, answer>>

\* A button is acted on whoever else does; the lid only if logind does not handle it.
ActsOn(e) ==
    IF e = "lid-switch" THEN ~(Logind /\ e \in conf)
    ELSE GetKey(world.keymap[KeysymOf[e]]) # 0

\* A key press; or a notification of UPower, upon which the power object reads its
\* properties and then looks at the lid.
HandleEvent(m) ==
    /\ m.kind = "event"
    /\ event' = [event EXCEPT !.daemon = ActsOn(m.key), !.done = TRUE]
    /\ can' = IF m.key = "lid-switch" THEN CanSleep ELSE can
    /\ UNCHANGED <<todo, granted, auth, subject, timers, inhibitor, answer>>

Dispatch ==
    /\ AtRest
    /\ inbox # <<>>
    /\ inbox' = Tail(inbox)
    /\ LET m == Head(inbox) IN HandlePolicy(m) \/ HandleSetting(m) \/ HandleEvent(m)
    /\ UNCHANGED <<world, allowed, channel, logindUp, changes>>

\* Mutant: what is possible is offered, allowed or not.
OffersPossible == can \cup (granted \cap {"shutdown"})

\* The buttons of the warning about a critical battery.
Offers == (can \cap auth) \cup (granted \cap {"shutdown"})

CriticalBattery ==
    /\ AtRest
    /\ "clients" \in world.others
    /\ answer' = Answer("battery", Offers, "offered")
    /\ UNCHANGED <<outside, inbox, todo, rights, inhibitor>>

\* Suspend and Hibernate of org.freedesktop.PowerManagement.
SleepOutcome(a) ==
    CASE a \notin auth -> "permission denied"
      [] a \in auth \ can -> "not supported"
      [] OTHER -> "done"

\* Shutdown and Reboot go to the login manager, which makes up its own mind.
ShutdownOutcome(a) == IF a \in granted THEN "done" ELSE "permission denied"

ClientCalls(a) ==
    /\ AtRest
    /\ "clients" \in world.others
    /\ answer' = Answer("client", {a}, IF a \in Sleeps THEN SleepOutcome(a) ELSE ShutdownOutcome(a))
    /\ UNCHANGED <<outside, inbox, todo, rights, inhibitor>>

\* blpm_polkit_finalize; the process ends with its timers.
DropSubject == subject' = FALSE /\ timers' = 0

\* Quit closes the descriptor; the new daemon starts from nothing and with the settings as
\* they are.
Restart ==
    /\ AtRest
    /\ "restart" \in world.others
    /\ changes < MaxChanges
    /\ changes' = changes + 1
    /\ Close
    /\ fd' = 0
    /\ inbox' = <<>>
    /\ todo' = StartUp
    /\ conf' = channel
    /\ granted' = {} /\ can' = {} /\ auth' = Sleeps
    /\ DropSubject
    /\ answer' = NoAnswer
    /\ event' = NoEvent
    /\ UNCHANGED <<world, allowed, channel, logindUp>>

-----------------------------------------------------------------------------
(* Polkit, the user and the hardware. *)

Send(m) == Len(inbox) < MaxInbox /\ inbox' = Append(inbox, m)
Changes == changes < MaxChanges /\ changes' = changes + 1

RulesChange ==
    /\ "rules" \in world.others
    /\ Changes
    /\ \E r \in Rules \ {allowed} : allowed' = r
    /\ Send(PolicyChanged)
    /\ UNCHANGED <<world, channel, logindUp, event, todo, rights, inhibitor, answer>>

\* An event that is under way while settings change may be handled by either.
WriteSetting(e) ==
    /\ Changes
    /\ channel' = IF e \in channel THEN channel \ {e} ELSE channel \cup {e}
    /\ Send(SettingChanged(e, e \in channel'))
    /\ event' = [event EXCEPT !.quiet = event.done /\ @]
    /\ UNCHANGED <<world, allowed, logindUp, todo, rights, inhibitor, answer>>

LogindComesOrGoes ==
    /\ "logind" \in world.others
    /\ Changes
    /\ logindUp' = ~logindUp
    /\ UNCHANGED <<world, allowed, channel, event, inbox, todo, rights, inhibitor, answer>>

\* Logind acts at once unless a lock blocks it; the daemon is told.
HardwareEvent(e) ==
    /\ event.done
    /\ Send(Happened(e))
    /\ event' = [key |-> e, daemon |-> FALSE, done |-> FALSE,
                 quiet |-> AtRest /\ ~Waiting("setting") /\ logindUp
                           /\ (Logind /\ OurEvents # {} => fd # 0),
                 ours |-> e \notin conf \cup channel /\ (Logind => fd # 0),
                 logind |-> Logind /\ logindUp /\ ~Blocked(e)]
    /\ UNCHANGED <<world, allowed, channel, logindUp, changes, todo, rights, inhibitor, answer>>

-----------------------------------------------------------------------------
\* A daemon that has asked nobody yet takes itself for authorised.
InitPower == granted = {} /\ can = {} /\ auth = Sleeps
InitPolkit == subject = FALSE /\ timers = 0
InitManager == todo = StartUp /\ fd = 0

Init ==
    /\ world \in Worlds
    /\ allowed \in Rules
    /\ channel \in {{}, world.events}
    /\ logindUp = TRUE
    /\ locks = {}
    /\ event = NoEvent
    /\ inbox = <<>>
    /\ changes = 0
    /\ InitManager /\ InitPower /\ InitPolkit
    /\ conf = channel
    /\ answer = NoAnswer

Daemon ==
    \/ AskLoginManager \/ GetProperties \/ InhibitSleep
    \/ \E a \in Sleeps : CheckAuth(a)
    \/ Dispatch

Next ==
    \/ Daemon
    \/ FreeData \/ CriticalBattery \/ Restart
    \/ \E a \in Actions : ClientCalls(a)
    \/ RulesChange \/ LogindComesOrGoes
    \/ \E e \in world.events : WriteSetting(e) \/ HardwareEvent(e)

Spec == Init /\ [][Next]_vars

-----------------------------------------------------------------------------
(* Properties. *)

\* Every variable holds a value of its type.
TypeOK ==
    /\ world \in Worlds
    /\ allowed \subseteq Actions
    /\ {channel, conf} \subseteq SUBSET Events
    /\ logindUp \in BOOLEAN
    /\ locks \subseteq [fd : Nat, what : SUBSET Events]
    /\ event \in [key : Events \cup {"none"}, quiet : BOOLEAN, ours : BOOLEAN,
                  logind : BOOLEAN, daemon : BOOLEAN, done : BOOLEAN]
    /\ inbox \in Seq([kind : {"policy", "setting", "event"}, key : Events \cup {"none"},
                      left : BOOLEAN])
    /\ changes \in Nat
    /\ todo \in Seq({"login", "properties", "inhibit"} \cup Sleeps)
    /\ granted \subseteq Actions
    /\ can \subseteq Sleeps /\ auth \subseteq Sleeps
    /\ subject \in BOOLEAN /\ timers \in Nat
    /\ fd \in Nat
    /\ answer \in [asked : {"nothing", "battery", "client"}, of : SUBSET Actions,
                   outcome : {"none", "offered", "permission denied", "not supported", "done"}]

\* The lid is handled by logind or by the daemon but not by both, and a key that the settings
\* leave to the daemon by the daemon alone, however often the lock was closed and taken again
\* before: while the settings stay as they are and logind gave the lock that was asked for.
\* (A key that is left to logind is handled by both.)
HandledOnce ==
    event.key # "none" /\ event.done /\ event.quiet =>
        IF event.key = "lid-switch" THEN event.logind # event.daemon
        ELSE event.ours => ~event.logind /\ (event.daemon <=> HasKey(event.key))

\* Once the daemon has dealt with everything it was told, it takes no sleep for authorised
\* that polkit's rules forbid, although it asks about each in a question of its own and the
\* rules change between them; and none for forbidden that they allow, unless a question failed.
AuthFollowsRules ==
    AtRest /\ ~Waiting("policy") =>
        /\ auth \subseteq allowed
        /\ "polkit" \notin world.others => allowed \cap Sleeps \subseteq auth

\* What a warning of a critical battery offers when it is shown, and what Suspend and Hibernate
\* of D-Bus start, is a sleep the rules allow, or about whose change the daemon has yet to hear;
\* and one that the machine is capable of, or with logind one that was granted at the start.
\* Nothing is said of the sleeps that are started without a look at auth or can: by a key, the
\* lid or an idle alarm, as the critical action, and by the buttons of an old warning.
OffersAreAllowed ==
    [][answer' # answer /\ answer'.outcome \in {"offered", "done"} =>
         \A a \in answer'.of \cap Sleeps :
            /\ a \in allowed \/ Waiting("policy")
            /\ a \in IF Logind THEN granted ELSE world.supports]_vars

\* g_assert (subject_valid) in blpm_polkit_free_data holds whenever the timer expires, and a
\* subject that is kept is always freed in the end.
TimerFindsSubject == timers = IF subject THEN 1 ELSE 0
=============================================================================
