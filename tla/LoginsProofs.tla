---------------------------- MODULE LoginsProofs ----------------------------
(* For every machine, every set of rules and every bound: who handles an      *)
(* event, who may sleep, and polkit's subject.                                *)
EXTENDS Logins, SequenceTheorems, FiniteSetTheorems, TLAPS

Messages ==
    [kind : {"policy", "setting", "event"}, key : Events \cup {"none"}, left : BOOLEAN]
Steps == {"login", "properties", "inhibit"} \cup Sleeps

\* The running handler will still make that call.
Queued(step) == \E i \in 1..Len(todo) : todo[i] = step

\* Unless the lock is about to be taken, logind holds what the manager's descriptor stands
\* for, which is every event the settings leave to the daemon, or nothing.
Locked ==
    /\ \A i \in 1..Len(todo) : todo[i] = "inhibit" => i = Len(todo)
    /\ Queued("inhibit") => locks = {}
    /\ ~Queued("inhibit") =>
         \/ fd = 0 /\ locks = {}
         \/ fd = 1 /\ Logind /\ locks = {[fd |-> 1, what |-> OurEvents]}

\* The one message of a hardware event is the event's that is not handled yet; a message about
\* a setting names its event.
OneEvent ==
    /\ \A i \in 1..Len(inbox) :
         inbox[i].kind = "event" => ~event.done /\ inbox[i].key = event.key
    /\ \A i, j \in 1..Len(inbox) :
         inbox[i].kind = "event" /\ inbox[j].kind = "event" => i = j
    /\ \A i \in 1..Len(inbox) : inbox[i].kind = "setting" => inbox[i].key \in Events

\* An event that came while nothing was under way, and whose setting nobody has touched
\* since, is logind's just when its setting says so.
Pending ==
    ~event.done /\ event.quiet =>
        /\ event.key \in Events
        /\ ~Waiting("setting") /\ ~Queued("inhibit")
        /\ event.logind = (Logind /\ event.key \in conf)
        /\ event.ours => event.key \notin conf

\* A sleep about which no question is to be asked any more is authorised as the rules say.
Asked ==
    \A a \in Sleeps : ~Waiting("policy") /\ ~Queued(a) =>
        /\ a \in auth => a \in allowed
        /\ "polkit" \notin world.others => (a \in allowed => a \in auth)

\* The login manager is asked first of all, before any sleep is taken for possible.
LoginFirst == \A i \in 1..Len(todo) : todo[i] = "login" => i = 1 /\ can = {}

\* No sleep is taken for possible that logind did not grant; without logind, none that the
\* machine is not capable of.
Capable ==
    IF Logind THEN can \subseteq granted
    ELSE can \subseteq world.supports /\ granted \cap Sleeps \subseteq world.supports

IInv == TypeOK /\ TimerFindsSubject /\ Locked /\ OneEvent /\ Pending /\ HandledOnce /\ Asked
        /\ LoginFirst /\ Capable
-----------------------------------------------------------------------------
(* Sequences: what is taken from the front, and what is put at the back. *)

LEMMA TailOf ==
    ASSUME NEW S, NEW s \in Seq(S), s # <<>>
    PROVE  /\ Tail(s) \in Seq(S) /\ Head(s) = s[1] /\ Head(s) \in S
           /\ Len(s) \in Nat \ {0} /\ Len(Tail(s)) = Len(s) - 1
           /\ \A i \in 1..Len(Tail(s)) : i + 1 \in 1..Len(s) /\ Tail(s)[i] = s[i + 1]
           /\ \A i \in 2..Len(s) : i - 1 \in 1..Len(Tail(s)) /\ Tail(s)[i - 1] = s[i]
  OBVIOUS

LEMMA AppendOf ==
    ASSUME NEW S, NEW s \in Seq(S), NEW m \in S
    PROVE  /\ Append(s, m) \in Seq(S)
           /\ Len(s) \in Nat /\ Len(Append(s, m)) = Len(s) + 1
           /\ \A i \in 1..Len(s) : Append(s, m)[i] = s[i]
           /\ Append(s, m)[Len(s) + 1] = m
  OBVIOUS

\* The calls of the start and of a changed policy, and where the lock is taken among them.
LEMMA Handlers ==
    /\ PolkitQuestions \in Seq(Steps) /\ Len(PolkitQuestions) = 2
    /\ PolkitQuestions[1] = "suspend" /\ PolkitQuestions[2] = "hibernate"
    /\ StartUp \in Seq(Steps) /\ Len(StartUp) = 5
    /\ StartUp[1] = "login" /\ StartUp[2] = "properties"
    /\ StartUp[3] = "suspend" /\ StartUp[4] = "hibernate" /\ StartUp[5] = "inhibit"
  <1> DEFINE first == <<"login", "properties">>
             last == <<"inhibit">>
  <1>1. /\ PolkitQuestions \in Seq(Steps) /\ Len(PolkitQuestions) = 2
        /\ PolkitQuestions[1] = "suspend" /\ PolkitQuestions[2] = "hibernate"
    BY DEF PolkitQuestions, Steps, Sleeps
  <1>2. first \in Seq(Steps) /\ Len(first) = 2 /\ first[1] = "login" /\ first[2] = "properties"
    BY DEF Steps
  <1>3. last \in Seq(Steps) /\ Len(last) = 1 /\ last[1] = "inhibit"
    BY DEF Steps
  <1>4. StartUp = first \o PolkitQuestions \o last
    BY DEF StartUp
  <1> HIDE DEF first, last
  <1> DEFINE both == first \o PolkitQuestions
  <1>5. /\ both \in Seq(Steps) /\ Len(both) = Len(first) + Len(PolkitQuestions)
        /\ \A i \in 1..Len(first) + Len(PolkitQuestions) :
             both[i] = IF i <= Len(first) THEN first[i] ELSE PolkitQuestions[i - Len(first)]
    BY <1>1, <1>2, ConcatProperties, Zenon
  <1>6. /\ both \in Seq(Steps) /\ Len(both) = 4
        /\ both[1] = first[1] /\ both[2] = first[2]
        /\ both[3] = PolkitQuestions[1] /\ both[4] = PolkitQuestions[2]
    <2> HIDE DEF both
    <2> QED BY <1>1, <1>2, <1>5
  <1> HIDE DEF both
  <1>7. StartUp = both \o last
    BY <1>4 DEF both
  <1>8. /\ StartUp \in Seq(Steps) /\ Len(StartUp) = Len(both) + Len(last)
        /\ \A i \in 1..Len(both) + Len(last) :
             StartUp[i] = IF i <= Len(both) THEN both[i] ELSE last[i - Len(both)]
    BY <1>3, <1>6, <1>7, ConcatProperties, Zenon
  <1>9. /\ StartUp \in Seq(Steps) /\ Len(StartUp) = 5
        /\ StartUp[1] = both[1] /\ StartUp[2] = both[2] /\ StartUp[3] = both[3]
        /\ StartUp[4] = both[4] /\ StartUp[5] = last[1]
    BY <1>3, <1>6, <1>8
  <1> QED BY <1>1, <1>2, <1>3, <1>6, <1>9

\* A call that is done is off the list, and every other one stays on it.
LEMMA DoneKeeps ==
    ASSUME todo \in Seq(Steps), NEW h, Now(h), Done
    PROVE  /\ todo' \in Seq(Steps) /\ h \in Steps
           /\ \A s \in Steps \ {h} : Queued(s)' = Queued(s)
           /\ \A s \in Steps : Queued(s)' => Queued(s)
           /\ Queued(h)
  <1>1. todo # <<>> /\ todo[1] = h /\ todo' = Tail(todo)
    BY TailOf DEF Now, Done
  <1>2. /\ todo' \in Seq(Steps) /\ h \in Steps /\ Len(todo) \in Nat \ {0}
        /\ \A i \in 1..Len(todo') : i + 1 \in 1..Len(todo) /\ todo'[i] = todo[i + 1]
        /\ \A i \in 2..Len(todo) : i - 1 \in 1..Len(todo') /\ todo'[i - 1] = todo[i]
    BY <1>1, TailOf DEF Now
  <1>3. Queued(h)
    BY <1>1, <1>2 DEF Queued
  <1>4. ASSUME NEW s \in Steps, Queued(s)' PROVE Queued(s)
    BY <1>2, <1>4 DEF Queued
  <1>5. ASSUME NEW s \in Steps \ {h}, Queued(s) PROVE Queued(s)'
    <2>1. PICK i \in 1..Len(todo) : todo[i] = s
      BY <1>5 DEF Queued
    <2>2. i \in 2..Len(todo)
      BY <1>1, <1>2, <2>1, <1>5
    <2> QED BY <1>2, <2>1, <2>2 DEF Queued
  <1> QED BY <1>2, <1>3, <1>4, <1>5 DEF Queued

-----------------------------------------------------------------------------
(* Polkit's subject. *)

\* A timer runs as long as there is a subject to free: g_assert (subject_valid) holds.
LEMMA TimerStep ==
    ASSUME TypeOK, TimerFindsSubject, [Next]_vars
    PROVE  TimerFindsSubject'
  <1> USE DEF TimerFindsSubject
  <1>1. subject \in BOOLEAN /\ timers = IF subject THEN 1 ELSE 0
    BY DEF TypeOK
  <1>2. ASSUME InitData PROVE timers' = IF subject' THEN 1 ELSE 0
    BY <1>1, <1>2 DEF InitData
  <1>3. CASE AskLoginManager
    <2>1. CASE Logind
      BY <1>2, <1>3, <2>1 DEF AskLoginManager
    <2>2. CASE ~Logind
      BY <1>1, <1>3, <2>2 DEF AskLoginManager
    <2> QED BY <2>1, <2>2
  <1>4. ASSUME NEW a \in Sleeps, CheckAuth(a) PROVE TimerFindsSubject'
    BY <1>2, <1>4 DEF CheckAuth
  <1>5. CASE FreeData
    BY <1>1, <1>5 DEF FreeData
  <1>6. CASE Restart
    BY <1>6 DEF Restart, DropSubject
  <1>7. CASE GetProperties \/ InhibitSleep \/ CriticalBattery
    BY <1>1, <1>7 DEF GetProperties, InhibitSleep, CriticalBattery, rights
  <1>8. CASE Dispatch
    BY <1>1, <1>8 DEF Dispatch, HandlePolicy, HandleSetting, HandleEvent, rights
  <1>9. ASSUME NEW a \in Actions, ClientCalls(a) PROVE TimerFindsSubject'
    BY <1>1, <1>9 DEF ClientCalls, rights
  <1>10. CASE RulesChange \/ LogindComesOrGoes
    BY <1>1, <1>10 DEF RulesChange, LogindComesOrGoes, rights
  <1>11. ASSUME NEW e \in world.events, WriteSetting(e) \/ HardwareEvent(e) PROVE TimerFindsSubject'
    BY <1>1, <1>11 DEF WriteSetting, HardwareEvent, rights
  <1>12. CASE UNCHANGED vars
    BY <1>1, <1>12 DEF vars, rights
  <1> QED BY <1>3, <1>4, <1>5, <1>6, <1>7, <1>8, <1>9, <1>10, <1>11, <1>12 DEF Next, Daemon

-----------------------------------------------------------------------------
(* Logind's lock. *)

\* With no lock held the lowest free descriptor is the first one.
LEMMA FirstFree == ASSUME locks = {} PROVE (CHOOSE n \in Free : \A m \in Free : n <= m) = 1
  <1>1. Cardinality(locks) = 0
    BY FS_EmptySet
  <1>2. Free = {1}
    BY <1>1 DEF Free
  <1> QED BY <1>2

\* Nothing is left to do once the lock is taken, and it is the only one.
LEMMA LockTaken ==
    ASSUME TypeOK, Locked, InhibitSleep
    PROVE  /\ Queued("inhibit") /\ todo' \in Seq(Steps) /\ Len(todo') = 0
           /\ \/ fd' = 0 /\ locks' = {}
              \/ fd' = 1 /\ Logind /\ locks' = {[fd |-> 1, what |-> OurEvents]}
  <1> USE DEF Locked
  <1>1. todo \in Seq(Steps)
    BY DEF TypeOK, Steps
  <1>2. /\ Queued("inhibit") /\ todo' \in Seq(Steps)
        /\ todo # <<>> /\ todo[1] = "inhibit" /\ Len(todo) \in Nat \ {0}
    BY <1>1, DoneKeeps, TailOf DEF InhibitSleep, Now
  <1>3. Len(todo) = 1 /\ locks = {}
    <2>1. locks = {} /\ \A i \in 1..Len(todo) : todo[i] = "inhibit" => i = Len(todo)
      BY <1>2 DEF Locked
    <2>2. Len(todo) \in Nat \ {0} /\ todo[1] = "inhibit"
      BY <1>2
    <2>3. 1 \in 1..Len(todo)
      BY <2>2
    <2> QED BY <2>1, <2>2, <2>3
  <1>4. Len(todo') = 0
    BY <1>1, <1>2, <1>3, TailOf DEF InhibitSleep, Done
  <1>5. CASE OurEvents # {} /\ Logind /\ logindUp
    <2>1. fd' = 1 /\ locks' = locks \cup {[fd |-> fd', what |-> OurEvents]}
      BY <1>3, <1>5, FirstFree DEF InhibitSleep
    <2> QED BY <1>2, <1>3, <1>4, <1>5, <2>1
  <1>6. CASE ~(OurEvents # {} /\ Logind /\ logindUp)
    BY <1>2, <1>3, <1>4, <1>6 DEF InhibitSleep
  <1> QED BY <1>5, <1>6

LEMMA LockedStep ==
    ASSUME TypeOK, Locked, [Next]_vars
    PROVE  Locked'
  <1> USE DEF Locked
  <1>1. todo \in Seq(Steps)
    BY DEF TypeOK, Steps
  <1>2. ASSUME NEW h, Now(h), Done, h # "inhibit", UNCHANGED <<inhibitor, world>> PROVE Locked'
    <2>1. Queued("inhibit")' = Queued("inhibit")
      BY <1>1, <1>2, DoneKeeps DEF Steps
    <2>2. \A i \in 1..Len(todo') : todo'[i] = "inhibit" => i = Len(todo')
      BY <1>1, <1>2, TailOf DEF Now, Done
    <2> QED BY <1>2, <2>1, <2>2 DEF inhibitor, OurEvents, Logind
  <1>3. ASSUME UNCHANGED <<todo, inhibitor, world>> PROVE Locked'
    BY <1>3 DEF inhibitor, OurEvents, Logind, Queued
  <1>4. CASE AskLoginManager
    BY <1>2, <1>4 DEF AskLoginManager, outside
  <1>5. CASE GetProperties
    BY <1>2, <1>5 DEF GetProperties, outside
  <1>6. ASSUME NEW a \in Sleeps, CheckAuth(a) PROVE Locked'
    BY <1>2, <1>6 DEF CheckAuth, outside, Sleeps
  <1>7. CASE InhibitSleep
    <2>1. UNCHANGED <<conf, world>> /\ Len(todo') = 0
      BY <1>7, LockTaken DEF InhibitSleep, outside
    <2> QED BY <1>7, <2>1, LockTaken DEF OurEvents, Logind, Queued
  <1>8. ASSUME Close, AtRest PROVE locks' = {}
    <2>1. ~Queued("inhibit")
      BY <1>8 DEF AtRest, Queued
    <2> QED BY <1>8, <2>1 DEF Close
  <1>9. CASE Restart
    <2>1. locks' = {} /\ todo' = StartUp
      BY <1>8, <1>9 DEF Restart
    <2>2. Queued("inhibit")'
      BY <2>1, Handlers DEF Queued
    <2>3. \A i \in 1..Len(todo') : todo'[i] = "inhibit" => i = Len(todo')
      BY <2>1, Handlers
    <2> QED BY <2>1, <2>2, <2>3
  <1>10. CASE Dispatch
    <2> DEFINE m == Head(inbox)
    <2>1. AtRest /\ world' = world /\ ~Queued("inhibit")
      BY <1>10 DEF Dispatch, AtRest, Queued
    <2>2. CASE HandlePolicy(m)
      <3>1. todo' = PolkitQuestions /\ UNCHANGED inhibitor
        BY <2>2 DEF HandlePolicy
      <3>2. ~Queued("inhibit")' /\ \A i \in 1..Len(todo') : todo'[i] = "inhibit" => i = Len(todo')
        BY <3>1, Handlers DEF Queued
      <3> QED BY <2>1, <3>1, <3>2 DEF inhibitor, OurEvents, Logind
    <2>3. CASE HandleSetting(m)
      <3>1. todo' = <<"inhibit">> /\ locks' = {}
        BY <1>8, <2>1, <2>3 DEF HandleSetting, SystemdEventsChanged
      <3>2. Queued("inhibit")' /\ \A i \in 1..Len(todo') : todo'[i] = "inhibit" => i = Len(todo')
        BY <3>1 DEF Queued
      <3> QED BY <3>1, <3>2
    <2>4. CASE HandleEvent(m)
      BY <1>3, <2>1, <2>4 DEF HandleEvent
    <2> QED BY <1>10, <2>2, <2>3, <2>4 DEF Dispatch
  <1>11. CASE FreeData \/ CriticalBattery
    BY <1>3, <1>11 DEF FreeData, CriticalBattery, outside
  <1>12. ASSUME NEW a \in Actions, ClientCalls(a) PROVE Locked'
    BY <1>3, <1>12 DEF ClientCalls, outside
  <1>13. CASE RulesChange \/ LogindComesOrGoes
    BY <1>3, <1>13 DEF RulesChange, LogindComesOrGoes
  <1>14. ASSUME NEW e \in world.events, WriteSetting(e) \/ HardwareEvent(e) PROVE Locked'
    BY <1>3, <1>14 DEF WriteSetting, HardwareEvent
  <1>15. CASE UNCHANGED vars
    BY <1>3, <1>15 DEF vars, outside
  <1> QED BY <1>4, <1>5, <1>6, <1>7, <1>9, <1>10, <1>11, <1>12, <1>13, <1>14, <1>15 DEF Next, Daemon

-----------------------------------------------------------------------------
(* Who may sleep. *)

\* A message that is put at the back waits, and hides none that waited.
LEMMA SendKeeps ==
    ASSUME TypeOK, NEW m \in Messages, Send(m)
    PROVE  /\ inbox' \in Seq(Messages) /\ Len(inbox) \in Nat /\ Len(inbox') = Len(inbox) + 1
           /\ \A i \in 1..Len(inbox) : inbox'[i] = inbox[i]
           /\ inbox'[Len(inbox) + 1] = m
           /\ \A k : Waiting(k)' <=> Waiting(k) \/ m.kind = k
  <1>1. inbox \in Seq(Messages)
    BY DEF TypeOK, Messages
  <1>2. /\ inbox' \in Seq(Messages) /\ Len(inbox) \in Nat /\ Len(inbox') = Len(inbox) + 1
        /\ \A i \in 1..Len(inbox) : inbox'[i] = inbox[i]
        /\ inbox'[Len(inbox) + 1] = m
    BY <1>1, AppendOf DEF Send
  <1>3. DOMAIN inbox = 1..Len(inbox) /\ DOMAIN inbox' = 1..(Len(inbox) + 1)
    BY <1>1, <1>2
  <1>4. ASSUME NEW k PROVE Waiting(k)' <=> Waiting(k) \/ m.kind = k
    BY <1>2, <1>3 DEF Waiting
  <1> QED BY <1>2, <1>4

\* A message that is handled leaves the others waiting.
LEMMA DispatchKeeps ==
    ASSUME TypeOK, Dispatch
    PROVE  /\ inbox \in Seq(Messages) /\ Len(inbox) \in Nat \ {0} /\ Head(inbox) = inbox[1]
           /\ Head(inbox) \in Messages
           /\ inbox' \in Seq(Messages) /\ Len(inbox') = Len(inbox) - 1
           /\ \A i \in 1..Len(inbox') : i + 1 \in 1..Len(inbox) /\ inbox'[i] = inbox[i + 1]
           /\ \A k : Waiting(k) <=> Waiting(k)' \/ Head(inbox).kind = k
  <1>1. inbox \in Seq(Messages) /\ inbox # <<>> /\ inbox' = Tail(inbox)
    BY DEF TypeOK, Messages, Dispatch
  <1>2. /\ Len(inbox) \in Nat \ {0} /\ Head(inbox) = inbox[1] /\ Head(inbox) \in Messages
        /\ inbox' \in Seq(Messages) /\ Len(inbox') = Len(inbox) - 1
        /\ \A i \in 1..Len(inbox') : i + 1 \in 1..Len(inbox) /\ inbox'[i] = inbox[i + 1]
        /\ \A i \in 2..Len(inbox) : i - 1 \in 1..Len(inbox') /\ inbox'[i - 1] = inbox[i]
    BY <1>1, TailOf
  <1>3. DOMAIN inbox = 1..Len(inbox) /\ DOMAIN inbox' = 1..Len(inbox')
    BY <1>1, <1>2
  <1>4. ASSUME NEW k, Waiting(k)' PROVE Waiting(k)
    BY <1>2, <1>3, <1>4 DEF Waiting
  <1>5. ASSUME NEW k, Head(inbox).kind = k PROVE Waiting(k)
    BY <1>2, <1>3, <1>5 DEF Waiting
  <1>6. ASSUME NEW k, Waiting(k), Head(inbox).kind # k PROVE Waiting(k)'
    <2>1. PICK i \in 1..Len(inbox) : inbox[i].kind = k
      BY <1>3, <1>6 DEF Waiting
    <2>2. i \in 2..Len(inbox)
      BY <1>2, <1>6, <2>1
    <2> QED BY <1>2, <1>3, <2>1, <2>2 DEF Waiting
  <1> QED BY <1>1, <1>2, <1>4, <1>5, <1>6

LEMMA AskedStep ==
    ASSUME TypeOK, Asked, [Next]_vars
    PROVE  Asked'
  <1> USE DEF Asked
  <1>1. todo \in Seq(Steps) /\ auth \subseteq Sleeps /\ Sleeps \subseteq Steps
    BY DEF TypeOK, Steps
  <1>2. ASSUME NEW h, Now(h), Done, h \notin Sleeps, UNCHANGED <<world, allowed, auth, inbox>> PROVE Asked'
    <2>1. \A a \in Sleeps : Queued(a)' = Queued(a)
      BY <1>1, <1>2, DoneKeeps
    <2> QED BY <1>2, <2>1 DEF Waiting
  <1>3. ASSUME UNCHANGED <<world, allowed, auth, inbox, todo>> PROVE Asked'
    BY <1>3 DEF Waiting, Queued
  <1>4. CASE AskLoginManager
    BY <1>2, <1>4 DEF AskLoginManager, outside, Sleeps
  <1>5. CASE GetProperties
    BY <1>2, <1>5 DEF GetProperties, outside, Sleeps
  <1>6. ASSUME NEW a \in Sleeps, CheckAuth(a) PROVE Asked'
    <2>1. \A s \in Sleeps \ {a} : Queued(s)' = Queued(s)
      BY <1>1, <1>6, DoneKeeps DEF CheckAuth
    <2>2. UNCHANGED <<world, allowed, inbox>>
      BY <1>6 DEF CheckAuth, outside
    <2>3. PICK yes \in Answers : auth' = IF a \in yes THEN auth \cup {a} ELSE auth \ {a}
      BY <1>6 DEF CheckAuth
    <2>4. yes \subseteq allowed /\ ("polkit" \notin world.others => yes = allowed)
      BY DEF Answers
    <2>5. ASSUME NEW s \in Sleeps, ~Waiting("policy")', ~Queued(s)'
          PROVE  /\ s \in auth' => s \in allowed'
                 /\ "polkit" \notin world.others' => (s \in allowed' => s \in auth')
      <3>1. CASE s = a
        BY <2>2, <2>3, <2>4, <3>1
      <3>2. CASE s # a
        <4>1. ~Waiting("policy") /\ ~Queued(s)
          BY <2>1, <2>2, <2>5, <3>2 DEF Waiting
        <4> QED BY <2>2, <2>3, <3>2, <4>1
      <3> QED BY <3>1, <3>2
    <2> QED BY <2>5
  <1>7. CASE InhibitSleep
    BY <1>2, <1>7 DEF InhibitSleep, outside, rights, Sleeps
  <1>8. CASE Dispatch
    <2> DEFINE m == Head(inbox)
    <2>1. world' = world /\ allowed' = allowed /\ \A a \in Sleeps : ~Queued(a)
      BY <1>8 DEF Dispatch, AtRest, Queued
    <2>2. CASE HandlePolicy(m)
      <3>1. todo' = PolkitQuestions
        BY <2>2 DEF HandlePolicy
      <3>2. \A a \in Sleeps : Queued(a)'
        BY <3>1, Handlers DEF Queued, Sleeps
      <3> QED BY <3>2
    <2>3. CASE HandleSetting(m) \/ HandleEvent(m)
      <3>1. auth' = auth /\ m.kind # "policy"
        BY <2>3 DEF HandleSetting, HandleEvent, rights
      <3>2. Waiting("policy") => Waiting("policy")'
        BY <1>8, <3>1, DispatchKeeps
      <3> QED BY <2>1, <3>1, <3>2
    <2> QED BY <1>8, <2>2, <2>3 DEF Dispatch
  <1>9. CASE FreeData
    BY <1>3, <1>9 DEF FreeData, outside
  <1>10. CASE CriticalBattery
    BY <1>3, <1>10 DEF CriticalBattery, outside, rights
  <1>11. CASE Restart
    <2>1. todo' = StartUp
      BY <1>11 DEF Restart
    <2>2. \A a \in Sleeps : Queued(a)'
      BY <2>1, Handlers DEF Queued, Sleeps
    <2> QED BY <2>2
  <1>12. ASSUME NEW a \in Actions, ClientCalls(a) PROVE Asked'
    BY <1>3, <1>12 DEF ClientCalls, outside, rights
  <1>13. CASE RulesChange
    <2>1. Send(PolicyChanged)
      BY <1>13 DEF RulesChange
    <2>2. PolicyChanged \in Messages /\ PolicyChanged.kind = "policy"
      BY DEF PolicyChanged, Messages
    <2>3. Waiting("policy")'
      BY <2>1, <2>2, SendKeeps
    <2> QED BY <2>3
  <1>14. CASE LogindComesOrGoes
    BY <1>3, <1>14 DEF LogindComesOrGoes, rights
  <1>15. ASSUME NEW m \in Messages, Send(m), UNCHANGED <<world, allowed, auth, todo>> PROVE Asked'
    <2>1. Waiting("policy") => Waiting("policy")'
      BY <1>15, SendKeeps
    <2> QED BY <1>15, <2>1 DEF Queued
  <1>16. ASSUME NEW e \in world.events, WriteSetting(e) PROVE Asked'
    <2>1. e \in Events
      BY LoginsAssumption DEF TypeOK, WorldTypes
    <2>2. SettingChanged(e, e \in channel') \in Messages
      BY <2>1 DEF SettingChanged, Messages
    <2> QED BY <1>15, <1>16, <2>2 DEF WriteSetting, rights
  <1>17. ASSUME NEW e \in world.events, HardwareEvent(e) PROVE Asked'
    <2>1. e \in Events
      BY LoginsAssumption DEF TypeOK, WorldTypes
    <2>2. Happened(e) \in Messages
      BY <2>1 DEF Happened, Messages
    <2> QED BY <1>15, <1>17, <2>2 DEF HardwareEvent, rights
  <1>18. CASE UNCHANGED vars
    BY <1>3, <1>18 DEF vars, outside, rights
  <1> QED BY <1>4, <1>5, <1>6, <1>7, <1>8, <1>9, <1>10, <1>11, <1>12, <1>13, <1>14, <1>16, <1>17, <1>18
          DEF Next, Daemon

\* The question to the login manager stands first on the list, while nothing is taken for
\* possible yet; no later handler asks it.
LEMMA LoginFirstStep ==
    ASSUME TypeOK, LoginFirst, [Next]_vars
    PROVE  LoginFirst'
  <1> USE DEF LoginFirst
  <1>1. ASSUME UNCHANGED <<todo, can>> PROVE LoginFirst'
    BY <1>1
  <1>2. ASSUME NEW h, Now(h), Done PROVE \A i \in 1..Len(todo') : todo'[i] # "login"
    <2>1. todo \in Seq(Steps) /\ todo # <<>>
      BY <1>2 DEF TypeOK, Steps, Now
    <2>2. \A i \in 1..Len(todo') :
            i \in Nat \ {0} /\ i + 1 \in 1..Len(todo) /\ todo'[i] = todo[i + 1]
      BY <1>2, <2>1, TailOf DEF Done
    <2> QED BY <2>2
  <1>3. CASE AskLoginManager
    BY <1>2, <1>3 DEF AskLoginManager
  <1>4. CASE GetProperties
    BY <1>2, <1>4 DEF GetProperties
  <1>5. ASSUME NEW a \in Sleeps, CheckAuth(a) PROVE LoginFirst'
    BY <1>2, <1>5 DEF CheckAuth
  <1>6. CASE InhibitSleep
    BY <1>2, <1>6 DEF InhibitSleep
  <1>7. CASE Dispatch
    <2> DEFINE m == Head(inbox)
    <2>1. CASE HandlePolicy(m)
      <3>1. todo' = PolkitQuestions
        BY <2>1 DEF HandlePolicy
      <3>2. \A i \in 1..Len(todo') : todo'[i] # "login"
        BY <3>1, Handlers
      <3> QED BY <3>2
    <2>2. CASE HandleSetting(m)
      <3>1. todo' = <<"inhibit">>
        BY <2>2 DEF HandleSetting, SystemdEventsChanged
      <3>2. \A i \in 1..Len(todo') : todo'[i] # "login"
        BY <3>1
      <3> QED BY <3>2
    <2>3. CASE HandleEvent(m)
      <3>1. todo' = <<>>
        BY <1>7, <2>3 DEF Dispatch, AtRest, HandleEvent
      <3> QED BY <3>1
    <2> QED BY <1>7, <2>1, <2>2, <2>3 DEF Dispatch
  <1>8. CASE FreeData \/ CriticalBattery
    BY <1>1, <1>8 DEF FreeData, CriticalBattery, rights
  <1>9. CASE Restart
    <2>1. todo' = StartUp /\ can' = {}
      BY <1>9 DEF Restart
    <2>2. \A i \in 1..Len(todo') : todo'[i] = "login" => i = 1
      BY <2>1, Handlers
    <2> QED BY <2>1, <2>2
  <1>10. ASSUME NEW a \in Actions, ClientCalls(a) PROVE LoginFirst'
    BY <1>1, <1>10 DEF ClientCalls, rights
  <1>11. CASE RulesChange \/ LogindComesOrGoes
    BY <1>1, <1>11 DEF RulesChange, LogindComesOrGoes, rights
  <1>12. ASSUME NEW e \in world.events, WriteSetting(e) \/ HardwareEvent(e) PROVE LoginFirst'
    BY <1>1, <1>12 DEF WriteSetting, HardwareEvent, rights
  <1>13. CASE UNCHANGED vars
    BY <1>1, <1>13 DEF vars, rights
  <1> QED BY <1>3, <1>4, <1>5, <1>6, <1>7, <1>8, <1>9, <1>10, <1>11, <1>12, <1>13 DEF Next, Daemon

\* What the daemon takes the machine for capable of comes from logind, from a ConsoleKit that
\* sleeps, or from pm-is-supported.
LEMMA CapableStep ==
    ASSUME TypeOK, LoginFirst, Capable, [Next]_vars
    PROVE  Capable'
  <1> USE DEF Capable
  <1>1. ASSUME UNCHANGED <<world, can, granted>> PROVE Capable'
    BY <1>1 DEF Logind
  <1>2. ASSUME UNCHANGED <<world, granted>>, can' = CanSleep PROVE Capable'
    BY <1>2 DEF CanSleep, ConsoleKit2, Logind
  <1>3. CASE AskLoginManager
    <2>1. UNCHANGED <<world, can>>
      BY <1>3 DEF AskLoginManager, outside
    <2>2. CASE ~Logind
      <3>1. granted' = ConsoleKitAnswers
        BY <1>3, <2>2 DEF AskLoginManager
      <3>2. ConsoleKitAnswers \cap Sleeps \subseteq world.supports
        BY DEF ConsoleKitAnswers
      <3> QED BY <2>1, <2>2, <3>1, <3>2 DEF Logind
    <2>3. CASE Logind
      <3>1. 1 \in 1..Len(todo) /\ todo[1] = "login"
        <4>1. todo \in Seq(Steps) /\ todo # <<>> /\ Head(todo) = "login"
          BY <1>3 DEF AskLoginManager, Now, TypeOK, Steps
        <4> QED BY <4>1, TailOf
      <3>2. can = {}
        BY <3>1 DEF LoginFirst
      <3> QED BY <2>1, <2>3, <3>2 DEF Logind
    <2> QED BY <2>2, <2>3
  <1>4. CASE GetProperties
    BY <1>2, <1>4 DEF GetProperties, outside
  <1>5. ASSUME NEW a \in Sleeps, CheckAuth(a) PROVE Capable'
    BY <1>1, <1>5 DEF CheckAuth, outside
  <1>6. CASE InhibitSleep
    BY <1>1, <1>6 DEF InhibitSleep, outside, rights
  <1>7. CASE Dispatch
    <2> DEFINE m == Head(inbox)
    <2>1. CASE HandlePolicy(m) \/ HandleSetting(m)
      BY <1>1, <1>7, <2>1 DEF Dispatch, HandlePolicy, HandleSetting, rights
    <2>2. CASE HandleEvent(m)
      <3>1. can' = CanSleep \/ can' = can
        BY <2>2 DEF HandleEvent
      <3> QED BY <1>1, <1>2, <1>7, <2>2, <3>1 DEF Dispatch, HandleEvent
    <2> QED BY <1>7, <2>1, <2>2 DEF Dispatch
  <1>8. CASE FreeData \/ CriticalBattery
    BY <1>1, <1>8 DEF FreeData, CriticalBattery, outside, rights
  <1>9. CASE Restart
    BY <1>9 DEF Restart, Logind
  <1>10. ASSUME NEW a \in Actions, ClientCalls(a) PROVE Capable'
    BY <1>1, <1>10 DEF ClientCalls, outside, rights
  <1>11. CASE RulesChange \/ LogindComesOrGoes
    BY <1>1, <1>11 DEF RulesChange, LogindComesOrGoes, rights
  <1>12. ASSUME NEW e \in world.events, WriteSetting(e) \/ HardwareEvent(e) PROVE Capable'
    BY <1>1, <1>12 DEF WriteSetting, HardwareEvent, rights
  <1>13. CASE UNCHANGED vars
    BY <1>1, <1>13 DEF vars, outside, rights
  <1> QED BY <1>3, <1>4, <1>5, <1>6, <1>7, <1>8, <1>9, <1>10, <1>11, <1>12, <1>13 DEF Next, Daemon

-----------------------------------------------------------------------------
(* Who handles an event. *)

LEMMA LastIs ==
    ASSUME NEW S \in SUBSET Nat, NEW i \in S, \A j \in S : j <= i
    PROVE  (CHOOSE x \in S : \A y \in S : y <= x) = i
  <1> DEFINE last == CHOOSE x \in S : \A y \in S : y <= x
  <1>1. last \in S /\ \A y \in S : y <= last
    OBVIOUS
  <1> HIDE DEF last
  <1>2. last = i
    BY <1>1
  <1> QED BY <1>2 DEF last

LEMMA LastExists ==
    ASSUME NEW S \in SUBSET (1..3), S # {}
    PROVE  (CHOOSE x \in S : \A y \in S : y <= x) \in 1..3
  <1>1. CASE 3 \in S
    BY <1>1, LastIs
  <1>2. CASE 3 \notin S /\ 2 \in S
    <2>1. \A j \in S : j <= 2
      BY <1>2
    <2> QED BY <1>2, <2>1, LastIs
  <1>3. CASE 3 \notin S /\ 2 \notin S
    <2>1. PICK x \in S : TRUE
      OBVIOUS
    <2>2. 1 \in S /\ \A j \in S : j <= 1
      BY <1>3, <2>1
    <2> QED BY <2>2, LastIs
  <1> QED BY <1>1, <1>2, <1>3

\* A key logind knows is a button of the daemon's just when the keymap has it: its keysym is
\* the one of its button that is grabbed last.
LEMMA KeysFound ==
    ASSUME world \in WorldTypes, NEW e \in Keys
    PROVE  GetKey(world.keymap[KeysymOf[e]]) # 0 <=> HasKey(e)
  <1> DEFINE code == world.keymap[KeysymOf[e]]
             found == {b \in 1..3 : code # 0 /\ KeyMap(b) = code}
             key == CHOOSE b \in found : \A c \in found : c <= b
  <1>1. DOMAIN Grabs = 1..4 /\ Grabs[1] = "PowerOff" /\ Grabs[2] = "Hibernate"
        /\ Grabs[3] = "Suspend" /\ Grabs[4] = "Sleep"
    BY DEF Grabs
  <1>2. ButtonFor["PowerOff"] = 1 /\ ButtonFor["Hibernate"] = 2
        /\ ButtonFor["Suspend"] = 2 /\ ButtonFor["Sleep"] = 3
    BY DEF ButtonFor
  <1>3. ASSUME NEW b \in 1..3, NEW i \in 1..4, ButtonFor[Grabs[i]] = b,
               \A j \in i + 1..4 : ButtonFor[Grabs[j]] # b, world.keymap[Grabs[i]] # 0
        PROVE  KeyMap(b) = world.keymap[Grabs[i]]
    <2> DEFINE mine == {j \in DOMAIN Grabs : ButtonFor[Grabs[j]] = b /\ world.keymap[Grabs[j]] # 0}
    <2>1. i \in mine /\ mine \subseteq Nat /\ \A j \in mine : j <= i
      BY <1>1, <1>3
    <2>2. KeyMap(b) =
            IF mine = {} THEN 0
            ELSE world.keymap[Grabs[CHOOSE x \in mine : \A y \in mine : y <= x]]
      BY DEF KeyMap
    <2> HIDE DEF mine
    <2>3. (CHOOSE x \in mine : \A y \in mine : y <= x) = i
      BY <2>1, LastIs
    <2> QED BY <2>1, <2>2, <2>3
  <1>4. KeysymOf[e] \in {"PowerOff", "Sleep", "Suspend"}
    BY DEF KeysymOf, Keys
  <1>5. code # 0 => found # {}
    <2> SUFFICES ASSUME code # 0 PROVE \E b \in 1..3 : KeyMap(b) = code
      OBVIOUS
    <2>1. CASE KeysymOf[e] = "PowerOff"
      BY <1>1, <1>2, <1>3, <2>1
    <2>2. CASE KeysymOf[e] = "Suspend"
      BY <1>1, <1>2, <1>3, <2>2
    <2>3. CASE KeysymOf[e] = "Sleep"
      BY <1>1, <1>2, <1>3, <2>3
    <2> QED BY <1>4, <2>1, <2>2, <2>3
  <1>6. found # {} => key \in 1..3
    <2>1. found \subseteq 1..3
      OBVIOUS
    <2> HIDE DEF found
    <2> QED BY <2>1, LastExists
  <1>7. GetKey(code) = IF found = {} THEN 0 ELSE key
    BY DEF GetKey
  <1>8. code = 0 => found = {}
    OBVIOUS
  <1>9. HasKey(e) <=> code # 0
    BY DEF HasKey
  <1> HIDE DEF found, code, key
  <1>10. GetKey(code) # 0 <=> HasKey(e)
    BY <1>5, <1>6, <1>7, <1>8, <1>9
  <1> QED BY <1>10 DEF code

\* The one message of an event is put into the inbox when it happens, and is gone when the
\* daemon has handled it.
LEMMA OneEventStep ==
    ASSUME TypeOK, OneEvent, [Next]_vars
    PROVE  OneEvent'
  <1> USE DEF OneEvent
  <1>1. ASSUME UNCHANGED <<event, inbox>> PROVE OneEvent'
    BY <1>1
  <1>2. CASE AskLoginManager \/ GetProperties \/ InhibitSleep
    BY <1>1, <1>2 DEF AskLoginManager, GetProperties, InhibitSleep, outside
  <1>3. ASSUME NEW a \in Sleeps, CheckAuth(a) PROVE OneEvent'
    BY <1>1, <1>3 DEF CheckAuth, outside
  <1>4. CASE FreeData \/ CriticalBattery \/ LogindComesOrGoes
    BY <1>1, <1>4 DEF FreeData, CriticalBattery, LogindComesOrGoes, outside
  <1>5. ASSUME NEW a \in Actions, ClientCalls(a) PROVE OneEvent'
    BY <1>1, <1>5 DEF ClientCalls, outside
  <1>6. CASE Restart
    BY <1>6 DEF Restart
  <1>7. CASE Dispatch
    <2> DEFINE m == Head(inbox)
    <2>1. CASE HandlePolicy(m) \/ HandleSetting(m)
      <3>1. event' = event
        BY <2>1 DEF HandlePolicy, HandleSetting
      <3> QED BY <1>7, <3>1, DispatchKeeps
    <2>2. CASE HandleEvent(m)
      <3>1. m = inbox[1] /\ m.kind = "event" /\ 1 \in 1..Len(inbox)
        BY <1>7, <2>2, DispatchKeeps DEF HandleEvent
      <3>2. \A i \in 1..Len(inbox') : inbox'[i].kind # "event"
        BY <1>7, <3>1, DispatchKeeps
      <3>3. \A i \in 1..Len(inbox') : inbox'[i].kind = "setting" => inbox'[i].key \in Events
        BY <1>7, DispatchKeeps
      <3> QED BY <3>2, <3>3
    <2> QED BY <1>7, <2>1, <2>2 DEF Dispatch
  <1>8. ASSUME NEW m \in Messages, Send(m), m.kind # "event",
               m.kind = "setting" => m.key \in Events,
               event'.done = event.done, event'.key = event.key
        PROVE  OneEvent'
    BY <1>8, SendKeeps
  <1>9. CASE RulesChange
    <2>1. PolicyChanged \in Messages /\ PolicyChanged.kind = "policy"
      BY DEF PolicyChanged, Messages
    <2> QED BY <1>8, <1>9, <2>1 DEF RulesChange
  <1>10. ASSUME NEW e \in world.events, WriteSetting(e) PROVE OneEvent'
    <2>1. e \in Events
      BY LoginsAssumption DEF TypeOK, WorldTypes
    <2>2. /\ SettingChanged(e, e \in channel') \in Messages
          /\ SettingChanged(e, e \in channel').kind = "setting"
          /\ SettingChanged(e, e \in channel').key = e
      BY <2>1 DEF SettingChanged, Messages
    <2>3. event'.done = event.done /\ event'.key = event.key
      BY <1>10 DEF WriteSetting, TypeOK
    <2> QED BY <1>8, <1>10, <2>1, <2>2, <2>3 DEF WriteSetting
  <1>11. ASSUME NEW e \in world.events, HardwareEvent(e) PROVE OneEvent'
    <2>1. e \in Events
      BY LoginsAssumption DEF TypeOK, WorldTypes
    <2>2. Happened(e) \in Messages /\ Happened(e).kind = "event" /\ Happened(e).key = e
      BY <2>1 DEF Happened, Messages
    <2>3. \A i \in 1..Len(inbox) : inbox[i].kind # "event"
      BY <1>11 DEF HardwareEvent
    <2>4. event'.done = FALSE /\ event'.key = e
      BY <1>11 DEF HardwareEvent
    <2>5. \A i \in 1..Len(inbox') : inbox'[i].kind = "event" => i = Len(inbox) + 1
      BY <1>11, <2>2, <2>3, SendKeeps DEF HardwareEvent
    <2>6. inbox'[Len(inbox) + 1] = Happened(e)
      BY <1>11, <2>2, SendKeeps DEF HardwareEvent
    <2>7. \A i \in 1..Len(inbox') : inbox'[i].kind = "setting" => inbox'[i].key \in Events
      BY <1>11, <2>2, SendKeeps DEF HardwareEvent
    <2> QED BY <2>2, <2>4, <2>5, <2>6, <2>7
  <1>12. CASE UNCHANGED vars
    BY <1>1, <1>12 DEF vars, outside
  <1> QED BY <1>2, <1>3, <1>4, <1>5, <1>6, <1>7, <1>9, <1>10, <1>11, <1>12 DEF Next, Daemon

\* What logind did about a pending event stays what the settings say until the daemon has
\* handled it: a setting that changes ends the quiet, and the lock stays as it is.
LEMMA PendingStep ==
    ASSUME TypeOK, Locked, Pending, [Next]_vars
    PROVE  Pending'
  <1> USE DEF Pending
  <1>1. todo \in Seq(Steps)
    BY DEF TypeOK, Steps
  <1>2. ASSUME UNCHANGED <<event, conf, world>>,
               Waiting("setting")' => Waiting("setting"), Queued("inhibit")' => Queued("inhibit")
        PROVE  Pending'
    BY <1>2 DEF Logind
  <1>3. ASSUME NEW h, Now(h), Done, UNCHANGED <<event, inbox, conf, world>> PROVE Pending'
    <2>1. Queued("inhibit")' => Queued("inhibit")
      BY <1>1, <1>3, DoneKeeps DEF Steps
    <2> QED BY <1>2, <1>3, <2>1 DEF Waiting
  <1>4. ASSUME UNCHANGED <<event, inbox, conf, world, todo>> PROVE Pending'
    BY <1>2, <1>4 DEF Waiting, Queued
  <1>5. CASE AskLoginManager
    BY <1>3, <1>5 DEF AskLoginManager, outside, inhibitor
  <1>6. CASE GetProperties
    BY <1>3, <1>6 DEF GetProperties, outside, inhibitor
  <1>7. CASE InhibitSleep
    BY <1>3, <1>7 DEF InhibitSleep, outside
  <1>8. ASSUME NEW a \in Sleeps, CheckAuth(a) PROVE Pending'
    BY <1>3, <1>8 DEF CheckAuth, outside, inhibitor
  <1>9. CASE FreeData \/ CriticalBattery
    BY <1>4, <1>9 DEF FreeData, CriticalBattery, outside, inhibitor
  <1>10. ASSUME NEW a \in Actions, ClientCalls(a) PROVE Pending'
    BY <1>4, <1>10 DEF ClientCalls, outside, inhibitor
  <1>11. CASE LogindComesOrGoes
    BY <1>4, <1>11 DEF LogindComesOrGoes, inhibitor
  <1>12. CASE Restart
    BY <1>12 DEF Restart, NoEvent
  <1>13. CASE Dispatch
    <2> DEFINE m == Head(inbox)
    <2>1. world' = world /\ (Waiting("setting")' => Waiting("setting"))
      BY <1>13, DispatchKeeps DEF Dispatch
    <2>2. CASE HandlePolicy(m)
      <3>1. todo' = PolkitQuestions /\ UNCHANGED <<event, conf>>
        BY <2>2 DEF HandlePolicy, inhibitor
      <3>2. ~Queued("inhibit")'
        BY <3>1, Handlers DEF Queued
      <3> QED BY <1>2, <2>1, <3>1, <3>2
    <2>3. CASE HandleSetting(m)
      <3>1. event' = event /\ Waiting("setting")
        BY <1>13, <2>3, DispatchKeeps DEF HandleSetting
      <3> QED BY <3>1
    <2>4. CASE HandleEvent(m)
      <3>1. event'.done = TRUE
        BY <2>4 DEF HandleEvent, TypeOK
      <3> QED BY <3>1
    <2> QED BY <1>13, <2>2, <2>3, <2>4 DEF Dispatch
  <1>14. CASE RulesChange
    <2>1. PolicyChanged \in Messages /\ PolicyChanged.kind # "setting"
      BY DEF PolicyChanged, Messages
    <2>2. Waiting("setting")' => Waiting("setting")
      BY <1>14, <2>1, SendKeeps DEF RulesChange
    <2> QED BY <1>2, <1>14, <2>2 DEF RulesChange, inhibitor, Queued
  <1>15. ASSUME NEW e \in world.events, WriteSetting(e) PROVE Pending'
    <2>1. event'.done = event.done /\ event'.quiet = (event.done /\ event.quiet)
      BY <1>15 DEF WriteSetting, TypeOK
    <2> QED BY <2>1
  <1>16. ASSUME NEW e \in world.events, HardwareEvent(e) PROVE Pending'
    <2>1. e \in Events
      BY LoginsAssumption DEF TypeOK, WorldTypes
    <2>2. Happened(e) \in Messages /\ Happened(e).kind # "setting"
      BY <2>1 DEF Happened, Messages
    <2>3. UNCHANGED <<world, conf, todo>>
      BY <1>16 DEF HardwareEvent, inhibitor
    <2> SUFFICES ASSUME event'.quiet PROVE Pending'
      OBVIOUS
    <2>4. AtRest /\ ~Waiting("setting") /\ logindUp /\ (Logind /\ OurEvents # {} => fd # 0)
      BY <1>16 DEF HardwareEvent
    <2>5. ~Queued("inhibit") /\ ~Queued("inhibit")'
      BY <2>3, <2>4 DEF AtRest, Queued
    <2>6. ~Waiting("setting")'
      BY <1>16, <2>2, <2>4, SendKeeps DEF HardwareEvent
    <2>7. event'.key = e /\ event'.logind = (Logind /\ ~Blocked(e)) /\ (event'.ours => e \notin conf)
      BY <1>16, <2>4 DEF HardwareEvent
    <2>8. Logind => (Blocked(e) <=> e \notin conf)
      <3>1. CASE fd = 0 /\ locks = {}
        BY <2>1, <2>4, <3>1 DEF Blocked, OurEvents
      <3>2. CASE fd = 1 /\ Logind /\ locks = {[fd |-> 1, what |-> OurEvents]}
        BY <2>1, <3>2 DEF Blocked, OurEvents
      <3> QED BY <2>5, <3>1, <3>2 DEF Locked
    <2>9. Logind' = Logind
      BY <2>3 DEF Logind
    <2> QED BY <2>1, <2>3, <2>5, <2>6, <2>7, <2>8, <2>9
  <1>17. CASE UNCHANGED vars
    BY <1>4, <1>17 DEF vars, outside, inhibitor
  <1> QED BY <1>5, <1>6, <1>7, <1>8, <1>9, <1>10, <1>11, <1>12, <1>13, <1>14, <1>15, <1>16, <1>17
          DEF Next, Daemon

\* The daemon handles the pending event if logind did not.
LEMMA HandledStep ==
    ASSUME TypeOK, OneEvent, Pending, HandledOnce, [Next]_vars
    PROVE  HandledOnce'
  <1> USE DEF HandledOnce
  <1>1. ASSUME UNCHANGED <<event, world>> PROVE HandledOnce'
    BY <1>1 DEF HasKey
  <1>2. CASE AskLoginManager \/ GetProperties \/ InhibitSleep
    BY <1>1, <1>2 DEF AskLoginManager, GetProperties, InhibitSleep, outside
  <1>3. ASSUME NEW a \in Sleeps, CheckAuth(a) PROVE HandledOnce'
    BY <1>1, <1>3 DEF CheckAuth, outside
  <1>4. CASE FreeData \/ CriticalBattery \/ LogindComesOrGoes \/ RulesChange
    BY <1>1, <1>4 DEF FreeData, CriticalBattery, LogindComesOrGoes, RulesChange, outside
  <1>5. ASSUME NEW a \in Actions, ClientCalls(a) PROVE HandledOnce'
    BY <1>1, <1>5 DEF ClientCalls, outside
  <1>6. CASE Restart
    BY <1>6 DEF Restart, NoEvent
  <1>7. CASE Dispatch
    <2> DEFINE m == Head(inbox)
    <2>1. CASE HandlePolicy(m) \/ HandleSetting(m)
      BY <1>1, <1>7, <2>1 DEF Dispatch, HandlePolicy, HandleSetting
    <2>2. CASE HandleEvent(m)
      <3>1. world' = world /\ world \in WorldTypes
        BY <1>7, LoginsAssumption DEF Dispatch, TypeOK
      <3>2. ~event.done /\ m.key = event.key
        BY <1>7, <2>2, DispatchKeeps DEF HandleEvent, OneEvent
      <3>3. /\ event'.daemon = ActsOn(event.key)
            /\ event'.key = event.key /\ event'.quiet = event.quiet /\ event'.ours = event.ours
            /\ event'.logind = event.logind
        BY <2>2, <3>2 DEF HandleEvent, TypeOK
      <3> SUFFICES ASSUME event.quiet PROVE HandledOnce'
        BY <3>3
      <3>4. /\ event.key \in Events /\ event.logind = (Logind /\ event.key \in conf)
            /\ event.ours => event.key \notin conf
        BY <3>2 DEF Pending
      <3>5. CASE event.key = "lid-switch"
        <4>1. event'.daemon = ~event.logind
          BY <3>3, <3>4, <3>5 DEF ActsOn
        <4>2. event.logind \in BOOLEAN
          BY DEF TypeOK
        <4> QED BY <3>3, <3>5, <4>1, <4>2
      <3>6. CASE event.key # "lid-switch"
        <4>1. event.key \in Keys
          BY <3>4, <3>6 DEF Events
        <4>2. event'.daemon <=> HasKey(event.key)
          BY <3>1, <3>3, <3>6, <4>1, KeysFound DEF ActsOn
        <4>3. HasKey(event.key)' = HasKey(event.key)
          BY <3>1, <3>3 DEF HasKey
        <4> QED BY <3>3, <3>4, <3>6, <4>2, <4>3
      <3> QED BY <3>5, <3>6
    <2> QED BY <1>7, <2>1, <2>2 DEF Dispatch
  <1>8. ASSUME NEW e \in world.events, WriteSetting(e) PROVE HandledOnce'
    <2>1. /\ event'.daemon = event.daemon /\ event'.key = event.key
          /\ event'.quiet = (event.done /\ event.quiet) /\ event'.done = event.done
          /\ event'.ours = event.ours /\ event'.logind = event.logind /\ world' = world
      BY <1>8 DEF WriteSetting, TypeOK
    <2> QED BY <2>1 DEF HasKey
  <1>9. ASSUME NEW e \in world.events, HardwareEvent(e) PROVE HandledOnce'
    BY <1>9 DEF HardwareEvent
  <1>10. CASE UNCHANGED vars
    BY <1>1, <1>10 DEF vars, outside
  <1> QED BY <1>2, <1>3, <1>4, <1>5, <1>6, <1>7, <1>8, <1>9, <1>10 DEF Next, Daemon

-----------------------------------------------------------------------------
(* Types. *)

\* The handlers' calls and the messages, as the types of todo and inbox say them.
LEMMA TypesAre ==
    ASSUME TypeOK
    PROVE  /\ todo \in Seq(Steps) /\ inbox \in Seq(Messages)
           /\ world \in WorldTypes /\ world.events \subseteq Events
           /\ Rules \subseteq SUBSET Actions
  BY LoginsAssumption DEF TypeOK, Steps, Messages, WorldTypes

\* What polkit answers is a set of actions, and so are the flags made of it.
LEMMA AnswersAre ==
    ASSUME TypeOK
    PROVE  /\ \A yes \in Answers : yes \subseteq Actions
           /\ ConsoleKitAnswers \subseteq Actions /\ CanSleep \subseteq Sleeps
  <1>1. allowed \subseteq Actions
    BY DEF TypeOK
  <1>2. world.supports \subseteq Sleeps
    BY TypesAre DEF WorldTypes
  <1> QED BY <1>1, <1>2 DEF Answers, ConsoleKitAnswers, CanSleep

LEMMA TypeStep ==
    ASSUME TypeOK, TimerFindsSubject', Locked, OneEvent, [Next]_vars
    PROVE  TypeOK'
  <1>0. /\ channel \subseteq Events /\ conf \subseteq Events /\ allowed \subseteq Actions
        /\ auth \subseteq Sleeps /\ can \subseteq Sleeps /\ subject \in BOOLEAN
        /\ logindUp \in BOOLEAN /\ changes \in Nat
        /\ locks \subseteq [fd : Nat, what : SUBSET Events]
        /\ event \in [key : Events \cup {"none"}, quiet : BOOLEAN, ours : BOOLEAN,
                      logind : BOOLEAN, daemon : BOOLEAN, done : BOOLEAN]
    BY DEF TypeOK
  <1>1. /\ todo \in Seq(Steps) /\ inbox \in Seq(Messages)
        /\ world \in WorldTypes /\ world.events \subseteq Events
        /\ Rules \subseteq SUBSET Actions
    BY TypesAre
  <1>2. timers' \in Nat
    BY DEF TimerFindsSubject
  <1>3. ASSUME NEW h, Now(h), Done PROVE todo' \in Seq(Steps)
    BY <1>1, <1>3, DoneKeeps
  <1>4. ASSUME NEW m \in Messages, Send(m) PROVE inbox' \in Seq(Messages)
    BY <1>4, SendKeeps
  <1>5. Sleeps \subseteq Actions
    BY DEF Actions
  <1>6. ASSUME InitData PROVE subject' \in BOOLEAN
    BY <1>0, <1>6 DEF InitData
  <1>7. CASE AskLoginManager
    <2>1. todo' \in Seq(Steps)
      BY <1>3, <1>7 DEF AskLoginManager
    <2>2. granted' \subseteq Actions /\ subject' \in BOOLEAN
      BY <1>0, <1>6, <1>7, AnswersAre DEF AskLoginManager
    <2> QED BY <1>2, <1>7, <2>1, <2>2 DEF AskLoginManager, outside, inhibitor, Steps, TypeOK
  <1>8. CASE GetProperties
    <2>1. todo' \in Seq(Steps) /\ can' \subseteq Sleeps
      BY <1>3, <1>8, AnswersAre DEF GetProperties
    <2> QED BY <1>8, <2>1 DEF GetProperties, outside, inhibitor, Steps, TypeOK
  <1>9. ASSUME NEW a \in Sleeps, CheckAuth(a) PROVE TypeOK'
    <2>1. todo' \in Seq(Steps) /\ subject' \in BOOLEAN
      BY <1>0, <1>3, <1>6, <1>9 DEF CheckAuth
    <2>2. auth' \subseteq Sleeps
      BY <1>0, <1>9 DEF CheckAuth
    <2> QED BY <1>2, <1>9, <2>1, <2>2 DEF CheckAuth, outside, inhibitor, Steps, TypeOK
  <1>10. CASE InhibitSleep
    <2>1. todo' \in Seq(Steps)
      BY <1>10, LockTaken
    <2>2. OurEvents \subseteq Events
      BY DEF OurEvents
    <2>3. fd' \in Nat /\ locks' \subseteq [fd : Nat, what : SUBSET Events]
      BY <1>10, <2>2, LockTaken
    <2> QED BY <1>10, <2>1, <2>3 DEF InhibitSleep, outside, rights, Steps, TypeOK
  <1>11. CASE Dispatch
    <2> DEFINE m == Head(inbox)
    <2>1. inbox' \in Seq(Messages) /\ m \in Messages
      BY <1>11, DispatchKeeps
    <2>2. UNCHANGED <<world, allowed, channel, logindUp, changes>>
      BY <1>11 DEF Dispatch
    <2>3. CASE HandlePolicy(m)
      <3>1. todo' \in Seq(Steps)
        BY <2>3, Handlers DEF HandlePolicy
      <3> QED BY <2>1, <2>2, <2>3, <3>1 DEF HandlePolicy, rights, inhibitor, Steps, Messages, TypeOK
    <2>4. CASE HandleSetting(m)
      <3>1. m.key \in Events
        BY <1>11, <2>4, DispatchKeeps DEF HandleSetting, OneEvent
      <3>2. todo' \in Seq(Steps) /\ locks' \subseteq locks /\ fd' = fd
        BY <2>4 DEF HandleSetting, SystemdEventsChanged, Close, Steps
      <3>3. conf' \subseteq Events
        BY <1>0, <2>4, <3>1 DEF HandleSetting
      <3>4. UNCHANGED <<event, granted, can, auth, subject, timers, answer>>
        BY <2>4 DEF HandleSetting, rights
      <3> QED BY <2>1, <2>2, <3>2, <3>3, <3>4 DEF Steps, Messages, TypeOK
    <2>5. CASE HandleEvent(m)
      <3>1. ActsOn(m.key) \in BOOLEAN
        BY DEF ActsOn
      <3>2. can' \subseteq Sleeps
        BY <1>0, <2>5, AnswersAre DEF HandleEvent
      <3>3. event' \in [key : Events \cup {"none"}, quiet : BOOLEAN, ours : BOOLEAN,
                        logind : BOOLEAN, daemon : BOOLEAN, done : BOOLEAN]
        BY <1>0, <2>5, <3>1 DEF HandleEvent
      <3> QED BY <2>1, <2>2, <2>5, <3>2, <3>3 DEF HandleEvent, inhibitor, Messages, TypeOK
    <2> QED BY <1>11, <2>3, <2>4, <2>5 DEF Dispatch
  <1>12. CASE FreeData
    BY <1>2, <1>12 DEF FreeData, outside, inhibitor, TypeOK
  <1>13. CASE CriticalBattery
    <2>1. Offers \subseteq Actions
      BY <1>0, <1>5 DEF Offers, Actions
    <2> QED BY <1>13, <2>1 DEF CriticalBattery, Answer, outside, rights, inhibitor, TypeOK
  <1>14. CASE Restart
    <2>1. todo' \in Seq(Steps) /\ inbox' \in Seq(Messages) /\ changes' \in Nat
      BY <1>0, <1>14, Handlers DEF Restart
    <2>2. locks' \subseteq locks /\ fd' = 0
      BY <1>14 DEF Restart, Close
    <2> QED BY <1>2, <1>14, <2>1, <2>2
            DEF Restart, DropSubject, NoAnswer, NoEvent, Steps, Messages, TypeOK
  <1>15. ASSUME NEW a \in Actions, ClientCalls(a) PROVE TypeOK'
    <2>1. SleepOutcome(a) \in {"permission denied", "not supported", "done"}
      BY DEF SleepOutcome
    <2>2. ShutdownOutcome(a) \in {"permission denied", "not supported", "done"}
      BY DEF ShutdownOutcome
    <2> QED BY <1>15, <2>1, <2>2 DEF ClientCalls, Answer, outside, rights, inhibitor, TypeOK
  <1>16. CASE RulesChange
    <2>1. PolicyChanged \in Messages
      BY DEF PolicyChanged, Messages
    <2>2. inbox' \in Seq(Messages) /\ changes' \in Nat /\ allowed' \subseteq Actions
      BY <1>0, <1>1, <1>4, <1>16, <2>1 DEF RulesChange, Changes
    <2> QED BY <1>16, <2>2 DEF RulesChange, rights, inhibitor, Messages, TypeOK
  <1>17. CASE LogindComesOrGoes
    <2>1. changes' \in Nat /\ logindUp' \in BOOLEAN
      BY <1>0, <1>17 DEF LogindComesOrGoes, Changes
    <2> QED BY <1>17, <2>1 DEF LogindComesOrGoes, rights, inhibitor, TypeOK
  <1>18. ASSUME NEW e \in world.events, WriteSetting(e) PROVE TypeOK'
    <2>1. e \in Events
      BY <1>1
    <2>2. SettingChanged(e, e \in channel') \in Messages
      BY <2>1 DEF SettingChanged, Messages
    <2>3. inbox' \in Seq(Messages) /\ changes' \in Nat /\ channel' \subseteq Events
      BY <1>0, <1>4, <1>18, <2>1, <2>2 DEF WriteSetting, Changes
    <2>4. event' \in [key : Events \cup {"none"}, quiet : BOOLEAN, ours : BOOLEAN,
                      logind : BOOLEAN, daemon : BOOLEAN, done : BOOLEAN]
      BY <1>0, <1>18 DEF WriteSetting
    <2> QED BY <1>18, <2>3, <2>4 DEF WriteSetting, rights, inhibitor, Messages, TypeOK
  <1>19. ASSUME NEW e \in world.events, HardwareEvent(e) PROVE TypeOK'
    <2>1. e \in Events
      BY <1>1
    <2>2. Happened(e) \in Messages
      BY <2>1 DEF Happened, Messages
    <2>3. inbox' \in Seq(Messages)
      BY <1>4, <1>19, <2>2 DEF HardwareEvent
    <2>4. event' \in [key : Events \cup {"none"}, quiet : BOOLEAN, ours : BOOLEAN,
                      logind : BOOLEAN, daemon : BOOLEAN, done : BOOLEAN]
      BY <1>0, <1>19, <2>1 DEF HardwareEvent, AtRest, Blocked
    <2> QED BY <1>19, <2>3, <2>4 DEF HardwareEvent, rights, inhibitor, Messages, TypeOK
  <1>20. CASE UNCHANGED vars
    BY <1>20 DEF vars, outside, rights, inhibitor, TypeOK
  <1> QED BY <1>7, <1>8, <1>9, <1>10, <1>11, <1>12, <1>13, <1>14, <1>15, <1>16, <1>17, <1>18, <1>19,
             <1>20 DEF Next, Daemon

-----------------------------------------------------------------------------
(* The invariant, and what follows from it. *)

LEMMA InitInvariant == Init => IInv
  <1> SUFFICES ASSUME Init PROVE IInv
    OBVIOUS
  <1> USE DEF Init, InitManager, InitPower, InitPolkit
  <1>1. world \in WorldTypes /\ allowed \subseteq Actions
    BY LoginsAssumption
  <1>2. TypeOK
    <2>1. {channel, conf} \subseteq SUBSET Events
      BY <1>1 DEF WorldTypes
    <2>2. todo \in Seq(Steps) /\ inbox \in Seq(Messages)
      BY Handlers
    <2>3. /\ event \in [key : Events \cup {"none"}, quiet : BOOLEAN, ours : BOOLEAN,
                        logind : BOOLEAN, daemon : BOOLEAN, done : BOOLEAN]
          /\ answer \in [asked : {"nothing", "battery", "client"}, of : SUBSET Actions,
               outcome : {"none", "offered", "permission denied", "not supported", "done"}]
      BY DEF NoEvent, NoAnswer
    <2> QED BY <1>1, <2>1, <2>2, <2>3 DEF TypeOK, Steps, Messages
  <1>3. \A s \in {"inhibit", "suspend", "hibernate"} : Queued(s)
    BY Handlers DEF Queued
  <1>4. Locked
    BY <1>3, Handlers DEF Locked
  <1>5. OneEvent /\ Pending /\ HandledOnce
    BY DEF OneEvent, Pending, HandledOnce, NoEvent
  <1>6. Asked /\ Capable
    BY <1>3 DEF Asked, Capable, Sleeps
  <1>8. LoginFirst
    BY Handlers DEF LoginFirst
  <1>7. TimerFindsSubject
    BY DEF TimerFindsSubject
  <1> QED BY <1>2, <1>4, <1>5, <1>6, <1>7, <1>8 DEF IInv

LEMMA Inductive == IInv /\ [Next]_vars => IInv'
  <1> SUFFICES ASSUME IInv, [Next]_vars PROVE IInv'
    OBVIOUS
  <1>1. TypeOK /\ TimerFindsSubject /\ Locked /\ OneEvent /\ Pending /\ HandledOnce /\ Asked
       /\ LoginFirst /\ Capable
    BY DEF IInv
  <1>2. TimerFindsSubject'
    BY <1>1, TimerStep
  <1>3. TypeOK'
    BY <1>1, <1>2, TypeStep
  <1>4. Locked'
    BY <1>1, LockedStep
  <1>5. OneEvent' /\ Pending' /\ HandledOnce'
    BY <1>1, OneEventStep, PendingStep, HandledStep
  <1>6. Asked' /\ LoginFirst' /\ Capable'
    BY <1>1, AskedStep, LoginFirstStep, CapableStep
  <1> QED BY <1>2, <1>3, <1>4, <1>5, <1>6 DEF IInv

LEMMA Invariant == Spec => []IInv
  <1>1. Init => IInv
    BY InitInvariant
  <1>2. IInv /\ [Next]_vars => IInv'
    BY Inductive
  <1> QED BY <1>1, <1>2, PTL DEF Spec

\* Every variable of the daemon, the login manager and polkit keeps its type.
THEOREM TypeCorrect == Spec => []TypeOK
  <1>1. IInv => TypeOK
    BY DEF IInv
  <1> QED BY <1>1, Invariant, PTL

\* The lid is handled by logind or by the daemon but not by both, and a key that is left to the
\* daemon by the daemon alone: on every machine, however the lock was closed and taken again.
THEOREM EventsHandledOnce == Spec => []HandledOnce
  <1>1. IInv => HandledOnce
    BY DEF IInv
  <1> QED BY <1>1, Invariant, PTL

\* Once it has heard of every change, the daemon takes for authorised what polkit's rules
\* allow, whatever the rules are and between whichever questions they changed.
THEOREM AuthAlwaysFollows == Spec => []AuthFollowsRules
  <1>1. IInv => AuthFollowsRules
    <2> SUFFICES ASSUME IInv, AtRest, ~Waiting("policy")
                 PROVE  /\ auth \subseteq allowed
                        /\ "polkit" \notin world.others => allowed \cap Sleeps \subseteq auth
      BY DEF AuthFollowsRules
    <2>1. auth \subseteq Sleeps
      BY DEF IInv, TypeOK
    <2>2. \A a \in Sleeps : ~Queued(a)
      BY DEF AtRest, Queued
    <2> QED BY <2>1, <2>2 DEF IInv, Asked
  <1> QED BY <1>1, Invariant, PTL

\* g_assert (subject_valid) in blpm_polkit_free_data holds whenever a timer expires, and a
\* subject is never left without the timer that frees it.
THEOREM TimerAlwaysFinds == Spec => []TimerFindsSubject
  <1>1. IInv => TimerFindsSubject
    BY DEF IInv
  <1> QED BY <1>1, Invariant, PTL

\* What the warning of a critical battery offers when it is shown, and what D-Bus's Suspend and
\* Hibernate start, is no sleep that the rules forbade in all the daemon has heard, that logind
\* did not grant at the start, or that, without logind, the machine is not capable of.  (Keys,
\* lid, idle alarm, critical action and the buttons of an old warning look at none of this.)
THEOREM OffersAlwaysAllowed == Spec => OffersAreAllowed
  <1> DEFINE Justified ==
        answer' # answer /\ answer'.outcome \in {"offered", "done"} =>
         \A a \in answer'.of \cap Sleeps :
            /\ a \in allowed \/ Waiting("policy")
            /\ a \in IF Logind THEN granted ELSE world.supports
  <1>1. IInv /\ [Next]_vars => [Justified]_vars
    <2> SUFFICES ASSUME IInv, Next PROVE Justified
      BY DEF vars
    <2>1. ASSUME answer' = answer PROVE Justified
      BY <2>1
    <2>2. ASSUME AtRest, NEW a \in Sleeps, a \in auth, a \in can
          PROVE  /\ a \in allowed \/ Waiting("policy")
                 /\ a \in IF Logind THEN granted ELSE world.supports
      <3>1. ~Queued(a)
        BY <2>2 DEF AtRest, Queued
      <3> QED BY <2>2, <3>1 DEF IInv, Asked, Capable
    <2>3. CASE AskLoginManager \/ GetProperties \/ InhibitSleep
      BY <2>1, <2>3 DEF AskLoginManager, GetProperties, InhibitSleep
    <2>4. ASSUME NEW a \in Sleeps, CheckAuth(a) PROVE Justified
      BY <2>1, <2>4 DEF CheckAuth
    <2>5. CASE Dispatch
      BY <2>1, <2>5 DEF Dispatch, HandlePolicy, HandleSetting, HandleEvent
    <2>6. CASE FreeData \/ RulesChange \/ LogindComesOrGoes
      BY <2>1, <2>6 DEF FreeData, RulesChange, LogindComesOrGoes
    <2>7. CASE CriticalBattery
      <3>1. AtRest /\ answer'.of = Offers
        BY <2>7 DEF CriticalBattery, Answer
      <3>2. Offers \cap Sleeps \subseteq can \cap auth
        BY DEF Offers, Sleeps
      <3> QED BY <2>2, <3>1, <3>2
    <2>8. CASE Restart
      BY <2>8 DEF Restart, NoAnswer
    <2>9. ASSUME NEW a \in Actions, ClientCalls(a) PROVE Justified
      <3>1. /\ AtRest /\ answer'.of = {a}
            /\ a \in Sleeps => answer'.outcome = SleepOutcome(a)
        BY <2>9 DEF ClientCalls, Answer
      <3>2. a \in Sleeps /\ SleepOutcome(a) = "done" => a \in auth /\ a \in can
        BY DEF SleepOutcome
      <3>3. SleepOutcome(a) # "offered"
        BY DEF SleepOutcome
      <3> QED BY <2>2, <3>1, <3>2, <3>3
    <2>10. ASSUME NEW e \in world.events, WriteSetting(e) \/ HardwareEvent(e) PROVE Justified
      BY <2>1, <2>10 DEF WriteSetting, HardwareEvent
    <2> QED BY <2>3, <2>4, <2>5, <2>6, <2>7, <2>8, <2>9, <2>10 DEF Next, Daemon
  <1>2. [][Justified]_vars => OffersAreAllowed
    BY DEF OffersAreAllowed
  <1> QED BY <1>1, <1>2, Invariant, PTL DEF Spec
=============================================================================
