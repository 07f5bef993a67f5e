------------------------------ MODULE IdleProofs ------------------------------
(* For every bound, every level and every world: the types, the way back of a *)
(* dimmed screen, and the idle sleep that waits for its time.                 *)
EXTENDS Idle, FiniteSetTheorems, SequenceTheorems, TLAPS

Events == [id : Alarms \cup Keys \cup {"reset", "stale"}, counter : 0..MaxIdle]

\* An alarm's event carries the idle time it triggered at.
Counted == \A i \in 1..Len(events) : events[i].id \in Alarms => events[i].counter >= 1

\* What is needed of the queue for the idle sleep: the source is known while there is something
\* to handle, and the alarm of that source is there once, in its time.
SourceKnown == asleep \/ events # <<>> => onBattery = ~acPlugged
InTime ==
    \A i \in 1..Len(events) : events[i].id = SleepAlarm =>
        /\ ~asleep /\ idle >= timeout[SleepAlarm]
        /\ \A j \in 1..Len(events) : events[j].id = SleepAlarm => i = j

Timely == KeepsUp => SourceKnown /\ InTime

IInv == TypeOK /\ Counted /\ DimmedHasReset /\ Timely

-----------------------------------------------------------------------------
(* The queue. *)

LEMMA TailOf ==
    ASSUME NEW q \in Seq(Events), q # <<>>
    PROVE  /\ Tail(q) \in Seq(Events) /\ Len(q) \in Nat \ {0} /\ Len(Tail(q)) = Len(q) - 1
           /\ Head(q) \in Events /\ Head(q) = q[1] /\ 1 \in 1..Len(q)
           /\ \A i \in 1..Len(Tail(q)) : i + 1 \in 1..Len(q) /\ Tail(q)[i] = q[i + 1]
  OBVIOUS

LEMMA ForgetOf ==
    ASSUME NEW q \in Seq(Events), NEW id
    PROVE  /\ Forget(q, id) \in Seq(Events) /\ Len(Forget(q, id)) = Len(q)
           /\ \A i \in 1..Len(q) :
                /\ Forget(q, id)[i].counter = q[i].counter
                /\ Forget(q, id)[i].id \in {q[i].id, "stale"}
  <1> DEFINE e(i) == IF q[i].id = id THEN [q[i] EXCEPT !.id = "stale"] ELSE q[i]
  <1>1. Forget(q, id) = [i \in 1..Len(q) |-> e(i)] /\ Len(q) \in Nat
    BY DEF Forget
  <1>2. ASSUME NEW i \in 1..Len(q)
        PROVE  e(i) \in Events /\ e(i).counter = q[i].counter /\ e(i).id \in {q[i].id, "stale"}
    <2>1. q[i] \in Events
      OBVIOUS
    <2> QED BY <2>1 DEF Events
  <1> HIDE DEF e
  <1>3. [i \in 1..Len(q) |-> e(i)] \in Seq(Events) /\ Len([i \in 1..Len(q) |-> e(i)]) = Len(q)
    BY <1>1, <1>2
  <1> QED BY <1>1, <1>2, <1>3

\* What the X server appends.
LEMMA AppendOf ==
    ASSUME NEW q \in Seq(Events), NEW s \in Seq(Events)
    PROVE  /\ q \o s \in Seq(Events) /\ Len(q) \in Nat /\ Len(s) \in Nat
           /\ \A i \in 1..Len(q \o s) :
                \/ i \in 1..Len(q) /\ (q \o s)[i] = q[i]
                \/ i - Len(q) \in 1..Len(s) /\ (q \o s)[i] = s[i - Len(q)]
  <1>1. /\ q \o s \in Seq(Events) /\ Len(q \o s) = Len(q) + Len(s)
        /\ \A i \in 1..Len(q) + Len(s) : (q \o s)[i] = IF i <= Len(q) THEN q[i] ELSE s[i - Len(q)]
    BY ConcatProperties, Zenon
  <1>2. Len(q) \in Nat /\ Len(s) \in Nat
    OBVIOUS
  <1> DEFINE c == q \o s
  <1>3. /\ c \in Seq(Events) /\ Len(c) = Len(q) + Len(s)
        /\ \A i \in 1..Len(q) + Len(s) : c[i] = IF i <= Len(q) THEN q[i] ELSE s[i - Len(q)]
    BY <1>1
  <1> HIDE DEF c
  <1>4. \A i \in 1..Len(c) : \/ i \in 1..Len(q) /\ c[i] = q[i]
                             \/ i - Len(q) \in 1..Len(s) /\ c[i] = s[i - Len(q)]
    BY <1>2, <1>3
  <1> QED BY <1>2, <1>3, <1>4 DEF c

LEMMA ResetsOf ==
    ASSUME TypeOK
    PROVE  /\ ResetEvents \in Seq(Events)
           /\ \A i \in 1..Len(ResetEvents) : ResetEvents[i].id = "reset"
           /\ \A k \in Keys : /\ <<[id |-> k, counter |-> 0]>> \in Seq(Events)
                               /\ \A i \in 1..Len(<<[id |-> k, counter |-> 0]>>) :
                                    <<[id |-> k, counter |-> 0]>>[i].id = k
  <1>1. ASSUME NEW k \in Keys \cup {"reset"}
        PROVE  /\ <<[id |-> k, counter |-> 0]>> \in Seq(Events)
               /\ \A i \in 1..Len(<<[id |-> k, counter |-> 0]>>) :
                    <<[id |-> k, counter |-> 0]>>[i].id = k
    <2> DEFINE e == [id |-> k, counter |-> 0]
    <2>1. e \in Events /\ e.id = k
      BY IdleAssumption DEF Events
    <2> HIDE DEF e
    <2>2. <<e>> \in Seq(Events) /\ \A i \in 1..Len(<<e>>) : <<e>>[i] = e
      BY <2>1
    <2> QED BY <2>1, <2>2 DEF e
  <1>2. <<>> \in Seq(Events) /\ Len(<<>>) = 0
    OBVIOUS
  <1>3. /\ ResetEvents \in Seq(Events)
        /\ \A i \in 1..Len(ResetEvents) : ResetEvents[i].id = "reset"
    <2>1. CASE resetAt # Disarmed /\ idle > resetAt
      <3>1. ResetEvents = <<[id |-> "reset", counter |-> 0]>>
        BY <2>1 DEF ResetEvents
      <3> QED BY <1>1, <3>1
    <2>2. CASE ~(resetAt # Disarmed /\ idle > resetAt)
      BY <1>2, <2>2 DEF ResetEvents
    <2> QED BY <2>1, <2>2
  <1> QED BY <1>1, <1>3

LEMMA DueOf ==
    ASSUME TypeOK, idle < MaxIdle, NEW due \in SUBSET Alarms, NEW order \in SetToSeqs(due),
           NEW s, s = [i \in DOMAIN order |-> [id |-> order[i], counter |-> idle + 1]]
    PROVE  /\ s \in Seq(Events)
           /\ \A i \in 1..Len(s) : s[i].id \in due /\ s[i].counter = idle + 1
           /\ \A i, j \in 1..Len(s) : s[i].id = s[j].id => i = j
           /\ \A a \in due : \E i \in 1..Len(s) : s[i].id = a
  <1> DEFINE n == Cardinality(due)
  <1>1. n \in Nat /\ IsFiniteSet(due)
    <2>1. Alarms = {"dimOnAc", "dimOnBattery", "sleepOnAc", "sleepOnBattery"}
      BY DEF Alarms, DimAlarms, SleepAlarms
    <2>2. IsFiniteSet({"dimOnAc", "dimOnBattery", "sleepOnAc", "sleepOnBattery"})
      <3>1. IsFiniteSet({"dimOnAc"})
        BY FS_Singleton
      <3>2. IsFiniteSet({"dimOnAc"} \cup {"dimOnBattery"})
        BY <3>1, FS_AddElement
      <3>3. IsFiniteSet({"dimOnAc"} \cup {"dimOnBattery"} \cup {"sleepOnAc"})
        BY <3>2, FS_AddElement
      <3>4. IsFiniteSet({"dimOnAc"} \cup {"dimOnBattery"} \cup {"sleepOnAc"} \cup {"sleepOnBattery"})
        BY <3>3, FS_AddElement
      <3>5. {"dimOnAc"} \cup {"dimOnBattery"} \cup {"sleepOnAc"} \cup {"sleepOnBattery"}
            = {"dimOnAc", "dimOnBattery", "sleepOnAc", "sleepOnBattery"}
        OBVIOUS
      <3> QED BY <3>4, <3>5
    <2> QED BY <2>1, <2>2, FS_Subset, FS_CardinalityType
  <1>2. /\ order \in [1..n -> due]
        /\ \A i, j \in 1..n : i # j => order[i] # order[j]
    BY DEF SetToSeqs
  \* As many places as alarms that are due: each of them is there.
  <1>s. \A a \in due : \E i \in 1..n : order[i] = a
    <2>1. order \in Injection(1..n, due)
      BY <1>2 DEF Injection, IsInjective
    <2>2. IsFiniteSet(1..n) /\ Cardinality(1..n) = n
      BY <1>1, FS_Interval
    <2>3. order \in Surjection(1..n, due)
      BY <1>1, <2>1, <2>2, FS_Injection
    <2> QED BY <2>3 DEF Surjection
  <1> HIDE DEF n
  <1>3. DOMAIN order = 1..n /\ \A i \in 1..n : [id |-> order[i], counter |-> idle + 1] \in Events
    BY <1>2, IdleAssumption DEF TypeOK, Events
  <1>4. s \in Seq(Events) /\ Len(s) = n /\ \A i \in 1..n : s[i].id = order[i] /\ s[i].counter = idle + 1
    BY <1>1, <1>3
  <1>5. \A i \in 1..n : order[i] \in due
    BY <1>2
  <1>6. /\ \A i \in 1..Len(s) : s[i].id \in due /\ s[i].counter = idle + 1
        /\ \A i, j \in 1..Len(s) : s[i].id = s[j].id => i = j
    BY <1>2, <1>4, <1>5
  <1>7. \A a \in due : \E i \in 1..Len(s) : s[i].id = a
    BY <1>s, <1>4
  <1> QED BY <1>4, <1>6, <1>7

\* What is written to the screen is a level of its range.
LEMMA LevelsOf ==
    ASSUME TypeOK
    PROVE  /\ \A l, m \in Levels : Written(l, m) \subseteq Levels
           /\ Restored \subseteq Levels
           /\ \A b \in BOOLEAN : DimLevels[b] \in Levels
           /\ level \in Levels /\ lastLevel \in Levels /\ savedLevel \in Levels
  <1>1. level \in Levels /\ lastLevel \in Levels /\ savedLevel \in Levels
    BY DEF TypeOK
  <1>2. \A l, m \in Levels : Written(l, m) \subseteq Levels
    BY DEF Written
  <1> QED BY <1>1, <1>2, IdleAssumption DEF Restored

-----------------------------------------------------------------------------
(* What the steps make of the queue. *)

\* The handlers take an event from the front; it is the first one's.
LEMMA HandlesOf ==
    ASSUME TypeOK, NEW id, Handles(id)
    PROVE  /\ events \in Seq(Events) /\ events # <<>> /\ ~asleep
           /\ 1 \in 1..Len(events) /\ Head(events) = events[1] /\ events[1].id = id
           /\ events[1] \in Events /\ Tail(events) \in Seq(Events)
  <1>1. events \in Seq(Events) /\ events # <<>> /\ ~asleep /\ Head(events).id = id
    BY DEF TypeOK, Events, Handles
  <1> QED BY <1>1, TailOf

LEMMA HandledOf ==
    ASSUME TypeOK, events # <<>>, events' = Tail(events) \/ events' = Forget(Tail(events), "reset")
    PROVE  /\ events' \in Seq(Events)
           /\ \A i \in 1..Len(events') :
                /\ i + 1 \in 1..Len(events)
                /\ events'[i].counter = events[i + 1].counter
                /\ events'[i].id \in {events[i + 1].id, "stale"}
  <1>1. events \in Seq(Events)
    BY DEF TypeOK, Events
  <1> DEFINE t == Tail(events)
  <1>2. /\ t \in Seq(Events)
        /\ \A i \in 1..Len(t) : i + 1 \in 1..Len(events) /\ t[i] = events[i + 1]
    BY <1>1, TailOf
  <1> HIDE DEF t
  <1>3. CASE events' = t
    BY <1>2, <1>3
  <1>4. CASE events' = Forget(t, "reset")
    BY <1>2, <1>4, ForgetOf
  <1> QED BY <1>3, <1>4 DEF t

LEMMA QueueStep ==
    ASSUME TypeOK, Counted, Next
    PROVE  events' \in Seq(Events) /\ Counted'
  <1>1. events \in Seq(Events) /\ Len(events) \in Nat /\ idle \in Nat /\ MaxIdle \in Nat
    BY IdleAssumption DEF TypeOK, Events
  <1>2. ASSUME UNCHANGED events PROVE events' \in Seq(Events) /\ Counted'
    BY <1>1, <1>2 DEF Counted
  <1>3. ASSUME NEW id, Handles(id), events' = Tail(events) \/ events' = Forget(Tail(events), "reset")
        PROVE  events' \in Seq(Events) /\ Counted'
    BY <1>3, HandlesOf, HandledOf DEF Counted, Alarms, DimAlarms, SleepAlarms
  <1>4. ASSUME NEW id, events' = Forget(events, id) PROVE events' \in Seq(Events) /\ Counted'
    BY <1>1, <1>4, ForgetOf DEF Counted, Alarms, DimAlarms, SleepAlarms
  <1>5. ASSUME NEW q \in Seq(Events), NEW s \in Seq(Events),
               \A i \in 1..Len(q) : q[i].id \in Alarms => q[i].counter >= 1,
               \A i \in 1..Len(s) : s[i].id \in Alarms => s[i].counter >= 1
        PROVE  /\ q \o s \in Seq(Events)
               /\ \A i \in 1..Len(q \o s) : (q \o s)[i].id \in Alarms => (q \o s)[i].counter >= 1
    <2> DEFINE c == q \o s
    <2>1. /\ c \in Seq(Events)
          /\ \A i \in 1..Len(c) : \/ i \in 1..Len(q) /\ c[i] = q[i]
                                  \/ i - Len(q) \in 1..Len(s) /\ c[i] = s[i - Len(q)]
      BY AppendOf
    <2> HIDE DEF c
    <2>2. \A i \in 1..Len(c) : c[i].id \in Alarms => c[i].counter >= 1
      BY <1>5, <2>1
    <2> QED BY <2>1, <2>2 DEF c
  <1>6. /\ ResetEvents \in Seq(Events)
        /\ \A i \in 1..Len(ResetEvents) : ResetEvents[i].id \in Alarms => ResetEvents[i].counter >= 1
    BY ResetsOf DEF Alarms, DimAlarms, SleepAlarms
  <1>7. \A i \in 1..Len(events) : events[i].id \in Alarms => events[i].counter >= 1
    BY DEF Counted
  <1>8. CASE Tick
    <2> DEFINE due == {a \in Alarms : timeout[a] = idle + 1}
    <2>1. idle < MaxIdle /\ due \subseteq Alarms
      BY <1>8 DEF Tick
    <2>2. PICK order \in SetToSeqs(due) :
            events' = events \o [i \in DOMAIN order |-> [id |-> order[i], counter |-> idle + 1]]
      BY <1>8 DEF Tick
    <2> DEFINE s == [i \in DOMAIN order |-> [id |-> order[i], counter |-> idle + 1]]
    <2> HIDE DEF due
    <2>3. events' = events \o s /\ s = [i \in DOMAIN order |-> [id |-> order[i], counter |-> idle + 1]]
      BY <2>2
    <2> HIDE DEF s
    <2>4. s \in Seq(Events) /\ \A i \in 1..Len(s) : s[i].counter = idle + 1
      BY <2>1, <2>3, DueOf
    <2>5. \A i \in 1..Len(s) : s[i].id \in Alarms => s[i].counter >= 1
      BY <1>1, <2>4
    <2> QED BY <1>1, <1>5, <1>7, <2>4, <2>3, <2>5 DEF Counted
  <1>9. CASE Activity
    <2>1. events' = events \o ResetEvents
      BY <1>9 DEF Activity
    <2> QED BY <1>1, <1>5, <1>6, <1>7, <2>1 DEF Counted
  <1>10. ASSUME NEW k \in Keys, KeyPressed(k) PROVE events' \in Seq(Events) /\ Counted'
    <2> DEFINE key == <<[id |-> k, counter |-> 0]>>
    <2>1. key \in Seq(Events) /\ \A i \in 1..Len(key) : key[i].id \in Alarms => key[i].counter >= 1
      BY ResetsOf DEF Alarms, DimAlarms, SleepAlarms, Keys
    <2>2. events' = events \o ResetEvents \o key \/ events' = events \o key \o ResetEvents
      BY <1>10 DEF KeyPressed
    <2> HIDE DEF key
    <2>3. /\ events \o ResetEvents \in Seq(Events)
          /\ \A i \in 1..Len(events \o ResetEvents) :
               (events \o ResetEvents)[i].id \in Alarms => (events \o ResetEvents)[i].counter >= 1
      BY <1>1, <1>5, <1>6, <1>7
    <2>4. /\ events \o key \in Seq(Events)
          /\ \A i \in 1..Len(events \o key) :
               (events \o key)[i].id \in Alarms => (events \o key)[i].counter >= 1
      BY <1>1, <1>5, <1>7, <2>1
    <2> DEFINE a == events \o ResetEvents
               b == events \o key
    <2>5. /\ a \in Seq(Events) /\ (\A i \in 1..Len(a) : a[i].id \in Alarms => a[i].counter >= 1)
          /\ b \in Seq(Events) /\ (\A i \in 1..Len(b) : b[i].id \in Alarms => b[i].counter >= 1)
          /\ events' = a \o key \/ events' = b \o ResetEvents
      BY <2>2, <2>3, <2>4
    <2> HIDE DEF a, b
    <2> QED BY <1>5, <1>6, <2>1, <2>5 DEF Counted
  <1>11. CASE \E id \in Alarms : AlarmExpired(id) \/ SleepOnIdle(id)
    BY <1>3, <1>11 DEF AlarmExpired, SleepOnIdle
  <1>12. CASE ResetAlarmExpired \/ EventIgnored \/ \E k \in Keys : BrightnessKey(k)
    BY <1>3, <1>12 DEF ResetAlarmExpired, ResetAll, EventIgnored, BrightnessKey
  <1>13. CASE \/ PowerChanged \/ ChangePresentationMode \/ Wake
              \/ \E id \in Alarms, t \in 0..MaxIdle : SetTimeout(id, t)
    BY <1>2, <1>4, <1>13 DEF PowerChanged, ChangePresentationMode, ResetAll, Wake, SetTimeout
  <1>14. CASE SleepOnRequest \/ PlugOrUnplug \/ InhibitionChanged \/ \E l \in Levels : SliderMoved(l)
    BY <1>2, <1>14 DEF SleepOnRequest, PlugOrUnplug, InhibitionChanged, SliderMoved, serverVars
  <1> QED BY <1>8, <1>9, <1>10, <1>11, <1>12, <1>13, <1>14 DEF Next, Alarms

-----------------------------------------------------------------------------
(* Types, and the way back of a dimmed screen. *)

\* All variables but the queue.
Rest ==
    /\ world \in Worlds
    /\ idle \in 0..MaxIdle
    /\ acPlugged \in BOOLEAN /\ resetSet \in BOOLEAN /\ dimmed \in BOOLEAN /\ block \in BOOLEAN
    /\ onBattery \in BOOLEAN /\ asleep \in BOOLEAN
    /\ presentation \in BOOLEAN /\ inhibited \in BOOLEAN
    /\ level \in Levels /\ wanted \in Levels /\ lastLevel \in Levels /\ savedLevel \in Levels
    /\ timeout \in [Alarms -> 0..MaxIdle]
    /\ resetAt \in 0..Disarmed /\ sleptAt \in 1..Disarmed
    /\ resetSet <=> resetAt # Disarmed

LEMMA RestIs == TypeOK <=> Rest /\ events \in Seq(Events)
  BY DEF TypeOK, Rest, Events

LEMMA RestStep ==
    ASSUME TypeOK, Counted, DimmedHasReset, Next
    PROVE  Rest' /\ DimmedHasReset'
  <1>0. /\ Rest /\ MaxIdle \in Nat /\ Disarmed = MaxIdle + 1 /\ UNCHANGED world
        /\ MaxLevel \in Nat /\ Levels = 0..MaxLevel /\ Restored \subseteq Levels
        /\ DimLevels[onBattery] \in Levels
    BY RestIs, LevelsOf, IdleAssumption DEF Next, Disarmed, Levels, Rest, modeVars
  <1>a. /\ Disarmed \in 0..Disarmed
        /\ \A n \in 0..MaxIdle : n \in 0..Disarmed /\ n # Disarmed
    BY <1>0
  <1>1. ASSUME NEW id \in Alarms, AlarmExpired(id) PROVE Rest' /\ DimmedHasReset'
    <2>1. Head(events).counter \in 1..MaxIdle
      BY <1>0, <1>1, HandlesOf DEF AlarmExpired, Counted, Events
    <2>2. resetAt' \in 0..MaxIdle /\ resetSet' = TRUE
      BY <1>0, <1>1, <2>1 DEF AlarmExpired, SetResetAlarm, Rest, modeVars
    <2>3. level' \in Levels /\ lastLevel' \in Levels /\ dimmed' \in BOOLEAN
      <3>1. CASE id = DimAlarm /\ ~presentation
        <4>1. level \in Levels /\ dimmed \in BOOLEAN
          BY <1>0 DEF Rest, modeVars
        <4>2. Written(level, DimLevels[onBattery]) \subseteq Levels
          BY <1>0, <4>1, LevelsOf
        <4> QED BY <1>1, <3>1, <4>1, <4>2 DEF AlarmExpired, DimBrightness
      <3>2. CASE ~(id = DimAlarm /\ ~presentation)
        BY <1>0, <1>1, <3>2 DEF AlarmExpired, Rest, modeVars
      <3> QED BY <3>1, <3>2
    <2>4. UNCHANGED <<idle, acPlugged, wanted, timeout, onBattery, modeVars, napVars>> /\ block' = FALSE
      BY <1>1 DEF AlarmExpired
    <2> HIDE DEF Disarmed, Levels
    <2>5. resetAt' # Disarmed /\ resetAt' \in 0..Disarmed
      BY <1>0, <2>2
    <2> QED BY <1>0, <2>2, <2>3, <2>4, <2>5 DEF Rest, modeVars, DimmedHasReset, napVars
  <1>2. ASSUME NEW id \in SleepAlarms, SleepOnIdle(id) PROVE Rest' /\ DimmedHasReset'
    <2>1. Head(events).counter \in 1..MaxIdle
      BY <1>0, <1>2, HandlesOf DEF SleepOnIdle, Counted, Events, Alarms
    <2> QED BY <1>0, <1>2, <2>1 DEF SleepOnIdle, Rest, modeVars, DimmedHasReset, alarmVars, backlightVars
  \* All alarms are reset.
  <1>3. ASSUME NEW q, ResetAll(q),
               UNCHANGED <<idle, acPlugged, wanted, timeout, napVars>>,
               onBattery' \in BOOLEAN, presentation' \in BOOLEAN, inhibited' \in BOOLEAN
        PROVE  Rest' /\ DimmedHasReset'
    <2>1. /\ level' \in Levels /\ dimmed' = FALSE /\ resetAt' = Disarmed /\ resetSet' = FALSE
          /\ UNCHANGED <<block, lastLevel>>
      BY <1>0, <1>3 DEF ResetAll
    <2>2. DimmedHasReset' /\ resetAt' \in 0..Disarmed /\ resetSet' \in BOOLEAN
          /\ (resetSet' <=> resetAt' # Disarmed)
      BY <1>a, <2>1 DEF DimmedHasReset
    <2> QED BY <1>0, <1>3, <2>1, <2>2 DEF Rest, modeVars, napVars
  <1>b. /\ onBattery \in BOOLEAN /\ acPlugged \in BOOLEAN
        /\ presentation \in BOOLEAN /\ inhibited \in BOOLEAN
    BY <1>0 DEF Rest, modeVars
  <1>3a. CASE ResetAlarmExpired
    BY <1>3, <1>3a, <1>b DEF ResetAlarmExpired, modeVars
  <1>4. CASE EventIgnored
    BY <1>0, <1>4 DEF EventIgnored, Rest, modeVars, DimmedHasReset, napVars, alarmVars, backlightVars
  <1>5. ASSUME NEW k \in Keys, BrightnessKey(k) PROVE Rest' /\ DimmedHasReset'
    <2> DEFINE l == IF k = "up" THEN IF level < MaxLevel THEN level + 1 ELSE level
                               ELSE IF level > 0 THEN level - 1 ELSE level
    <2>1. l \in Levels /\ level \in Levels
      BY <1>0 DEF Rest, modeVars
    <2>2. level' \in Written(level, l)
      BY <1>5 DEF BrightnessKey
    <2> HIDE DEF l
    <2>3. level' \in Levels
      BY <2>1, <2>2, LevelsOf
    <2> QED BY <1>0, <1>5, <2>3 DEF BrightnessKey, Rest, modeVars, DimmedHasReset, napVars, alarmVars
  <1>6. CASE PowerChanged
    BY <1>3, <1>6, <1>b DEF PowerChanged, modeVars
  <1>6a. CASE ChangePresentationMode
    <2>1. CASE presentation
      BY <1>3, <1>6a, <1>b, <2>1 DEF ChangePresentationMode
    <2>2. CASE ~presentation
      BY <1>0, <1>6a, <2>2 DEF ChangePresentationMode, Rest, modeVars, DimmedHasReset, napVars, alarmVars,
         backlightVars
    <2> QED BY <2>1, <2>2
  <1>7. CASE SleepOnRequest
    BY <1>0, <1>7 DEF SleepOnRequest, Rest, modeVars, DimmedHasReset, serverVars, alarmVars, backlightVars
  <1>8. CASE Wake
    <2> DEFINE changed == onBattery = acPlugged
    <2>1. level' \in Levels
      <3>1. level' \in UNION {Written(l, savedLevel) : l \in IF changed THEN Restored ELSE {level}}
        BY <1>8 DEF Wake
      <3>2. (IF changed THEN Restored ELSE {level}) \subseteq Levels /\ savedLevel \in Levels
        BY <1>0 DEF Rest, modeVars
      <3> QED BY <3>1, <3>2, LevelsOf
    <2>2. /\ resetAt' \in 0..Disarmed /\ resetSet' \in BOOLEAN /\ (resetSet' <=> resetAt' # Disarmed)
          /\ dimmed' \in BOOLEAN /\ block' \in BOOLEAN
          /\ dimmed' => resetAt' # Disarmed
      <3>1. CASE sleptAt = Disarmed
        <4>1. /\ resetAt' = IF changed THEN Disarmed ELSE resetAt
              /\ resetSet' = (resetSet /\ ~changed)
              /\ dimmed' = (dimmed /\ ~changed) /\ block' = block
          BY <1>8, <3>1 DEF Wake
        <4>2. CASE changed
          BY <1>a, <4>1, <4>2, <1>0 DEF Rest, modeVars
        <4>3. CASE ~changed
          BY <1>0, <4>1, <4>3 DEF Rest, modeVars, DimmedHasReset
        <4> QED BY <4>2, <4>3
      <3>2. CASE sleptAt # Disarmed
        <4>1. /\ resetAt' = IF resetSet /\ ~changed THEN resetAt ELSE sleptAt - 1
              /\ resetSet' = TRUE /\ block' = FALSE
              /\ dimmed' = (dimmed /\ ~changed)
          BY <1>8, <3>2 DEF Wake
        <4>2. resetAt' \in 0..MaxIdle
          BY <1>0, <3>2, <4>1 DEF Rest, modeVars
        <4>3. resetAt' \in 0..Disarmed /\ resetAt' # Disarmed
          BY <1>a, <4>2
        <4>4. dimmed' \in BOOLEAN /\ block' \in BOOLEAN
          BY <1>0, <4>1 DEF Rest, modeVars
        <4> QED BY <4>1, <4>3, <4>4
      <3> QED BY <3>1, <3>2
    <2> QED BY <1>0, <1>8, <2>1, <2>2 DEF Wake, Rest, modeVars, DimmedHasReset
  <1>9. ASSUME NEW id \in Alarms, NEW t \in 0..MaxIdle, SetTimeout(id, t)
        PROVE  Rest' /\ DimmedHasReset'
    BY <1>0, <1>9 DEF SetTimeout, Rest, modeVars, DimmedHasReset, napVars, alarmVars, backlightVars
  <1>10. CASE Tick
    BY <1>0, <1>10 DEF Tick, Rest, modeVars, DimmedHasReset, daemonVars, napVars, alarmVars, backlightVars
  <1>11. CASE Activity
    BY <1>0, <1>11 DEF Activity, Rest, modeVars, DimmedHasReset, daemonVars, napVars, alarmVars, backlightVars
  <1>12. ASSUME NEW k \in Keys, KeyPressed(k) PROVE Rest' /\ DimmedHasReset'
    BY <1>0, <1>12 DEF KeyPressed, Rest, modeVars, DimmedHasReset, daemonVars, napVars, alarmVars, backlightVars
  <1>13. ASSUME NEW l \in Levels, SliderMoved(l) PROVE Rest' /\ DimmedHasReset'
    BY <1>0, <1>13 DEF SliderMoved, Rest, modeVars, DimmedHasReset, napVars, alarmVars
  <1>14. CASE PlugOrUnplug
    BY <1>0, <1>14 DEF PlugOrUnplug, Rest, modeVars, DimmedHasReset, daemonVars, napVars, alarmVars, backlightVars
  <1>15. CASE InhibitionChanged
    BY <1>0, <1>15 DEF InhibitionChanged, Rest, modeVars, DimmedHasReset, serverVars, napVars, alarmVars,
       backlightVars
  <1> QED BY <1>1, <1>2, <1>3a, <1>4, <1>5, <1>6, <1>6a, <1>7, <1>8, <1>9, <1>10, <1>11, <1>12, <1>13,
             <1>14, <1>15
          DEF Next

-----------------------------------------------------------------------------
(* The idle sleep. *)

LEMMA TimelyStep ==
    ASSUME TypeOK, Timely, Next
    PROVE  Timely'
  <1>0. events \in Seq(Events) /\ Len(events) \in Nat /\ UNCHANGED world /\ idle \in Nat
    BY IdleAssumption DEF TypeOK, Events, Next
  <1> SUFFICES ASSUME KeepsUp PROVE SourceKnown' /\ InTime'
    BY <1>0 DEF Timely, KeepsUp, SourceKeptAsleep
  <1>1. SourceKnown /\ InTime
    BY DEF Timely
  <1>2. Ready => events = <<>> /\ onBattery = ~acPlugged
    BY DEF Ready, CaughtUp, KeepsUp
  <1>3. \A id : events' = Forget(events, id) /\ events = <<>> => events' = <<>>
    <2>1. ASSUME NEW id, events' = Forget(events, id), events = <<>> PROVE events' = <<>>
      <3>1. Forget(events, id) \in Seq(Events) /\ Len(Forget(events, id)) = 0
        BY <1>0, <2>1, ForgetOf
      <3> QED BY <2>1, <3>1
    <2> QED BY <2>1
  <1>4. ASSUME events' = <<>> PROVE InTime'
    BY <1>4 DEF InTime
  <1>5. ASSUME NEW id, Handles(id), events' = Tail(events) \/ events' = Forget(Tail(events), "reset"),
               UNCHANGED <<idle, acPlugged, timeout, onBattery, asleep>>
        PROVE  SourceKnown' /\ InTime'
    <2>1. events # <<>> /\ SleepAlarm' = SleepAlarm /\ SleepAlarm # "stale"
      BY <1>5 DEF Handles, SleepAlarm
    <2>2. \A i \in 1..Len(events') : events'[i].id = SleepAlarm =>
            i + 1 \in 1..Len(events) /\ events[i + 1].id = SleepAlarm
      BY <1>5, <2>1, HandledOf
    <2>3. ASSUME NEW i \in 1..Len(events'), NEW j \in 1..Len(events'),
                 events'[i].id = SleepAlarm, events'[j].id = SleepAlarm
          PROVE  i = j
      <3>1. i + 1 = j + 1
        BY <1>1, <2>2, <2>3 DEF InTime
      <3>2. i \in Nat /\ j \in Nat
        BY <1>5, <2>1, HandledOf
      <3> QED BY <3>1, <3>2
    <2>4. InTime'
      BY <1>1, <1>5, <2>1, <2>2, <2>3 DEF InTime
    <2> QED BY <1>1, <1>5, <2>1, <2>4 DEF SourceKnown
  <1>6. ASSUME NEW id \in Alarms, AlarmExpired(id) PROVE SourceKnown' /\ InTime'
    BY <1>5, <1>6 DEF AlarmExpired, napVars
  <1>7. CASE ResetAlarmExpired \/ EventIgnored \/ \E k \in Keys : BrightnessKey(k)
    BY <1>5, <1>7 DEF ResetAlarmExpired, ResetAll, EventIgnored, BrightnessKey, napVars
  <1>8. ASSUME NEW id \in SleepAlarms, SleepOnIdle(id) PROVE SourceKnown' /\ InTime'
    <2>1. /\ events # <<>> /\ events[1].id = SleepAlarm /\ 1 \in 1..Len(events)
          /\ SleepAlarm' = SleepAlarm /\ SleepAlarm # "stale" /\ UNCHANGED <<acPlugged, onBattery>>
      BY <1>8, HandlesOf DEF SleepOnIdle, Sleeps, SleepAlarm, serverVars
    <2>2. \A i \in 1..Len(events') : events'[i].id = SleepAlarm =>
            i + 1 \in 1..Len(events) /\ events[i + 1].id = SleepAlarm /\ i \in Nat
      BY <1>8, <2>1, HandledOf DEF SleepOnIdle
    <2>3. \A i \in 1..Len(events') : events'[i].id # SleepAlarm
      <3>1. ASSUME NEW i \in 1..Len(events'), events'[i].id = SleepAlarm PROVE FALSE
        <4>1. 1 = i + 1 /\ i \in Nat /\ i # 0
          BY <1>1, <2>1, <2>2, <3>1 DEF InTime
        <4> QED BY <4>1
      <3> QED BY <3>1
    <2> QED BY <1>1, <2>1, <2>3 DEF SourceKnown, InTime
  <1>9. CASE PowerChanged
    <2>1. events = <<>>
      BY <1>0, <1>1, <1>9 DEF PowerChanged, SourceKnown, TypeOK
    <2> QED BY <1>3, <1>4, <1>9, <2>1 DEF PowerChanged, ResetAll, SourceKnown
  <1>9a. CASE ChangePresentationMode
    <2>1. events' = <<>>
      BY <1>2, <1>3, <1>9a DEF ChangePresentationMode, ResetAll
    <2> QED BY <1>2, <1>4, <1>9a, <2>1 DEF ChangePresentationMode, SourceKnown, napVars
  <1>10. CASE SleepOnRequest
    BY <1>2, <1>4, <1>10 DEF SleepOnRequest, SourceKnown, serverVars
  <1>11. CASE Wake
    <2>1. onBattery = ~acPlugged /\ onBattery \in BOOLEAN /\ acPlugged \in BOOLEAN
      BY <1>1, <1>11 DEF Wake, SourceKnown, TypeOK
    <2>2. UNCHANGED <<events, onBattery, acPlugged, timeout, idle>> /\ asleep
      BY <1>11, <2>1 DEF Wake
    <2>3. \A i \in 1..Len(events) : events[i].id # SleepAlarm
      BY <1>1, <2>2 DEF InTime
    <2> QED BY <2>1, <2>2, <2>3 DEF SourceKnown, InTime, SleepAlarm
  <1>12. ASSUME NEW id \in Alarms, NEW t \in 0..MaxIdle, SetTimeout(id, t)
         PROVE  SourceKnown' /\ InTime'
    <2>1. events' = <<>>
      BY <1>2, <1>3, <1>12 DEF SetTimeout
    <2> QED BY <1>2, <1>4, <1>12, <2>1 DEF SetTimeout, SourceKnown, napVars
  <1>13. CASE Tick
    <2> DEFINE due == {a \in Alarms : timeout[a] = idle + 1}
    <2>1. idle < MaxIdle /\ due \subseteq Alarms
      BY <1>13 DEF Tick
    <2>2. /\ idle' = idle + 1 /\ ~asleep
          /\ events = <<>> /\ onBattery = ~acPlugged /\ UNCHANGED <<acPlugged, onBattery, timeout, asleep>>
      BY <1>2, <1>13 DEF Tick, daemonVars, napVars
    <2>3. PICK order \in SetToSeqs(due) :
            events' = events \o [i \in DOMAIN order |-> [id |-> order[i], counter |-> idle + 1]]
      BY <1>13 DEF Tick
    <2> DEFINE s == [i \in DOMAIN order |-> [id |-> order[i], counter |-> idle + 1]]
    <2>4. \A a \in due : timeout[a] = idle'
      BY <2>2
    <2> HIDE DEF due
    <2>5. events' = events \o s /\ s = [i \in DOMAIN order |-> [id |-> order[i], counter |-> idle + 1]]
      BY <2>3
    <2> HIDE DEF s
    <2>6. /\ s \in Seq(Events) /\ \A i \in 1..Len(s) : s[i].id \in due
          /\ \A i, j \in 1..Len(s) : s[i].id = s[j].id => i = j
      BY <2>1, <2>5, DueOf
    <2>7. events' = s
      BY <2>2, <2>6, <2>5, ConcatEmptySeq
    <2>8. SleepAlarm' = SleepAlarm
      BY <2>2 DEF SleepAlarm
    <2>9. InTime'
      <3>1. ASSUME NEW i \in 1..Len(s), s[i].id = SleepAlarm
            PROVE  /\ ~asleep' /\ idle' >= timeout'[SleepAlarm]
                   /\ \A j \in 1..Len(s) : s[j].id = SleepAlarm => i = j
        <4>1. timeout[SleepAlarm] = idle' /\ idle' \in Nat
          BY <1>0, <2>2, <2>4, <2>6, <3>1
        <4> QED BY <2>2, <2>6, <3>1, <4>1
      <3> QED BY <2>7, <2>8, <3>1 DEF InTime
    <2> QED BY <2>2, <2>9 DEF SourceKnown
  <1>14. CASE Activity
    <2>1. /\ events' = events \o ResetEvents /\ UNCHANGED <<acPlugged, onBattery, timeout, asleep>>
          /\ onBattery = ~acPlugged
      BY <1>1, <1>2, <1>14 DEF Activity, daemonVars, napVars, SourceKnown
    <2>2. \A i \in 1..Len(events) : events[i].id # SleepAlarm
      BY <1>0, <1>1, <1>2, <1>14 DEF Activity, InTime
    <2>3. \A i \in 1..Len(events') : events'[i].id # SleepAlarm
      <3> DEFINE c == events \o ResetEvents
      <3>1. \A i \in 1..Len(c) :
              \/ i \in 1..Len(events) /\ c[i] = events[i]
              \/ i - Len(events) \in 1..Len(ResetEvents) /\ c[i] = ResetEvents[i - Len(events)]
        BY <1>0, AppendOf, ResetsOf
      <3>2. \A i \in 1..Len(ResetEvents) : ResetEvents[i].id # SleepAlarm
        BY ResetsOf DEF SleepAlarm
      <3> HIDE DEF c
      <3>3. \A i \in 1..Len(c) : c[i].id # SleepAlarm
        BY <2>2, <3>1, <3>2
      <3> QED BY <2>1, <3>3 DEF c
    <2>4. SleepAlarm' = SleepAlarm
      BY <2>1 DEF SleepAlarm
    <2> QED BY <2>1, <2>3, <2>4 DEF SourceKnown, InTime
  <1>15. ASSUME NEW k \in Keys, KeyPressed(k) PROVE SourceKnown' /\ InTime'
    <2> DEFINE key == <<[id |-> k, counter |-> 0]>>
    <2>1. /\ UNCHANGED <<acPlugged, onBattery, timeout, asleep>> /\ events = <<>> /\ onBattery = ~acPlugged
          /\ events' = events \o ResetEvents \o key \/ events' = events \o key \o ResetEvents
      BY <1>2, <1>15 DEF KeyPressed, daemonVars, napVars
    <2>2. /\ key \in Seq(Events) /\ \A i \in 1..Len(key) : key[i].id # SleepAlarm
      BY ResetsOf DEF SleepAlarm, Keys
    <2>3. /\ ResetEvents \in Seq(Events) /\ \A i \in 1..Len(ResetEvents) : ResetEvents[i].id # SleepAlarm
      BY ResetsOf DEF SleepAlarm
    <2> HIDE DEF key
    <2>4. ASSUME NEW q \in Seq(Events), NEW s \in Seq(Events), events' = q \o s,
                 \A i \in 1..Len(q) : q[i].id # SleepAlarm, \A i \in 1..Len(s) : s[i].id # SleepAlarm
          PROVE  \A i \in 1..Len(events') : events'[i].id # SleepAlarm
      <3> DEFINE c == q \o s
      <3>1. \A i \in 1..Len(c) : \/ i \in 1..Len(q) /\ c[i] = q[i]
                                 \/ i - Len(q) \in 1..Len(s) /\ c[i] = s[i - Len(q)]
        BY AppendOf
      <3> HIDE DEF c
      <3>2. \A i \in 1..Len(c) : c[i].id # SleepAlarm
        BY <2>4, <3>1
      <3> QED BY <2>4, <3>2 DEF c
    <2>5. events \o ResetEvents = ResetEvents /\ events \o key = key
      BY <2>1, <2>2, <2>3, ConcatEmptySeq
    <2>6. \A i \in 1..Len(events') : events'[i].id # SleepAlarm
      BY <2>1, <2>2, <2>3, <2>4, <2>5
    <2>7. SleepAlarm' = SleepAlarm
      BY <2>1 DEF SleepAlarm
    <2> QED BY <2>1, <2>6, <2>7 DEF SourceKnown, InTime
  <1>16. ASSUME NEW l \in Levels, SliderMoved(l) PROVE SourceKnown' /\ InTime'
    BY <1>1, <1>16 DEF SliderMoved, SourceKnown, InTime, SleepAlarm, napVars
  <1>17. CASE PlugOrUnplug
    <2>1. ~asleep /\ events = <<>> /\ UNCHANGED <<asleep, events>>
      BY <1>2, <1>17 DEF PlugOrUnplug, KeepsUp, SourceKeptAsleep, daemonVars, napVars
    <2> QED BY <1>4, <2>1 DEF SourceKnown
  <1>18. CASE InhibitionChanged
    BY <1>1, <1>18 DEF InhibitionChanged, SourceKnown, InTime, SleepAlarm, serverVars, napVars
  <1> QED BY <1>6, <1>7, <1>8, <1>9, <1>9a, <1>10, <1>11, <1>12, <1>13, <1>14, <1>15, <1>16, <1>17, <1>18
          DEF Next


-----------------------------------------------------------------------------
(* The user who comes back finds the screen bright.                           *)
(*                                                                            *)
(* This needs a daemon that keeps up and a screen that dims before the        *)
(* machine sleeps; and where the machine sleeps on idle, mains power and      *)
(* presentation mode that are only switched with the user present: else the   *)
(* reset alarm may wait for a counter value that the user's next absence does *)
(* not reach.                                                                 *)

\* Nothing is switched while the user is away.
PresentOnly(w) == "away" \notin w.acSwitches \cup w.presentations

WorldsFit ==
    \A w \in Worlds : w.prompt =>
        /\ PresentOnly(w) \/ \A s \in SleepAlarms : w.timeouts[s] \subseteq {Never}
        /\ \A d \in DimAlarms, s \in SleepAlarms : \A t \in w.timeouts[d], u \in w.timeouts[s] :
             t # Never /\ (u # Never => t < u)

\* The events of a user who moves.
Moves == Keys \cup {"reset"}

Has(q, id) == \E i \in 1..Len(q) : q[i].id = id

\* No alarm is behind a move; and the events of an alarm, if there is one.
InOrder(q) == \A i, j \in 1..Len(q) : i < j /\ q[i].id \in Moves => q[j].id \notin Alarms
Once(q, id) == \A i, j \in 1..Len(q) : q[i].id = id /\ q[j].id = id => i = j

\* The settings are those of the world, and a new power source is met by a user who is there.
Reconfigured ==
    /\ \A a \in Alarms : timeout[a] \in world.timeouts[a]
    /\ PresentOnly(world) => (onBattery = acPlugged => idle = 0)

\* An armed reset alarm will trigger when the user moves, or has done so.
ResetComes == resetSet => idle > resetAt \/ Has(events, "reset")

\* A dim alarm that has triggered arms the reset alarm when it is handled, which nothing
\* but the user's return disarms.
DimsSeen ==
    PresentOnly(world) => \A d \in DimAlarms : idle >= timeout[d] => resetSet \/ Has(events, d)

MovedNow == \A m \in Moves : Has(events, m) => idle = 0

Apart == \A s \in SleepAlarms, d \in DimAlarms : ~(Has(events, s) /\ Has(events, d))

\* The reset alarm is armed at a counter value that has been passed.
Passed == \A i \in 1..Len(events) : events[i].id \in Alarms => resetSet \/ events[i].counter <= idle

\* No alarm is removed while its event is in the queue.
Alive == \A a \in Alarms : Has(events, a) => timeout[a] # Never

\* What is left in the queue while the machine sleeps.
Sleeper ==
    asleep =>
        /\ \A d \in DimAlarms : ~Has(events, d)
        /\ IF sleptAt = Disarmed THEN \A a \in Alarms : ~Has(events, a) ELSE resetSet

Way ==
    /\ Reconfigured /\ ResetComes /\ DimsSeen /\ MovedNow
    /\ InOrder(events) /\ Apart /\ Passed /\ Alive /\ Sleeper

(* What is in a queue. *)
LEMMA HasTail ==
    ASSUME NEW q \in Seq(Events), q # <<>>
    PROVE  \A id : Has(q, id) <=> q[1].id = id \/ Has(Tail(q), id)
  <1>1. /\ Len(q) \in Nat \ {0} /\ Len(Tail(q)) = Len(q) - 1 /\ 1 \in 1..Len(q)
        /\ \A i \in 1..Len(Tail(q)) : i + 1 \in 1..Len(q) /\ Tail(q)[i] = q[i + 1]
    BY TailOf
  <1> DEFINE t == Tail(q)
  <1>2. /\ Len(t) = Len(q) - 1
        /\ \A i \in 1..Len(t) : i + 1 \in 1..Len(q) /\ t[i] = q[i + 1]
    BY <1>1
  <1> HIDE DEF t
  <1>3. ASSUME NEW id, Has(q, id), q[1].id # id PROVE Has(t, id)
    <2>1. PICK i \in 1..Len(q) : q[i].id = id
      BY <1>3 DEF Has
    <2>2. i # 1 /\ i - 1 \in 1..Len(t) /\ (i - 1) + 1 = i
      BY <1>1, <1>2, <1>3, <2>1
    <2>3. t[i - 1] = q[i]
      BY <1>2, <2>2
    <2> QED BY <2>1, <2>2, <2>3 DEF Has
  <1>4. ASSUME NEW id, Has(t, id) PROVE Has(q, id)
    BY <1>2, <1>4 DEF Has
  <1>5. ASSUME NEW id, q[1].id = id PROVE Has(q, id)
    BY <1>1, <1>5 DEF Has
  <1> QED BY <1>3, <1>4, <1>5 DEF t

LEMMA HasForget ==
    ASSUME NEW q \in Seq(Events), NEW x
    PROVE  \A id : id # "stale" /\ Has(Forget(q, x), id) => Has(q, id)
  <1> DEFINE f == Forget(q, x)
  <1>1. Len(f) = Len(q) /\ \A i \in 1..Len(q) : f[i].id \in {q[i].id, "stale"}
    BY ForgetOf
  <1> HIDE DEF f
  <1>2. ASSUME NEW id, id # "stale", Has(f, id) PROVE Has(q, id)
    BY <1>1, <1>2 DEF Has
  <1> QED BY <1>2 DEF f

(* A handler takes the first event. *)
LEMMA Taken ==
    ASSUME TypeOK, NEW id, Handles(id), events' = Tail(events) \/ events' = Forget(Tail(events), "reset")
    PROVE  /\ Has(events, id)
           /\ \A x : x # "stale" /\ Has(events', x) => Has(events, x)
           /\ events' = Tail(events) => \A x : x # id /\ Has(events, x) => Has(events', x)
           /\ InOrder(events) => InOrder(events')
           /\ InOrder(events) /\ id \in Moves => \A a \in Alarms : ~Has(events', a)
           /\ \A x : x # "stale" /\ Once(events, x) => Once(events', x)
           /\ id # "stale" /\ Once(events, id) => ~Has(events', id)
  <1>1. /\ events \in Seq(Events) /\ events # <<>> /\ 1 \in 1..Len(events) /\ events[1].id = id
        /\ Tail(events) \in Seq(Events)
    BY HandlesOf
  <1>2. /\ events' \in Seq(Events)
        /\ \A i \in 1..Len(events') :
             /\ i + 1 \in 1..Len(events) /\ i \in Nat /\ 1 < i + 1
             /\ events'[i].id \in {events[i + 1].id, "stale"}
    <2>1. /\ events' \in Seq(Events)
          /\ \A i \in 1..Len(events') :
               i + 1 \in 1..Len(events) /\ events'[i].id \in {events[i + 1].id, "stale"}
      BY <1>1, HandledOf
    <2> QED BY <2>1
  <1>3. \A x : Has(events, x) <=> id = x \/ Has(Tail(events), x)
    BY <1>1, HasTail
  <1>4. Has(events, id)
    BY <1>3
  <1>5. \A x : x # "stale" /\ Has(events', x) => Has(events, x)
    BY <1>2 DEF Has
  <1>6. events' = Tail(events) => \A x : x # id /\ Has(events, x) => Has(events', x)
    BY <1>3
  <1>7. ASSUME InOrder(events) PROVE InOrder(events')
    <2> SUFFICES ASSUME NEW i \in 1..Len(events'), NEW j \in 1..Len(events'), i < j,
                        events'[i].id \in Moves
                 PROVE  events'[j].id \notin Alarms
      BY DEF InOrder
    <2>1. events[i + 1].id \in Moves /\ i + 1 < j + 1 /\ i + 1 \in 1..Len(events) /\ j + 1 \in 1..Len(events)
      BY <1>2 DEF Moves, Keys
    <2>2. events[j + 1].id \notin Alarms
      BY <1>7, <2>1 DEF InOrder
    <2> QED BY <1>2, <2>2 DEF Alarms, DimAlarms, SleepAlarms
  <1>8. ASSUME InOrder(events), id \in Moves, NEW a \in Alarms, Has(events', a) PROVE FALSE
    <2>1. PICK i \in 1..Len(events') : events'[i].id = a
      BY <1>8 DEF Has
    <2>2. events[i + 1].id = a /\ i + 1 \in 1..Len(events) /\ 1 < i + 1
      BY <1>2, <1>8, <2>1 DEF Alarms, DimAlarms, SleepAlarms
    <2> QED BY <1>1, <1>8, <2>2 DEF InOrder
  <1>9. ASSUME NEW x, x # "stale", Once(events, x) PROVE Once(events', x)
    <2> SUFFICES ASSUME NEW i \in 1..Len(events'), NEW j \in 1..Len(events'),
                        events'[i].id = x, events'[j].id = x
                 PROVE  i = j
      BY DEF Once
    <2>1. events[i + 1].id = x /\ events[j + 1].id = x /\ i + 1 \in 1..Len(events) /\ j + 1 \in 1..Len(events)
      BY <1>2, <1>9
    <2>2. i + 1 = j + 1 /\ i \in Nat /\ j \in Nat
      BY <1>2, <1>9, <2>1 DEF Once
    <2> QED BY <2>2
  <1>10. ASSUME id # "stale", Once(events, id), Has(events', id) PROVE FALSE
    <2>1. PICK i \in 1..Len(events') : events'[i].id = id
      BY <1>10 DEF Has
    <2>2. events[i + 1].id = id /\ i + 1 \in 1..Len(events) /\ i + 1 # 1
      BY <1>2, <1>10, <2>1
    <2> QED BY <1>1, <1>10, <2>2 DEF Once
  <1> QED BY <1>4, <1>5, <1>6, <1>7, <1>8, <1>9, <1>10

(* The user's moves are appended. *)
Grown(q, r) ==
    /\ r \in Seq(Events) /\ Len(q) <= Len(r)
    /\ \A i \in 1..Len(q) : r[i] = q[i]
    /\ \A i \in 1..Len(r) : i \in 1..Len(q) \/ r[i].id \in Moves

LEMMA GrownBy ==
    ASSUME NEW q \in Seq(Events), NEW s \in Seq(Events), \A i \in 1..Len(s) : s[i].id \in Moves
    PROVE  Grown(q, q \o s) /\ \A x : Has(s, x) => Has(q \o s, x)
  <1>1. /\ q \o s \in Seq(Events) /\ Len(q \o s) = Len(q) + Len(s)
        /\ \A i \in 1..Len(q) + Len(s) : (q \o s)[i] = IF i <= Len(q) THEN q[i] ELSE s[i - Len(q)]
    BY ConcatProperties, Zenon
  <1>2. Len(q) \in Nat /\ Len(s) \in Nat
    OBVIOUS
  <1> DEFINE c == q \o s
  <1>3. /\ c \in Seq(Events) /\ Len(c) = Len(q) + Len(s)
        /\ \A i \in 1..Len(q) + Len(s) : c[i] = IF i <= Len(q) THEN q[i] ELSE s[i - Len(q)]
    BY <1>1
  <1> HIDE DEF c
  <1>4. Grown(q, c)
    BY <1>2, <1>3 DEF Grown
  <1>5. ASSUME NEW x, Has(s, x) PROVE Has(c, x)
    <2>1. PICK i \in 1..Len(s) : s[i].id = x
      BY <1>5 DEF Has
    <2>2. Len(q) + i \in 1..Len(c) /\ ~(Len(q) + i <= Len(q)) /\ (Len(q) + i) - Len(q) = i
      BY <1>2, <1>3
    <2>3. c[Len(q) + i] = s[i]
      BY <1>3, <2>2
    <2> QED BY <2>1, <2>2, <2>3 DEF Has
  <1> QED BY <1>4, <1>5 DEF c

LEMMA GrownTwice ==
    ASSUME NEW q \in Seq(Events), NEW r, NEW s, Grown(q, r), Grown(r, s)
    PROVE  Grown(q, s)
  <1>1. Len(q) \in Nat /\ Len(r) \in Nat /\ Len(s) \in Nat /\ Len(q) <= Len(r) /\ Len(r) <= Len(s)
    BY DEF Grown
  <1> QED BY <1>1 DEF Grown

LEMMA GrownOf ==
    ASSUME NEW q \in Seq(Events), NEW r, Grown(q, r)
    PROVE  /\ \A x : Has(q, x) => Has(r, x)
           /\ \A x : x \notin Moves /\ Has(r, x) => Has(q, x)
           /\ InOrder(q) => InOrder(r)
           /\ \A x : x \notin Moves /\ Once(q, x) => Once(r, x)
  <1>1. Len(q) \in Nat /\ Len(r) \in Nat /\ Len(q) <= Len(r)
    BY DEF Grown
  <1>2. \A x : Has(q, x) => Has(r, x)
    BY <1>1 DEF Grown, Has
  <1>3. \A x : x \notin Moves /\ Has(r, x) => Has(q, x)
    BY <1>1 DEF Grown, Has
  <1>4. ASSUME InOrder(q) PROVE InOrder(r)
    <2> SUFFICES ASSUME NEW i \in 1..Len(r), NEW j \in 1..Len(r), i < j, r[i].id \in Moves, r[j].id \in Alarms
                 PROVE  FALSE
      BY DEF InOrder
    <2>1. j \in 1..Len(q) /\ r[j] = q[j]
      BY DEF Grown, Moves, Keys, Alarms, DimAlarms, SleepAlarms
    <2>2. i \in 1..Len(q) /\ r[i] = q[i]
      BY <1>1, <2>1 DEF Grown
    <2> QED BY <1>4, <2>1, <2>2 DEF InOrder
  <1>5. ASSUME NEW x, x \notin Moves, Once(q, x) PROVE Once(r, x)
    BY <1>1, <1>5 DEF Grown, Once
  <1> QED BY <1>2, <1>3, <1>4, <1>5

\* What a user who moves adds to the queue.
LEMMA Moved ==
    ASSUME TypeOK, Activity \/ \E k \in Keys : KeyPressed(k)
    PROVE  Grown(events, events') /\ (resetAt # Disarmed /\ idle > resetAt => Has(events', "reset"))
  <1>0. events \in Seq(Events)
    BY DEF TypeOK, Events
  <1>1. ResetEvents \in Seq(Events) /\ \A i \in 1..Len(ResetEvents) : ResetEvents[i].id \in Moves
    BY ResetsOf DEF Moves
  <1>2. resetAt # Disarmed /\ idle > resetAt => Has(ResetEvents, "reset")
    <2> SUFFICES ASSUME resetAt # Disarmed, idle > resetAt PROVE Has(ResetEvents, "reset")
      OBVIOUS
    <2>1. ResetEvents = <<[id |-> "reset", counter |-> 0]>>
      BY DEF ResetEvents
    <2>2. Len(ResetEvents) = 1 /\ ResetEvents[1].id = "reset"
      BY <2>1
    <2> QED BY <2>2 DEF Has
  <1>3. CASE Activity
    <2>1. events' = events \o ResetEvents
      BY <1>3 DEF Activity
    <2> QED BY <1>0, <1>1, <1>2, <2>1, GrownBy
  <1>4. ASSUME NEW k \in Keys, KeyPressed(k)
        PROVE  Grown(events, events') /\ (resetAt # Disarmed /\ idle > resetAt => Has(events', "reset"))
    <2> DEFINE key == <<[id |-> k, counter |-> 0]>>
    <2>1. key \in Seq(Events) /\ \A i \in 1..Len(key) : key[i].id \in Moves
      BY ResetsOf DEF Moves
    <2>2. events' = events \o ResetEvents \o key \/ events' = events \o key \o ResetEvents
      BY <1>4 DEF KeyPressed
    <2> HIDE DEF key
    <2>3. CASE events' = events \o ResetEvents \o key
      <3>1. /\ Grown(events, events \o ResetEvents)
            /\ \A x : Has(ResetEvents, x) => Has(events \o ResetEvents, x)
        BY <1>0, <1>1, GrownBy
      <3>2. events \o ResetEvents \in Seq(Events)
        BY <3>1 DEF Grown
      <3> DEFINE q == events \o ResetEvents
      <3>3. q \in Seq(Events) /\ Grown(events, q) /\ (\A x : Has(ResetEvents, x) => Has(q, x)) /\ events' = q \o key
        BY <2>3, <3>1, <3>2
      <3> HIDE DEF q
      <3>4. Grown(q, events')
        BY <2>1, <3>3, GrownBy
      <3> QED BY <1>0, <1>2, <3>3, <3>4, GrownTwice, GrownOf
    <2>4. CASE events' = events \o key \o ResetEvents
      <3>1. Grown(events, events \o key)
        BY <1>0, <2>1, GrownBy
      <3>2. events \o key \in Seq(Events)
        BY <3>1 DEF Grown
      <3> DEFINE q == events \o key
      <3>3. q \in Seq(Events) /\ Grown(events, q) /\ events' = q \o ResetEvents
        BY <2>4, <3>1, <3>2
      <3> HIDE DEF q
      <3>4. Grown(q, events') /\ \A x : Has(ResetEvents, x) => Has(events', x)
        BY <1>1, <3>3, GrownBy
      <3> QED BY <1>0, <1>2, <3>3, <3>4, GrownTwice
    <2> QED BY <2>2, <2>3, <2>4
  <1> QED BY <1>3, <1>4

\* What a tick adds to an empty queue.
LEMMA Ticked ==
    ASSUME TypeOK, Tick, events = <<>>
    PROVE  /\ \A x : Has(events', x) <=> x \in Alarms /\ timeout[x] = idle + 1
           /\ InOrder(events') /\ \A x : Once(events', x)
           /\ \A i \in 1..Len(events') : events'[i].counter = idle + 1
  <1> DEFINE due == {a \in Alarms : timeout[a] = idle + 1}
  <1>1. idle < MaxIdle /\ due \subseteq Alarms /\ \A x : x \in due <=> x \in Alarms /\ timeout[x] = idle + 1
    BY DEF Tick
  <1>2. PICK order \in SetToSeqs(due) :
          events' = events \o [i \in DOMAIN order |-> [id |-> order[i], counter |-> idle + 1]]
    BY DEF Tick
  <1> DEFINE s == [i \in DOMAIN order |-> [id |-> order[i], counter |-> idle + 1]]
  <1> HIDE DEF due
  <1>3. events' = events \o s /\ s = [i \in DOMAIN order |-> [id |-> order[i], counter |-> idle + 1]]
    BY <1>2
  <1> HIDE DEF s
  <1>4. /\ s \in Seq(Events) /\ \A i \in 1..Len(s) : s[i].id \in due /\ s[i].counter = idle + 1
        /\ \A i, j \in 1..Len(s) : s[i].id = s[j].id => i = j
        /\ \A x \in due : Has(s, x)
    BY <1>1, <1>3, DueOf DEF Has
  <1>5. events' = s
    BY <1>3, <1>4, ConcatEmptySeq
  <1>6. \A x : Has(s, x) <=> x \in due
    BY <1>4 DEF Has
  <1>7. InOrder(s) /\ \A x : Once(s, x)
    BY <1>1, <1>4 DEF InOrder, Once, Moves, Keys, Alarms, DimAlarms, SleepAlarms
  <1> QED BY <1>1, <1>4, <1>5, <1>6, <1>7

LEMMA HasEmpty == \A x : ~Has(<<>>, x)
  <1>1. Len(<<>>) = 0
    OBVIOUS
  <1> QED BY <1>1 DEF Has

\* Every screen dims after at least one unit of time, and before the machine sleeps.
LEMMA DimsFirst ==
    ASSUME WorldsFit, KeepsUp, TypeOK, Reconfigured
    PROVE  /\ \A s \in SleepAlarms : timeout[s] # Never => PresentOnly(world)
           /\ \A a \in Alarms : timeout[a] \in Nat
           /\ \A d \in DimAlarms, s \in SleepAlarms :
                timeout[d] >= 1 /\ (timeout[s] # Never => timeout[d] < timeout[s])
           /\ \A d \in DimAlarms : timeout[d] >= 1 /\ ~(0 >= timeout[d])
  <1>1. world \in Worlds /\ world.prompt /\ \A a \in Alarms : timeout[a] \in Nat
    <2>1. world \in Worlds /\ world.prompt
      BY DEF TypeOK, KeepsUp
    <2>2. timeout \in [Alarms -> 0..MaxIdle]
      BY DEF TypeOK
    <2>3. \A a \in Alarms : timeout[a] \in 0..MaxIdle
      BY <2>2
    <2> QED BY <2>1, <2>3, IdleAssumption
  <1>2. ASSUME NEW d \in DimAlarms, NEW s \in SleepAlarms
        PROVE  timeout[d] >= 1 /\ (timeout[s] # Never => timeout[d] < timeout[s])
    <2>1. d \in Alarms /\ s \in Alarms
      BY DEF Alarms
    <2>2. timeout[d] \in world.timeouts[d] /\ timeout[s] \in world.timeouts[s]
      BY <2>1 DEF Reconfigured
    <2>3. timeout[d] # Never /\ (timeout[s] # Never => timeout[d] < timeout[s])
      BY <1>1, <2>2 DEF WorldsFit
    <2> QED BY <1>1, <2>1, <2>3 DEF Never
  <1>3. ASSUME NEW s \in SleepAlarms, timeout[s] # Never PROVE PresentOnly(world)
    <2>1. timeout[s] \in world.timeouts[s]
      BY DEF Reconfigured, Alarms
    <2> QED BY <1>1, <1>3, <2>1 DEF WorldsFit
  <1>4. ASSUME NEW d \in DimAlarms PROVE timeout[d] >= 1 /\ ~(0 >= timeout[d])
    <2>1. "sleepOnAc" \in SleepAlarms /\ d \in Alarms
      BY DEF SleepAlarms, Alarms
    <2>2. timeout[d] >= 1
      BY <1>2, <2>1
    <2> QED BY <1>1, <2>1, <2>2
  <1> QED BY <1>1, <1>2, <1>3, <1>4

\* With the user there and nothing to handle the reset alarm has done its work.
LEMMA BrightAtRest ==
    ASSUME TypeOK, DimmedHasReset, Way, idle = 0, events = <<>>
    PROVE  ~dimmed /\ ~resetSet
  <1>1. resetSet <=> resetAt # Disarmed
    BY DEF TypeOK
  <1>2. ~resetSet
    <2>1. resetSet => idle > resetAt \/ Has(<<>>, "reset")
      BY DEF Way, ResetComes
    <2>2. resetAt \in Nat
      BY IdleAssumption DEF TypeOK, Disarmed
    <2> QED BY <2>1, <2>2, HasEmpty
  <1> QED BY <1>1, <1>2 DEF DimmedHasReset

LEMMA WayStep ==
    ASSUME WorldsFit, KeepsUp, TypeOK, Counted, DimmedHasReset, Timely, Way, Next
    PROVE  Way'
  <1>0. /\ events \in Seq(Events) /\ UNCHANGED world
        /\ idle \in Nat /\ MaxIdle \in Nat /\ idle <= MaxIdle /\ Disarmed = MaxIdle + 1
        /\ resetAt \in Nat /\ resetSet \in BOOLEAN /\ (resetSet <=> resetAt # Disarmed)
        /\ acPlugged \in BOOLEAN /\ onBattery \in BOOLEAN /\ asleep \in BOOLEAN
    <2>1. MaxIdle \in Nat /\ Disarmed = MaxIdle + 1
      BY IdleAssumption DEF Disarmed
    <2>2. idle \in Nat /\ idle <= MaxIdle /\ resetAt \in Nat
      BY <2>1 DEF TypeOK
    <2>3. /\ events \in Seq(Events) /\ UNCHANGED world /\ resetSet \in BOOLEAN
          /\ (resetSet <=> resetAt # Disarmed)
          /\ acPlugged \in BOOLEAN /\ onBattery \in BOOLEAN /\ asleep \in BOOLEAN
      BY DEF TypeOK, Events, Next
    <2> QED BY <2>1, <2>2, <2>3
  <1>1. /\ Reconfigured /\ ResetComes /\ DimsSeen /\ MovedNow
        /\ InOrder(events) /\ Apart /\ Passed /\ Alive /\ Sleeper
    BY DEF Way
  <1>2. SourceKnown /\ InTime /\ (Ready => events = <<>> /\ onBattery = ~acPlugged)
    BY DEF Timely, KeepsUp, Ready, CaughtUp
  <1>3. /\ \A s \in SleepAlarms : timeout[s] # Never => PresentOnly(world)
        /\ \A a \in Alarms : timeout[a] \in Nat
        /\ \A d \in DimAlarms, s \in SleepAlarms :
             timeout[d] >= 1 /\ (timeout[s] # Never => timeout[d] < timeout[s])
        /\ \A d \in DimAlarms : timeout[d] >= 1 /\ ~(0 >= timeout[d])
    BY <1>1, DimsFirst
  <1>4. \A x \in Alarms : x \notin Moves /\ x # "stale" /\ x # "reset"
    BY DEF Alarms, DimAlarms, SleepAlarms, Moves, Keys
  <1>5. DimAlarms \subseteq Alarms /\ SleepAlarms \subseteq Alarms /\ "stale" \notin Moves /\ "reset" \in Moves
    BY DEF Alarms, DimAlarms, SleepAlarms, Moves, Keys
  \* A queue that stays empty.
  <1>6. ASSUME events' = <<>>
        PROVE  /\ MovedNow' /\ InOrder(events') /\ Apart' /\ Passed' /\ Alive'
               /\ \A x : ~Has(events', x)
    <2>1. \A x : ~Has(events', x)
      BY <1>6, HasEmpty
    <2>2. Len(events') = 0
      BY <1>6
    <2> QED BY <2>1, <2>2 DEF MovedNow, InOrder, Apart, Passed, Alive
  \* Nothing of this changes.
  <1>7. ASSUME UNCHANGED <<events, idle, acPlugged, timeout, resetAt, resetSet, onBattery>>, Sleeper'
        PROVE  Way'
    BY <1>0, <1>1, <1>7
       DEF Way, PresentOnly, Reconfigured, ResetComes, DimsSeen, MovedNow, InOrder, Apart, Passed, Alive
  <1>8. ASSUME NEW id \in Alarms, AlarmExpired(id) PROVE Way'
    <2>1. /\ Handles(id) /\ events' = Tail(events) /\ ~asleep /\ UNCHANGED asleep
          /\ UNCHANGED <<idle, acPlugged, timeout, onBattery>>
          /\ resetAt' = IF resetSet THEN resetAt ELSE Head(events).counter - 1
          /\ resetSet' = TRUE
      BY <1>8, HandlesOf DEF AlarmExpired, SetResetAlarm, napVars
    <2>2. /\ Has(events, id)
          /\ \A x : x # "stale" /\ Has(events', x) => Has(events, x)
          /\ \A x : x # id /\ Has(events, x) => Has(events', x)
          /\ InOrder(events')
      BY <1>1, <2>1, Taken
    <2>3. ResetComes'
      <3>1. CASE resetSet
        BY <1>1, <1>4, <2>1, <2>2, <3>1 DEF ResetComes
      <3>2. CASE ~resetSet
        <4>1. 1 \in 1..Len(events) /\ Head(events) = events[1] /\ events[1].id = id /\ events[1] \in Events
          BY <2>1, HandlesOf
        <4>2. events[1].counter \in Nat /\ events[1].counter >= 1 /\ events[1].counter <= idle
          BY <1>0, <1>1, <3>2, <4>1 DEF Events, Counted, Passed
        <4> QED BY <1>0, <2>1, <3>2, <4>1, <4>2 DEF ResetComes
      <3> QED BY <3>1, <3>2
    <2>4. Reconfigured' /\ DimsSeen' /\ Passed' /\ Sleeper'
      BY <1>0, <1>1, <2>1 DEF Reconfigured, PresentOnly, DimsSeen, Passed, Sleeper
    <2>5. MovedNow' /\ Apart' /\ Alive'
      BY <1>1, <1>4, <1>5, <2>1, <2>2 DEF MovedNow, Apart, Alive
    <2> QED BY <2>2, <2>3, <2>4, <2>5 DEF Way
  <1>9. ASSUME NEW id \in SleepAlarms, SleepOnIdle(id) PROVE Way'
    <2>1. /\ Handles(id) /\ events' = Tail(events) /\ id = SleepAlarm /\ id \in Alarms
          /\ UNCHANGED <<idle, acPlugged, timeout, onBattery, resetAt, resetSet>>
      BY <1>5, <1>9 DEF SleepOnIdle, Sleeps, alarmVars
    <2>2. /\ Has(events, id)
          /\ \A x : x # "stale" /\ Has(events', x) => Has(events, x)
          /\ \A x : x # id /\ Has(events, x) => Has(events', x)
          /\ InOrder(events')
      BY <1>1, <2>1, Taken
    <2>3. timeout[id] # Never /\ idle >= timeout[id]
      <3>1. \E i \in 1..Len(events) : events[i].id = SleepAlarm
        BY <2>1, <2>2 DEF Has
      <3> QED BY <1>1, <1>2, <2>1, <2>2, <3>1 DEF Alive, InTime
    <2>4. \A d \in DimAlarms : ~Has(events, d) /\ resetSet
      <3> SUFFICES ASSUME NEW d \in DimAlarms PROVE ~Has(events, d) /\ resetSet
        OBVIOUS
      <3>1. ~Has(events, d)
        BY <1>1, <2>2 DEF Apart
      <3>2. idle >= timeout[d]
        BY <1>0, <1>3, <1>5, <2>1, <2>3
      <3>3. PresentOnly(world)
        BY <1>3, <1>9, <2>3
      <3> QED BY <1>1, <3>1, <3>2, <3>3 DEF DimsSeen
    <2>5. resetSet
      BY <2>4 DEF DimAlarms
    <2>6. sleptAt' # Disarmed
      <3>1. Head(events).counter \in 0..MaxIdle
        BY <2>1, HandlesOf DEF Events
      <3> QED BY <1>0, <1>9, <3>1 DEF SleepOnIdle
    <2>7. Sleeper'
      BY <1>4, <1>5, <2>1, <2>2, <2>4, <2>5, <2>6 DEF Sleeper
    <2>8. Reconfigured' /\ DimsSeen' /\ Passed'
      BY <1>0, <1>1, <2>1, <2>5 DEF Reconfigured, PresentOnly, DimsSeen, Passed
    <2>9. MovedNow' /\ Apart' /\ Alive' /\ ResetComes'
      BY <1>0, <1>1, <1>4, <1>5, <2>1, <2>2 DEF MovedNow, Apart, Alive, ResetComes
    <2> QED BY <2>2, <2>7, <2>8, <2>9 DEF Way
  <1>10. CASE ResetAlarmExpired
    <2>1. /\ Handles("reset") /\ events' = Forget(Tail(events), "reset") /\ ~asleep /\ UNCHANGED asleep
          /\ UNCHANGED <<idle, acPlugged, timeout, onBattery>> /\ resetSet' = FALSE
      BY <1>10, HandlesOf DEF ResetAlarmExpired, ResetAll, napVars
    <2>2. /\ Has(events, "reset")
          /\ \A x : x # "stale" /\ Has(events', x) => Has(events, x)
          /\ InOrder(events')
          /\ \A a \in Alarms : ~Has(events', a)
      BY <1>1, <1>5, <2>1, Taken
    <2>3. idle = 0
      BY <1>1, <1>5, <2>2 DEF MovedNow
    <2>4. Reconfigured' /\ ResetComes' /\ Sleeper'
      BY <1>0, <1>1, <2>1, <2>3 DEF Reconfigured, PresentOnly, ResetComes, Sleeper
    <2>7. DimsSeen'
      BY <1>3, <2>1, <2>3 DEF DimsSeen
    <2>5. MovedNow' /\ Apart' /\ Alive'
      BY <1>1, <1>5, <2>1, <2>2, <2>3 DEF MovedNow, Apart, Alive
    <2>6. Passed'
      BY <2>2 DEF Passed, Has
    <2> QED BY <2>2, <2>4, <2>5, <2>6, <2>7 DEF Way
  <1>11. CASE EventIgnored \/ \E k \in Keys : BrightnessKey(k)
    <2>1. PICK id \in Keys \cup {"stale"} : Handles(id)
      BY <1>11 DEF EventIgnored, BrightnessKey
    <2>2. /\ events' = Tail(events) /\ ~asleep /\ UNCHANGED asleep
          /\ UNCHANGED <<idle, acPlugged, timeout, onBattery, resetAt, resetSet>>
      BY <1>11, <2>1, HandlesOf DEF EventIgnored, BrightnessKey, napVars, alarmVars
    <2>3. id \notin Alarms /\ id # "reset"
      BY <2>1 DEF Alarms, DimAlarms, SleepAlarms, Keys
    <2>4. /\ \A x : x # "stale" /\ Has(events', x) => Has(events, x)
          /\ \A x : x # id /\ Has(events, x) => Has(events', x)
          /\ InOrder(events')
      BY <1>1, <2>1, <2>2, Taken
    <2>5. Passed'
      <3>1. events # <<>>
        BY <2>1 DEF Handles
      <3>2. \A i \in 1..Len(events') :
              /\ i + 1 \in 1..Len(events) /\ events'[i].counter = events[i + 1].counter
              /\ events'[i].id \in {events[i + 1].id, "stale"}
        BY <2>2, <3>1, HandledOf
      <3> QED BY <1>1, <1>4, <2>2, <3>2 DEF Passed
    <2>6. Reconfigured' /\ ResetComes' /\ Sleeper'
      BY <1>0, <1>1, <2>2, <2>3, <2>4 DEF Reconfigured, PresentOnly, ResetComes, Sleeper
    <2>7. DimsSeen' /\ MovedNow' /\ Apart' /\ Alive'
      BY <1>0, <1>1, <1>4, <1>5, <2>2, <2>3, <2>4 DEF PresentOnly, DimsSeen, MovedNow, Apart, Alive
    <2> QED BY <2>4, <2>5, <2>6, <2>7 DEF Way
  \* All alarms are reset when there is nothing to handle.
  <1>r. ASSUME ResetAll(events), events = <<>>, ~asleep, onBattery' = ~acPlugged,
               PresentOnly(world) => idle = 0, UNCHANGED <<idle, acPlugged, timeout, asleep>>
        PROVE  Way'
    <2>1. events' = Forget(events, "reset") /\ resetSet' = FALSE
      BY <1>r DEF ResetAll
    <2>2. events' = <<>>
      <3>1. Forget(events, "reset") \in Seq(Events) /\ Len(Forget(events, "reset")) = 0
        BY <1>0, <1>r, ForgetOf
      <3> QED BY <2>1, <3>1
    <2>3. Reconfigured' /\ ResetComes' /\ Sleeper'
      BY <1>0, <1>1, <1>r, <2>1 DEF Reconfigured, PresentOnly, ResetComes, Sleeper
    <2>4. DimsSeen'
      BY <1>0, <1>3, <1>r DEF DimsSeen, PresentOnly
    <2> QED BY <1>6, <2>2, <2>3, <2>4 DEF Way
  <1>12. CASE PowerChanged
    <2>1. events = <<>> /\ ~asleep /\ (PresentOnly(world) => idle = 0)
      BY <1>0, <1>1, <1>2, <1>12 DEF PowerChanged, SourceKnown, Reconfigured
    <2> QED BY <1>r, <1>12, <2>1 DEF PowerChanged, napVars
  <1>12a. CASE ChangePresentationMode
    <2>1. /\ events = <<>> /\ ~asleep /\ onBattery = ~acPlugged /\ (PresentOnly(world) => idle = 0)
          /\ UNCHANGED <<idle, acPlugged, timeout, onBattery, asleep, sleptAt>>
      BY <1>2, <1>12a DEF ChangePresentationMode, In, PresentOnly, napVars
    <2>2. CASE presentation
      BY <1>r, <1>12a, <2>1, <2>2 DEF ChangePresentationMode
    <2>3. CASE ~presentation
      <3>1. UNCHANGED <<events, resetAt, resetSet>>
        BY <1>12a, <2>3 DEF ChangePresentationMode, alarmVars
      <3> QED BY <1>7, <2>1, <3>1 DEF Sleeper
    <2> QED BY <2>2, <2>3
  <1>13. CASE SleepOnRequest
    <2>1. /\ events' = <<>> /\ events = <<>> /\ sleptAt' = Disarmed
          /\ UNCHANGED <<events, idle, acPlugged, timeout, resetAt, resetSet, onBattery>>
      BY <1>2, <1>13 DEF SleepOnRequest, serverVars, alarmVars
    <2>2. Sleeper'
      BY <1>6, <2>1 DEF Sleeper
    <2> QED BY <1>7, <2>1, <2>2
  <1>14. CASE Wake
    <2>1. onBattery = ~acPlugged /\ asleep /\ asleep' = FALSE
      BY <1>2, <1>14 DEF Wake, SourceKnown
    <2>2. /\ UNCHANGED <<events, idle, acPlugged, timeout>> /\ onBattery' = ~acPlugged
          /\ IF sleptAt = Disarmed THEN resetAt' = resetAt /\ resetSet' = resetSet
             ELSE resetAt' = (IF resetSet THEN resetAt ELSE sleptAt - 1) /\ resetSet' = TRUE
      BY <1>0, <1>14, <2>1 DEF Wake
    <2>3. UNCHANGED <<resetAt, resetSet>>
      BY <1>0, <1>1, <2>1, <2>2 DEF Sleeper
    <2> QED BY <1>7, <2>1, <2>2, <2>3 DEF Sleeper
  <1>15. ASSUME NEW id \in Alarms, NEW t \in 0..MaxIdle, SetTimeout(id, t) PROVE Way'
    <2>1. /\ events = <<>> /\ idle = 0 /\ ~asleep /\ t \in world.timeouts[id]
          /\ timeout' = [timeout EXCEPT ![id] = t] /\ onBattery = ~acPlugged
          /\ UNCHANGED <<idle, acPlugged, onBattery, resetAt, resetSet, asleep>>
      BY <1>2, <1>15 DEF SetTimeout, alarmVars, napVars
    <2>2. events' = <<>>
      <3>1. Forget(events, id) \in Seq(Events) /\ Len(Forget(events, id)) = 0
        BY <1>0, <2>1, ForgetOf
      <3>2. Forget(events, id) = <<>>
        BY <3>1
      <3> QED BY <1>15, <2>1, <3>2 DEF SetTimeout
    <2>3. /\ Reconfigured' /\ timeout' \in [Alarms -> Nat]
      BY <1>0, <1>1, <2>1 DEF Reconfigured, PresentOnly, TypeOK
    <2>4. DimsSeen'
      <3>1. ASSUME NEW d \in DimAlarms PROVE timeout'[d] >= 1
        <4>1. timeout'[d] \in world.timeouts[d] /\ timeout'[d] \in Nat
          BY <1>0, <1>5, <2>3 DEF Reconfigured
        <4>2. timeout'[d] # Never
          <5>1. "sleepOnAc" \in SleepAlarms /\ "sleepOnAc" \in Alarms
            BY DEF SleepAlarms, Alarms
          <5>2. timeout["sleepOnAc"] \in world.timeouts["sleepOnAc"]
            BY <1>1, <5>1 DEF Reconfigured
          <5>3. world \in Worlds /\ world.prompt
            BY DEF KeepsUp, TypeOK
          <5> QED BY <4>1, <5>1, <5>2, <5>3 DEF WorldsFit
        <4> QED BY <4>1, <4>2 DEF Never
      <3>2. \A d \in DimAlarms : timeout'[d] \in Nat
        BY <1>5, <2>3
      <3> QED BY <2>1, <3>1, <3>2 DEF DimsSeen
    <2>5. ~resetSet
      BY <2>1, BrightAtRest
    <2> QED BY <1>6, <2>1, <2>2, <2>3, <2>4, <2>5 DEF Way, ResetComes, Sleeper
  <1>16. CASE Tick
    <2>1. /\ events = <<>> /\ onBattery = ~acPlugged /\ idle' = idle + 1 /\ ~asleep
          /\ UNCHANGED <<acPlugged, onBattery, timeout, resetAt, resetSet, asleep>>
      BY <1>2, <1>16 DEF Tick, daemonVars, alarmVars, napVars
    <2>2. /\ \A x : Has(events', x) <=> x \in Alarms /\ timeout[x] = idle + 1
          /\ InOrder(events')
          /\ \A i \in 1..Len(events') : events'[i].counter = idle + 1
      BY <1>16, <2>1, Ticked
    <2>3. \A x : ~Has(events, x)
      BY <2>1, HasEmpty
    <2>4. Reconfigured' /\ ResetComes' /\ Sleeper' /\ Passed'
      BY <1>0, <1>1, <2>1, <2>2, <2>3 DEF Reconfigured, PresentOnly, ResetComes, Sleeper, Passed
    <2>5. DimsSeen'
      <3> SUFFICES ASSUME PresentOnly(world), NEW d \in DimAlarms, idle' >= timeout'[d]
                   PROVE  resetSet' \/ Has(events', d)
        BY <1>0 DEF DimsSeen, PresentOnly
      <3>1. timeout[d] = idle + 1 \/ idle >= timeout[d]
        BY <1>0, <1>3, <1>5, <2>1
      <3> QED BY <1>1, <1>5, <2>1, <2>2, <2>3, <3>1 DEF DimsSeen
    <2>6. MovedNow' /\ Alive'
      BY <1>0, <1>4, <2>1, <2>2 DEF MovedNow, Alive, Never
    <2>7. Apart'
      BY <1>0, <1>3, <1>5, <2>2 DEF Apart, Never
    <2> QED BY <2>2, <2>4, <2>5, <2>6, <2>7 DEF Way
  <1>17. CASE Activity \/ \E k \in Keys : KeyPressed(k)
    <2>1. /\ asleep \/ events = <<>>
          /\ idle' = 0
          /\ UNCHANGED <<acPlugged, onBattery, timeout, resetAt, resetSet, asleep, sleptAt>>
      BY <1>2, <1>17 DEF Activity, KeyPressed, daemonVars, alarmVars, napVars
    <2>2. Grown(events, events') /\ (resetAt # Disarmed /\ idle > resetAt => Has(events', "reset"))
      BY <1>17, Moved
    <2>3. /\ \A x : Has(events, x) => Has(events', x)
          /\ \A x : x \notin Moves /\ Has(events', x) => Has(events, x)
          /\ InOrder(events')
      BY <1>0, <1>1, <2>2, GrownOf
    <2>4. Reconfigured' /\ ResetComes' /\ MovedNow'
      BY <1>0, <1>1, <2>1, <2>2, <2>3 DEF Reconfigured, PresentOnly, ResetComes, MovedNow
    <2>5. DimsSeen'
      BY <1>3, <2>1 DEF DimsSeen
    <2>6. Apart' /\ Alive' /\ Sleeper'
      BY <1>1, <1>4, <1>5, <2>1, <2>3 DEF Apart, Alive, Sleeper
    <2>7. Passed'
      <3> SUFFICES ASSUME NEW i \in 1..Len(events'), events'[i].id \in Alarms PROVE resetSet
        BY <2>1 DEF Passed
      <3>1. Has(events', events'[i].id)
        BY DEF Has
      <3>2. Has(events, events'[i].id)
        BY <1>4, <2>3, <3>1
      <3> QED BY <1>1, <2>1, <3>2, HasEmpty DEF Sleeper
    <2> QED BY <2>3, <2>4, <2>5, <2>6, <2>7 DEF Way
  <1>18. CASE InhibitionChanged \/ \E l \in Levels : SliderMoved(l)
    <2>1. UNCHANGED <<events, idle, acPlugged, timeout, resetAt, resetSet, onBattery, asleep, sleptAt>>
      BY <1>18 DEF InhibitionChanged, SliderMoved, serverVars, alarmVars, napVars
    <2>2. Sleeper'
      BY <1>1, <2>1 DEF Sleeper
    <2> QED BY <1>7, <2>1, <2>2
  <1>19. CASE PlugOrUnplug
    <2>1. /\ ~asleep /\ (PresentOnly(world) => idle = 0)
          /\ UNCHANGED <<events, idle, timeout, resetAt, resetSet, onBattery, asleep>>
      BY <1>19 DEF PlugOrUnplug, In, PresentOnly, KeepsUp, SourceKeptAsleep, daemonVars, alarmVars, napVars
    <2>2. Reconfigured' /\ Sleeper'
      BY <1>0, <1>1, <2>1 DEF Reconfigured, PresentOnly, Sleeper
    <2> QED BY <1>0, <1>1, <2>1, <2>2 DEF Way, PresentOnly, ResetComes, DimsSeen, MovedNow, InOrder, Apart, Passed, Alive
  <1> QED BY <1>8, <1>9, <1>10, <1>11, <1>12, <1>12a, <1>13, <1>14, <1>15, <1>16, <1>17,
             <1>18, <1>19
          DEF Next

LEMMA WayInit ==
    ASSUME WorldsFit, KeepsUp, TypeOK, Init
    PROVE  Way
  <1>1. /\ events = <<>> /\ idle = 0 /\ ~resetSet /\ ~asleep
        /\ \A a \in Alarms : timeout[a] \in world.timeouts[a]
    BY DEF Init
  <1>2. Len(events) = 0 /\ \A x : ~Has(events, x)
    BY <1>1, HasEmpty
  <1>3. Reconfigured
    BY <1>1 DEF Reconfigured
  <1>4. DimsSeen
    BY <1>1, <1>3, DimsFirst DEF DimsSeen
  <1> QED BY <1>1, <1>2, <1>3, <1>4
          DEF Way, ResetComes, MovedNow, InOrder, Apart, Passed, Alive, Sleeper

(* The level to come back to.  The alarm that dims is handled once in an      *)
(* absence, and a key that was pressed meanwhile has the last word.           *)
DimOnce ==
    /\ Once(events, DimAlarm)
    /\ Has(events, DimAlarm) => idle >= timeout[DimAlarm]
    /\ dimmed => ~Has(events, DimAlarm) /\ (idle >= timeout[DimAlarm] \/ Has(events, "reset"))

Pressed ==
    /\ dimmed /\ block => idle = 0 /\ \A a \in Alarms : ~Has(events, a)
    /\ asleep /\ sleptAt # Disarmed => ~(dimmed /\ block)

Remembered ==
    /\ ~dimmed \/ block => level = wanted
    /\ asleep => savedLevel = level
    /\ dimmed /\ ~block => lastLevel = wanted

LEMMA DimOnceStep ==
    ASSUME WorldsFit, KeepsUp, TypeOK, DimmedHasReset, Timely, Way, Way', DimOnce, Next
    PROVE  DimOnce'
  <1>0. idle \in Nat /\ (resetSet <=> resetAt # Disarmed) /\ \A a \in Alarms : timeout[a] \in Nat
    <2>1. idle \in Nat /\ (resetSet <=> resetAt # Disarmed)
      <3>1. idle \in 0..MaxIdle /\ MaxIdle \in Nat
        BY IdleAssumption DEF TypeOK
      <3>2. resetSet <=> resetAt # Disarmed
        BY DEF TypeOK
      <3> QED BY <3>1, <3>2
    <2>2. Reconfigured
      BY DEF Way
    <2> QED BY <2>1, <2>2, DimsFirst
  <1>1. /\ DimAlarm \in Alarms /\ DimAlarm \in DimAlarms /\ DimAlarm # "reset" /\ DimAlarm # "stale"
        /\ DimAlarm \notin Keys /\ DimAlarm \notin SleepAlarms /\ DimAlarm \notin Moves
    BY DEF DimAlarm, Alarms, DimAlarms, SleepAlarms, Keys, Moves
  <1>2. SourceKnown /\ (Ready => events = <<>> /\ onBattery = ~acPlugged)
    BY DEF Timely, KeepsUp, Ready, CaughtUp
  \* A handler of another event than the reset.
  <1>3. ASSUME NEW id, id # "reset", Handles(id), events' = Tail(events),
               UNCHANGED <<idle, timeout, onBattery>>, dimmed' => dimmed \/ id = DimAlarm
        PROVE  DimOnce'
    <2>1. /\ \A x : x # "stale" /\ Has(events', x) => Has(events, x)
          /\ \A x : x # id /\ Has(events, x) => Has(events', x)
          /\ Has(events, id) /\ Once(events', DimAlarm)
          /\ id = DimAlarm => ~Has(events', DimAlarm)
      BY <1>1, <1>3, Taken DEF DimOnce
    <2>2. DimAlarm' = DimAlarm
      BY <1>3 DEF DimAlarm
    <2> QED BY <1>1, <1>3, <2>1, <2>2 DEF DimOnce
  \* The queue is empty afterwards, and the screen is bright.
  <1>4. ASSUME events' = <<>>, ~dimmed' PROVE DimOnce'
    <2>1. Len(events') = 0 /\ \A x : ~Has(events', x)
      BY <1>4, HasEmpty
    <2> QED BY <1>4, <2>1 DEF DimOnce, Once
  \* Nothing of this changes.
  <1>5. ASSUME UNCHANGED <<events, idle, timeout, onBattery, dimmed>> PROVE DimOnce'
    BY <1>5 DEF DimOnce, DimAlarm, Once, Has
  <1>6. ASSUME NEW id \in Alarms, AlarmExpired(id) PROVE DimOnce'
    <2>1. /\ Handles(id) /\ id # "reset" /\ events' = Tail(events)
          /\ UNCHANGED <<idle, timeout, onBattery>> /\ (dimmed' => dimmed \/ id = DimAlarm)
      BY <1>6 DEF AlarmExpired, Alarms, DimAlarms, SleepAlarms
    <2> QED BY <1>3, <2>1
  <1>7. ASSUME NEW id \in SleepAlarms, SleepOnIdle(id) PROVE DimOnce'
    <2>1. /\ Handles(id) /\ id # "reset" /\ events' = Tail(events)
          /\ UNCHANGED <<idle, timeout, onBattery, dimmed>>
      BY <1>7 DEF SleepOnIdle, SleepAlarms, backlightVars
    <2> QED BY <1>3, <2>1
  <1>8. CASE ResetAlarmExpired
    <2>1. /\ Handles("reset") /\ events' = Forget(Tail(events), "reset") /\ ~dimmed'
          /\ UNCHANGED <<idle, timeout, onBattery>>
      BY <1>8 DEF ResetAlarmExpired, ResetAll
    <2>2. Once(events', DimAlarm) /\ (Has(events', DimAlarm) => Has(events, DimAlarm))
      BY <1>1, <2>1, Taken DEF DimOnce
    <2>3. DimAlarm' = DimAlarm
      BY <2>1 DEF DimAlarm
    <2> QED BY <2>1, <2>2, <2>3 DEF DimOnce
  <1>9. CASE EventIgnored \/ \E k \in Keys : BrightnessKey(k)
    <2>1. PICK id \in Keys \cup {"stale"} : Handles(id)
      BY <1>9 DEF EventIgnored, BrightnessKey
    <2>2. /\ id # "reset" /\ events' = Tail(events) /\ UNCHANGED <<idle, timeout, onBattery, dimmed>>
      BY <1>9, <2>1 DEF EventIgnored, BrightnessKey, backlightVars, Keys
    <2> QED BY <1>3, <2>1, <2>2
  \* All alarms are reset when there is nothing to handle.
  <1>r. ASSUME ResetAll(events), events = <<>> PROVE DimOnce'
    <2>1. events' = Forget(events, "reset") /\ ~dimmed'
      BY <1>r DEF ResetAll
    <2>2. events' = <<>>
      <3>1. events \in Seq(Events)
        BY DEF TypeOK, Events
      <3>2. Forget(events, "reset") \in Seq(Events) /\ Len(Forget(events, "reset")) = 0
        BY <1>r, <3>1, ForgetOf
      <3> QED BY <2>1, <3>2
    <2> QED BY <1>4, <2>1, <2>2
  <1>10. CASE PowerChanged
    BY <1>2, <1>r, <1>10 DEF PowerChanged, SourceKnown, TypeOK
  <1>10a. CASE ChangePresentationMode
    BY <1>2, <1>5, <1>r, <1>10a DEF ChangePresentationMode, backlightVars
  <1>11. CASE SleepOnRequest
    BY <1>5, <1>11 DEF SleepOnRequest, serverVars, backlightVars
  <1>12. CASE Wake
    <2>1. onBattery = ~acPlugged /\ acPlugged \in BOOLEAN /\ dimmed \in BOOLEAN
      BY <1>2, <1>12 DEF Wake, SourceKnown, TypeOK
    <2>2. UNCHANGED <<events, idle, timeout, onBattery, dimmed>>
      BY <1>12, <2>1 DEF Wake
    <2> QED BY <1>5, <2>2
  <1>13. ASSUME NEW id \in Alarms, NEW t \in 0..MaxIdle, SetTimeout(id, t) PROVE DimOnce'
    <2>1. events = <<>> /\ idle = 0 /\ UNCHANGED dimmed
      BY <1>2, <1>13 DEF SetTimeout, backlightVars
    <2>2. ~dimmed'
      BY <2>1, BrightAtRest
    <2>3. events' = <<>>
      <3>1. events \in Seq(Events)
        BY DEF TypeOK, Events
      <3>2. Forget(events, id) \in Seq(Events) /\ Len(Forget(events, id)) = 0
        BY <2>1, <3>1, ForgetOf
      <3>3. Forget(events, id) = <<>>
        BY <3>2
      <3> QED BY <1>13, <2>1, <3>3 DEF SetTimeout
    <2> QED BY <1>4, <2>2, <2>3
  <1>14. CASE Tick
    <2>1. /\ events = <<>> /\ idle' = idle + 1 /\ UNCHANGED <<timeout, onBattery, dimmed>>
      BY <1>2, <1>14 DEF Tick, daemonVars, backlightVars
    <2>2. Once(events', DimAlarm) /\ (Has(events', DimAlarm) <=> timeout[DimAlarm] = idle + 1)
      BY <1>1, <1>14, <2>1, Ticked
    <2>3. DimAlarm' = DimAlarm
      BY <2>1 DEF DimAlarm
    <2>4. ~Has(events, "reset")
      BY <2>1, HasEmpty
    <2> QED BY <1>0, <1>1, <2>1, <2>2, <2>3, <2>4 DEF DimOnce
  <1>15. CASE Activity \/ \E k \in Keys : KeyPressed(k)
    <2>1. /\ asleep \/ events = <<>>
          /\ idle' = 0 /\ UNCHANGED <<timeout, resetAt, onBattery, dimmed>>
      BY <1>2, <1>15 DEF Activity, KeyPressed, daemonVars, alarmVars, backlightVars
    <2>2. Has(events', DimAlarm) => Has(events, DimAlarm)
      BY <1>1, <1>15, Moved, GrownOf DEF TypeOK, Events
    <2>3. ~Has(events, DimAlarm)
      BY <1>1, <2>1, HasEmpty DEF Way, Sleeper
    <2>4. DimAlarm' = DimAlarm
      BY <2>1 DEF DimAlarm
    <2>5. Once(events', DimAlarm)
      BY <2>2, <2>3 DEF Has, Once
    <2>6. dimmed' => Has(events', "reset")
      <3>1. resetSet' = resetSet
        BY <1>15 DEF Activity, KeyPressed, daemonVars, alarmVars
      <3>2. resetAt \in Nat
        BY IdleAssumption DEF TypeOK, Disarmed
      <3>3. resetSet' => Has(events', "reset")
        BY <2>1, <3>2 DEF Way, ResetComes
      <3> QED BY <1>0, <2>1, <3>1, <3>3 DEF DimmedHasReset
    <2> QED BY <2>2, <2>3, <2>4, <2>5, <2>6 DEF DimOnce
  <1>16. CASE InhibitionChanged \/ PlugOrUnplug \/ \E l \in Levels : SliderMoved(l)
    <2>1. UNCHANGED <<events, idle, timeout, onBattery, dimmed>>
      BY <1>16 DEF InhibitionChanged, PlugOrUnplug, SliderMoved, serverVars, daemonVars, backlightVars
    <2> QED BY <1>5, <2>1
  <1> QED BY <1>6, <1>7, <1>8, <1>9, <1>10, <1>10a, <1>11, <1>12, <1>13, <1>14, <1>15, <1>16 DEF Next

LEMMA PressedStep ==
    ASSUME WorldsFit, KeepsUp, TypeOK, DimmedHasReset, Timely, Way, Pressed, Next
    PROVE  Pressed'
  <1>1. /\ \A a \in Alarms : a # "reset" /\ a # "stale" /\ a \notin Moves
        /\ SleepAlarms \subseteq Alarms /\ Keys \subseteq Moves
    BY DEF Alarms, DimAlarms, SleepAlarms, Keys, Moves
  <1>2. SourceKnown /\ (Ready => events = <<>> /\ onBattery = ~acPlugged)
    BY DEF Timely, KeepsUp, Ready, CaughtUp
  <1>3. ASSUME ~(dimmed' /\ block') PROVE Pressed'
    BY <1>3 DEF Pressed
  \* The queue gets no alarm.
  <1>4. ASSUME UNCHANGED <<dimmed, block>>, idle' = idle \/ idle' = 0,
               \A a \in Alarms : Has(events', a) => Has(events, a),
               asleep' => (asleep /\ UNCHANGED sleptAt) \/ sleptAt' = Disarmed
        PROVE  Pressed'
    BY <1>4 DEF Pressed
  <1>5. ASSUME NEW id \in Alarms, AlarmExpired(id) PROVE Pressed'
    BY <1>3, <1>5 DEF AlarmExpired
  <1>6. ASSUME NEW id \in SleepAlarms, SleepOnIdle(id) PROVE Pressed'
    <2>1. Has(events, id) /\ id \in Alarms
      BY <1>1, <1>6, Taken DEF SleepOnIdle
    <2>2. ~(dimmed /\ block)
      BY <2>1 DEF Pressed
    <2> QED BY <1>3, <1>6, <2>2 DEF SleepOnIdle, backlightVars
  <1>7. CASE ResetAlarmExpired \/ PowerChanged
    BY <1>3, <1>7 DEF ResetAlarmExpired, PowerChanged, ResetAll
  <1>7a. CASE ChangePresentationMode
    <2>1. CASE presentation
      BY <1>3, <1>7a, <2>1 DEF ChangePresentationMode, ResetAll
    <2>2. CASE ~presentation
      <3>1. UNCHANGED <<events, idle, dimmed, block, asleep, sleptAt>>
        BY <1>7a, <2>2 DEF ChangePresentationMode, backlightVars, napVars
      <3> QED BY <1>4, <3>1 DEF Has
    <2> QED BY <2>1, <2>2
  <1>8. CASE EventIgnored
    <2>1. /\ Handles("stale") /\ events' = Tail(events) /\ ~asleep'
          /\ UNCHANGED <<idle, dimmed, block>>
      BY <1>8 DEF EventIgnored, Handles, backlightVars, napVars
    <2>2. \A a \in Alarms : Has(events', a) => Has(events, a)
      BY <1>1, <2>1, Taken
    <2> QED BY <1>4, <2>1, <2>2
  <1>9. ASSUME NEW k \in Keys, BrightnessKey(k) PROVE Pressed'
    <2>1. Handles(k) /\ events' = Tail(events) /\ ~asleep' /\ UNCHANGED idle
      BY <1>9 DEF BrightnessKey, Handles, napVars
    <2>2. Has(events, k) /\ \A a \in Alarms : ~Has(events', a)
      BY <1>1, <2>1, Taken DEF Way
    <2>3. idle = 0
      BY <1>1, <2>2 DEF Way, MovedNow
    <2> QED BY <2>1, <2>2, <2>3 DEF Pressed
  <1>10. CASE SleepOnRequest
    <2>1. UNCHANGED <<events, idle, dimmed, block>> /\ sleptAt' = Disarmed
      BY <1>10 DEF SleepOnRequest, serverVars, backlightVars
    <2> QED BY <1>4, <2>1 DEF Has
  <1>11. CASE Wake
    <2>1. onBattery = ~acPlugged /\ acPlugged \in BOOLEAN /\ dimmed \in BOOLEAN /\ ~asleep'
      BY <1>2, <1>11 DEF Wake, SourceKnown, TypeOK
    <2>2. UNCHANGED <<events, idle, dimmed>> /\ (block' => block)
      BY <1>11, <2>1 DEF Wake
    <2> QED BY <2>1, <2>2 DEF Pressed, Has
  <1>12. ASSUME NEW id \in Alarms, NEW t \in 0..MaxIdle, SetTimeout(id, t) PROVE Pressed'
    <2>1. events = <<>> /\ idle = 0 /\ UNCHANGED dimmed
      BY <1>2, <1>12 DEF SetTimeout, backlightVars
    <2> QED BY <1>3, <2>1, BrightAtRest
  <1>13. CASE Tick
    <2>1. events = <<>> /\ UNCHANGED <<dimmed, block>>
      BY <1>2, <1>13 DEF Tick, daemonVars, backlightVars
    <2>2. ~(dimmed /\ block)
      BY <2>1, BrightAtRest DEF Pressed
    <2> QED BY <1>3, <2>1, <2>2
  <1>14. CASE Activity \/ \E k \in Keys : KeyPressed(k)
    <2>1. idle' = 0 /\ UNCHANGED <<dimmed, block, asleep, sleptAt>>
      BY <1>14 DEF Activity, KeyPressed, daemonVars, backlightVars, napVars
    <2>2. \A a \in Alarms : Has(events', a) => Has(events, a)
      BY <1>1, <1>14, Moved, GrownOf DEF TypeOK, Events
    <2> QED BY <1>4, <2>1, <2>2
  <1>15. CASE InhibitionChanged \/ PlugOrUnplug \/ \E l \in Levels : SliderMoved(l)
    <2>1. UNCHANGED <<events, idle, dimmed, block, asleep, sleptAt>>
      BY <1>15 DEF InhibitionChanged, PlugOrUnplug, SliderMoved, serverVars, daemonVars, backlightVars, napVars
    <2> QED BY <1>4, <2>1 DEF Has
  <1> QED BY <1>5, <1>6, <1>7, <1>7a, <1>8, <1>9, <1>10, <1>11, <1>12, <1>13, <1>14, <1>15 DEF Next

LEMMA RememberedStep ==
    ASSUME WorldsFit, KeepsUp, TypeOK, DimmedHasReset, Timely, Way, DimOnce, Pressed, Remembered, Next
    PROVE  Remembered'
  <1>1. \A before, l : Written(before, l) = {l}
    BY DEF Written, KeepsUp
  <1>2. SourceKnown /\ (Ready => events = <<>> /\ onBattery = ~acPlugged)
    BY DEF Timely, KeepsUp, Ready, CaughtUp
  <1>3. dimmed \in BOOLEAN /\ block \in BOOLEAN /\ asleep \in BOOLEAN /\ acPlugged \in BOOLEAN
    BY DEF TypeOK
  <1>4. /\ ~dimmed \/ block => level = wanted
        /\ asleep => savedLevel = level
        /\ dimmed /\ ~block => lastLevel = wanted
    BY DEF Remembered
  \* What "reset" brings back.
  <1>5. \A l \in Restored : l = wanted
    BY <1>1, <1>3, <1>4 DEF Restored
  <1>6. ASSUME UNCHANGED <<backlightVars, wanted, napVars>> PROVE Remembered'
    BY <1>4, <1>6 DEF Remembered, backlightVars, napVars
  <1>7. ASSUME NEW id \in Alarms, AlarmExpired(id) PROVE Remembered'
    <2>1. /\ Has(events, id) /\ ~asleep' /\ ~block' /\ UNCHANGED wanted
      BY <1>7, Taken DEF AlarmExpired, Handles, napVars
    <2>2. CASE id = DimAlarm /\ ~presentation
      <3>1. ~dimmed /\ level = wanted
        BY <1>4, <2>1, <2>2 DEF DimOnce
      <3>2. DimBrightness
        BY <1>7, <2>2 DEF AlarmExpired
      <3>3. /\ lastLevel' = wanted
            /\ dimmed' \/ (level' = wanted /\ ~dimmed')
        <4>1. CASE level > DimLevels[onBattery]
          <5>1. level' = DimLevels[onBattery] /\ dimmed' = (level' = DimLevels[onBattery])
            BY <1>1, <3>2, <4>1 DEF DimBrightness
          <5>2. lastLevel' = wanted
            BY <3>1, <3>2 DEF DimBrightness
          <5>3. dimmed'
            BY <5>1
          <5> QED BY <5>2, <5>3
        <4>2. CASE ~(level > DimLevels[onBattery])
          BY <3>1, <3>2, <4>2 DEF DimBrightness
        <4> QED BY <4>1, <4>2
      <3> QED BY <2>1, <3>3 DEF Remembered
    <2>3. CASE ~(id = DimAlarm /\ ~presentation)
      <3>1. UNCHANGED <<level, dimmed, lastLevel>>
        BY <1>7, <2>3 DEF AlarmExpired
      <3>2. ~(dimmed /\ block)
        BY <2>1 DEF Pressed
      <3> QED BY <1>3, <1>4, <2>1, <3>1, <3>2 DEF Remembered
    <2> QED BY <2>2, <2>3
  <1>8. CASE SleepOnRequest \/ \E id \in SleepAlarms : SleepOnIdle(id)
    <2>1. savedLevel' = level /\ UNCHANGED <<level, dimmed, block, lastLevel, wanted>>
      BY <1>8 DEF SleepOnRequest, SleepOnIdle, serverVars, backlightVars
    <2> QED BY <1>4, <2>1 DEF Remembered
  <1>9. CASE ResetAlarmExpired \/ PowerChanged \/ (ChangePresentationMode /\ presentation)
    <2>1. level' \in Restored /\ ~dimmed' /\ ~asleep' /\ UNCHANGED wanted
      BY <1>9 DEF ResetAlarmExpired, PowerChanged, ChangePresentationMode, ResetAll, Handles, napVars
    <2> QED BY <1>5, <2>1 DEF Remembered
  <1>10. ASSUME NEW k \in Keys, BrightnessKey(k) PROVE Remembered'
    BY <1>10 DEF BrightnessKey, Remembered, Handles, napVars
  <1>11. CASE Wake
    <2>1. onBattery = ~acPlugged /\ asleep /\ ~asleep'
      BY <1>2, <1>11 DEF Wake, SourceKnown
    <2>2. savedLevel = level
      BY <1>4, <2>1
    <2>3. UNCHANGED <<dimmed, lastLevel, wanted>> /\ block' = (block /\ sleptAt = Disarmed)
      BY <1>3, <1>11, <2>1 DEF Wake
    <2>4. level' = level
      BY <1>1, <1>3, <1>11, <2>1, <2>2 DEF Wake
    <2>5. sleptAt # Disarmed => ~(dimmed /\ block)
      BY <2>1 DEF Pressed
    <2> QED BY <1>3, <1>4, <2>1, <2>3, <2>4, <2>5 DEF Remembered
  <1>12. ASSUME NEW l \in Levels, SliderMoved(l) PROVE Remembered'
    <2>1. /\ events = <<>> /\ idle = 0 /\ ~asleep' /\ level' = wanted' /\ UNCHANGED dimmed
      BY <1>12 DEF SliderMoved, napVars
    <2> QED BY <2>1, BrightAtRest DEF Remembered
  <1>13. ASSUME \/ EventIgnored \/ Tick \/ Activity \/ PlugOrUnplug \/ InhibitionChanged
                \/ ChangePresentationMode /\ ~presentation
                \/ \E k \in Keys : KeyPressed(k)
                \/ \E id \in Alarms, t \in 0..MaxIdle : SetTimeout(id, t)
         PROVE  Remembered'
    BY <1>6, <1>13 DEF EventIgnored, Tick, Activity, PlugOrUnplug, InhibitionChanged,
       ChangePresentationMode, KeyPressed, SetTimeout, alarmVars,
       daemonVars, serverVars
  <1> QED BY <1>7, <1>8, <1>9, <1>10, <1>11, <1>12, <1>13 DEF Next

-----------------------------------------------------------------------------
(* The inductive invariant, and what follows from it. *)

LEMMA Initial == Init => IInv
  <1> SUFFICES ASSUME Init PROVE IInv
    OBVIOUS
  <1>1. events = <<>> /\ events \in Seq(Events) /\ Len(events) = 0 /\ MaxIdle \in Nat
    BY IdleAssumption DEF Init
  <1>2. Rest
    <2>1. /\ world \in Worlds /\ idle = 0 /\ acPlugged \in BOOLEAN /\ level \in Levels
          /\ timeout \in [Alarms -> 0..MaxIdle] /\ presentation \in BOOLEAN /\ inhibited \in BOOLEAN
      BY DEF Init
    <2>2. Disarmed \in 1..Disarmed /\ Disarmed \in 0..Disarmed /\ 0 \in 0..MaxIdle
      BY <1>1 DEF Disarmed
    <2> QED BY <2>1, <2>2 DEF Init, Rest
  <1>3. Counted /\ DimmedHasReset /\ Timely
    BY <1>1 DEF Init, Counted, DimmedHasReset, Timely, SourceKnown, InTime
  <1> QED BY <1>1, <1>2, <1>3, RestIs DEF IInv

LEMMA Inductive == IInv /\ [Next]_vars => IInv'
  <1>1. ASSUME IInv, Next PROVE IInv'
    <2>1. events' \in Seq(Events) /\ Counted' /\ Rest' /\ DimmedHasReset' /\ Timely'
      BY <1>1, QueueStep, RestStep, TimelyStep DEF IInv
    <2>2. TypeOK'
      BY <2>1 DEF TypeOK, Rest, Events
    <2> QED BY <2>1, <2>2 DEF IInv
  <1>2. ASSUME IInv, UNCHANGED vars PROVE IInv'
    BY <1>2 DEF IInv, vars, serverVars, alarmVars, backlightVars, modeVars, napVars, TypeOK, Counted,
       DimmedHasReset, Timely, KeepsUp, SourceKeptAsleep, SourceKnown, InTime, SleepAlarm
  <1> QED BY <1>1, <1>2

LEMMA AlwaysIInv == Spec => []IInv
  BY Initial, Inductive, PTL DEF Spec

(* The variables keep their types; reset_set says whether the reset alarm is *)
(* armed.                                                                    *)
THEOREM TypeCorrect == Spec => []TypeOK
  <1>1. IInv => TypeOK
    BY DEF IInv
  <1> QED BY AlwaysIInv, <1>1, PTL

(* However late the daemon is and whatever fails, a screen that             *)
(* blpm_backlight_dim_brightness dimmed has an armed reset alarm.           *)
THEOREM DimmedAlwaysHasReset == Spec => []DimmedHasReset
  <1>1. IInv => DimmedHasReset
    BY DEF IInv
  <1> QED BY AlwaysIInv, <1>1, PTL

(* An idle alarm of a daemon that keeps up puts the machine to sleep only   *)
(* when the user has been away for its time.                                *)
THEOREM AlwaysSleepsWhenIdle == Spec => SleepsWhenIdle
  <1>1. ASSUME IInv, KeepsUp, NEW id \in SleepAlarms, SleepOnIdle(id)
        PROVE  idle >= timeout[id]
    <2>1. events[1].id = SleepAlarm /\ 1 \in 1..Len(events) /\ id = SleepAlarm
      BY <1>1, HandlesOf DEF SleepOnIdle, Sleeps, IInv
    <2> QED BY <1>1, <2>1 DEF IInv, Timely, InTime
  <1>2. IInv => (KeepsUp => \A id \in SleepAlarms : SleepOnIdle(id) => idle >= timeout[id])
    BY <1>1
  <1> QED BY AlwaysIInv, <1>2, PTL DEF SleepsWhenIdle

(* In the worlds that fit the alarms, the queue and the backlight do too.   *)
Fits == KeepsUp => Way /\ DimOnce /\ Pressed /\ Remembered

LEMMA FitsInit == ASSUME WorldsFit, IInv, Init PROVE Fits
  <1> SUFFICES ASSUME KeepsUp PROVE Way /\ DimOnce /\ Pressed /\ Remembered
    BY DEF Fits
  <1>1. TypeOK
    BY DEF IInv
  <1>2. Way
    BY <1>1, WayInit
  <1>3. Len(events) = 0 /\ ~dimmed /\ ~asleep /\ level = wanted
    BY DEF Init
  <1> QED BY <1>2, <1>3 DEF DimOnce, Once, Has, Pressed, Remembered

LEMMA FitsStep == ASSUME WorldsFit, IInv, Fits, [Next]_vars PROVE Fits'
  <1>1. CASE Next
    <2> SUFFICES ASSUME KeepsUp' PROVE (Way /\ DimOnce /\ Pressed /\ Remembered)'
      BY DEF Fits
    <2>1. KeepsUp
      BY <1>1 DEF Next, KeepsUp, SourceKeptAsleep
    <2>2. /\ TypeOK /\ Counted /\ DimmedHasReset /\ Timely
          /\ Way /\ DimOnce /\ Pressed /\ Remembered
      BY <2>1 DEF IInv, Fits
    <2>3. Way'
      BY <1>1, <2>1, <2>2, WayStep
    <2> QED BY <1>1, <2>1, <2>2, <2>3, DimOnceStep, PressedStep, RememberedStep
  <1>2. CASE UNCHANGED vars
    BY <1>2 DEF Fits, vars, serverVars, alarmVars, backlightVars, modeVars, napVars, KeepsUp,
       SourceKeptAsleep, Way, PresentOnly, Reconfigured, ResetComes, DimsSeen, MovedNow, InOrder, Apart, Passed, Alive, Sleeper,
       DimOnce, DimAlarm, Once, Has, Pressed, Remembered
  <1> QED BY <1>1, <1>2

LEMMA AlwaysFits == ASSUME WorldsFit PROVE Spec => []Fits
  <1>1. IInv /\ Init => Fits
    BY FitsInit
  <1>2. IInv /\ Fits /\ [Next]_vars => Fits'
    BY FitsStep
  <1> QED BY <1>1, <1>2, AlwaysIInv, PTL DEF Spec

(* When the daemon has handled everything and the user is there the screen  *)
(* is not dimmed: each alarm that dimmed it has armed the reset alarm below *)
(* a counter value that was reached, and the user's move has triggered it.  *)
THEOREM ActiveAlwaysBright == ASSUME WorldsFit PROVE Spec => []ActiveIsBright
  <1>1. ASSUME IInv, Fits PROVE ActiveIsBright
    <2> SUFFICES ASSUME KeepsUp, CaughtUp, idle = 0 PROVE ~dimmed
      BY DEF ActiveIsBright
    <2> QED BY <1>1, BrightAtRest DEF IInv, Fits, CaughtUp
  <1>2. IInv /\ Fits => ActiveIsBright
    BY <1>1
  <1> QED BY <1>2, AlwaysIInv, AlwaysFits, PTL

(* A screen that is not dimmed has the brightness the user chose, through   *)
(* any absences, brightness keys, sleeps and changes of the settings.       *)
THEOREM BrightnessAlwaysRestored == ASSUME WorldsFit PROVE Spec => []BrightnessRestored
  <1>1. Fits => BrightnessRestored
    BY DEF Fits, Remembered, BrightnessRestored
  <1> QED BY <1>1, AlwaysFits, PTL

=============================================================================
