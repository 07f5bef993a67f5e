----------------------------- MODULE SleepProofs -----------------------------
(* For every set of settings, every answer of the user and every bound of the *)
(* stack: what holds however handlers interrupt each other.                   *)
EXTENDS Sleep, SequenceTheorems, TLAPS

Frames == SleepFrames \cup PropsFrames \cup ErrorFrames
Checks == {"lid", "power"}

\* None of these calls has a frame in s.
Without(s, kinds) == \A i \in 1..Len(s) : s[i].at \notin kinds

\* The lid is checked at once: nothing runs between the reading and the check, and what was
\* read is what UPower last told.
LidRead ==
    /\ stack # <<>> => Without(Return, {"lid"})
    /\ IF At("lid") THEN Head(stack).lid = upower.lid ELSE lidIsClosed = upower.lid

\* How high a call may be that is not a check; a lid that has changed is found by a handler of
\* the main loop.
Low(s) == \A i \in 1..Len(s) : s[i].at \notin Checks => Len(s) <= MaxFrames + i

Heights ==
    /\ Len(stack) <= MaxFrames + 2
    /\ Low(stack)
    /\ At("lid") /\ Head(stack).lid # lidIsClosed => Len(stack) <= MaxFrames

\* Checks hold the source bat; no dialog waits on top of a check.
Heard(s, bat) == \A i \in 1..Len(s) : s[i].at \in Checks => s[i].bat = bat
Quiet(s)      == \A i \in 1..Len(s) : s[i].at \in Checks => \A j \in 1..i : s[j].at \notin Dialogs

\* While locks work no dialog is opened from within a check, so the check ends with the source
\* that UPower last told.
Sources ==
    LockWorks =>
        /\ Heard(stack, upower.bat) /\ Quiet(stack)
        /\ Without(stack, Checks) => onBattery = upower.bat
        /\ Without(stack, {"lock", "error"})

\* A network that sleeps has a handler under way that will wake it.
Waking(f) == f.at \in {"lock", "suspend", "restore"} /\ f.nm
Wakes(s)  == \E i \in 1..Len(s) : Waking(s[i])

Networks == GoesOn /\ nmAsleep => Wakes(stack)

\* A sleep that no question holds up any more is one that may go on.
Consents ==
    /\ stack # <<>> => Without(Return, {"prepare", "suspend"})
    /\ LockWorks /\ (At("prepare") \/ At("suspend")) /\ inhibited =>
         Head(stack).force \/ Head(stack).yes

\* An open lid has its panel on, also while handlers run.
Panels == (\A c \in world.configs : ~c.logindLid) /\ ~lidIsClosed => ~dpmsOff

IInv == TypeOK /\ LidRead /\ Heights /\ Sources /\ Networks /\ Consents /\ Panels
-----------------------------------------------------------------------------
(* The stack: calls, returns, and the frame that goes on. *)

LEMMA CallOf ==
    ASSUME NEW f \in Frames, NEW s \in Seq(Frames)
    PROVE  /\ Call(f, s) \in Seq(Frames) /\ Call(f, s) # <<>> /\ Head(Call(f, s)) = f
           /\ Len(s) \in Nat /\ Len(Call(f, s)) = Len(s) + 1 /\ Call(f, s)[1] = f
           /\ \A i \in 2..Len(s) + 1 : i - 1 \in 1..Len(s) /\ Call(f, s)[i] = s[i - 1]
           /\ \A i \in 1..Len(s) : Call(f, s)[i + 1] = s[i]
  <1> DEFINE one == <<f>>
  <1>1. one \in Seq(Frames) /\ Len(one) = 1 /\ one[1] = f
    OBVIOUS
  <1>2. Call(f, s) = one \o s
    BY DEF Call
  <1> HIDE DEF one
  <1>3. /\ one \o s \in Seq(Frames) /\ Len(one \o s) = Len(one) + Len(s)
        /\ \A i \in 1..Len(one) + Len(s) :
             (one \o s)[i] = IF i <= Len(one) THEN one[i] ELSE s[i - Len(one)]
    BY <1>1, ConcatProperties, Zenon
  <1> DEFINE c == one \o s
  <1>4. /\ c \in Seq(Frames) /\ Len(c) = Len(one) + Len(s)
        /\ \A i \in 1..Len(one) + Len(s) : c[i] = IF i <= Len(one) THEN one[i] ELSE s[i - Len(one)]
    BY <1>3
  <1> HIDE DEF c
  <1>5. /\ Len(s) \in Nat /\ Len(c) = Len(s) + 1 /\ c[1] = f
        /\ \A i \in 2..Len(s) + 1 : i - 1 \in 1..Len(s) /\ c[i] = s[i - 1]
        /\ \A i \in 1..Len(s) : c[i + 1] = s[i]
    BY <1>1, <1>4
  <1>6. c # <<>> /\ Head(c) = c[1]
    BY <1>4, <1>5
  <1> QED BY <1>2, <1>4, <1>5, <1>6 DEF c

LEMMA ReturnOf ==
    ASSUME stack \in Seq(Frames), stack # <<>>
    PROVE  /\ Return \in Seq(Frames) /\ Len(stack) \in Nat \ {0} /\ Len(Return) = Len(stack) - 1
           /\ Head(stack) \in Frames /\ Head(stack) = stack[1]
           /\ \A i \in 1..Len(Return) : i + 1 \in 1..Len(stack) /\ Return[i] = stack[i + 1]
           /\ \A i \in 2..Len(stack) : i - 1 \in 1..Len(Return) /\ Return[i - 1] = stack[i]
           /\ Len(stack) = 1 => Return = <<>>
  BY DEF Return

LEMMA GotoOf ==
    ASSUME stack \in Seq(Frames), stack # <<>>, NEW f \in Frames
    PROVE  /\ Goto(f) \in Seq(Frames) /\ Goto(f) # <<>> /\ Head(Goto(f)) = f
           /\ Len(Goto(f)) = Len(stack) /\ Goto(f)[1] = f
           /\ \A i \in 2..Len(stack) : Goto(f)[i] = stack[i]
  <1>1. Goto(f) = Call(f, Return)
    BY DEF Goto, Call, Return
  <1>2. /\ Return \in Seq(Frames) /\ Len(stack) \in Nat \ {0} /\ Len(Return) = Len(stack) - 1
        /\ \A i \in 2..Len(stack) : i - 1 \in 1..Len(Return) /\ Return[i - 1] = stack[i]
    BY ReturnOf
  <1>3. /\ Call(f, Return) \in Seq(Frames) /\ Call(f, Return) # <<>> /\ Head(Call(f, Return)) = f
        /\ Len(Call(f, Return)) = Len(Return) + 1 /\ Call(f, Return)[1] = f
        /\ \A i \in 2..Len(Return) + 1 : Call(f, Return)[i] = Return[i - 1]
    BY <1>2, CallOf
  <1> QED BY <1>1, <1>2, <1>3

LEMMA WithoutOf ==
    ASSUME NEW kinds
    PROVE  /\ \A f \in Frames, s \in Seq(Frames) :
                /\ Without(Call(f, s), kinds) <=> f.at \notin kinds /\ Without(s, kinds)
                /\ Without(Tail(Call(f, s)), kinds) <=> Without(s, kinds)
           /\ \A s \in Seq(Frames) : s # <<>> =>
                /\ Tail(s) \in Seq(Frames)
                /\ Without(s, kinds) <=> Head(s).at \notin kinds /\ Without(Tail(s), kinds)
  <1>1. ASSUME NEW s \in Seq(Frames), s # <<>>
        PROVE  /\ Tail(s) \in Seq(Frames)
               /\ Without(s, kinds) <=> Head(s).at \notin kinds /\ Without(Tail(s), kinds)
    <2>1. /\ Tail(s) \in Seq(Frames) /\ Len(s) \in Nat \ {0} /\ Len(Tail(s)) = Len(s) - 1
          /\ Head(s) = s[1]
          /\ \A i \in 1..Len(Tail(s)) : i + 1 \in 1..Len(s) /\ Tail(s)[i] = s[i + 1]
          /\ \A i \in 2..Len(s) : i - 1 \in 1..Len(Tail(s)) /\ Tail(s)[i - 1] = s[i]
      BY <1>1
    <2>2. Without(s, kinds) => Head(s).at \notin kinds /\ Without(Tail(s), kinds)
      BY <2>1 DEF Without
    <2>3. ASSUME Head(s).at \notin kinds, Without(Tail(s), kinds), NEW i \in 1..Len(s)
          PROVE  s[i].at \notin kinds
      <3>1. CASE i = 1
        BY <2>1, <2>3, <3>1
      <3>2. CASE i # 1
        <4>1. i \in 2..Len(s)
          BY <2>1, <3>2
        <4> QED BY <2>1, <2>3, <4>1 DEF Without
      <3> QED BY <3>1, <3>2
    <2> QED BY <2>1, <2>2, <2>3 DEF Without
  <1>2. ASSUME NEW f \in Frames, NEW s \in Seq(Frames)
        PROVE  /\ Without(Call(f, s), kinds) <=> f.at \notin kinds /\ Without(s, kinds)
               /\ Without(Tail(Call(f, s)), kinds) <=> Without(s, kinds)
    <2> DEFINE c == Call(f, s)
    <2>1. /\ c \in Seq(Frames) /\ c # <<>> /\ Head(c) = f /\ Len(s) \in Nat /\ Len(c) = Len(s) + 1
          /\ \A i \in 1..Len(s) : c[i + 1] = s[i]
      BY CallOf
    <2> HIDE DEF c
    <2>2. Len(Tail(c)) = Len(s) /\ \A i \in 1..Len(s) : Tail(c)[i] = c[i + 1]
      BY <2>1
    <2>3. Without(Tail(c), kinds) <=> Without(s, kinds)
      BY <2>1, <2>2 DEF Without
    <2>4. Without(c, kinds) <=> Head(c).at \notin kinds /\ Without(Tail(c), kinds)
      BY <1>1, <2>1
    <2> QED BY <2>1, <2>3, <2>4 DEF c
  <1> QED BY <1>1, <1>2

\* A stack is its top called on the rest.
LEMMA SplitOf ==
    ASSUME NEW s \in Seq(Frames), s # <<>>
    PROVE  Head(s) \in Frames /\ Tail(s) \in Seq(Frames) /\ s = Call(Head(s), Tail(s))
  <1> DEFINE h == Head(s)
             t == Tail(s)
             c == Call(h, t)
  <1>1. /\ h \in Frames /\ t \in Seq(Frames) /\ Len(s) \in Nat \ {0}
        /\ Len(t) = Len(s) - 1 /\ h = s[1]
        /\ \A i \in 2..Len(s) : t[i - 1] = s[i]
    OBVIOUS
  <1> HIDE DEF h, t
  <1>2. /\ c \in Seq(Frames) /\ Len(c) = Len(t) + 1 /\ c[1] = h
        /\ \A i \in 2..Len(t) + 1 : c[i] = t[i - 1]
    BY <1>1, CallOf, Zenon
  <1> HIDE DEF c
  <1>3. Len(c) = Len(s)
    BY <1>1, <1>2
  <1>4. ASSUME NEW i \in 1..Len(s) PROVE s[i] = c[i]
    <2>1. CASE i = 1
      BY <1>1, <1>2, <2>1
    <2>2. CASE i # 1
      <3>1. i \in 2..Len(s) /\ i \in 2..Len(t) + 1
        BY <1>1, <2>2
      <3> QED BY <1>1, <1>2, <3>1
    <2> QED BY <2>1, <2>2
  <1>5. s = c
    BY <1>2, <1>3, <1>4, SeqEqual
  <1> QED BY <1>1, <1>5 DEF c, h, t

\* What a call adds to each of the conditions on the stack.
LEMMA LowOf ==
    ASSUME NEW f \in Frames, NEW s \in Seq(Frames), MaxFrames \in Nat
    PROVE  Low(Call(f, s)) <=> Low(s) /\ (f.at \notin Checks => Len(s) <= MaxFrames)
  <1> DEFINE c == Call(f, s)
  <1>1. /\ Len(s) \in Nat /\ Len(c) = Len(s) + 1 /\ c[1] = f
        /\ \A i \in 2..Len(s) + 1 : i - 1 \in 1..Len(s) /\ c[i] = s[i - 1]
        /\ \A i \in 1..Len(s) : c[i + 1] = s[i]
    BY CallOf
  <1> HIDE DEF c
  <1>2. ASSUME Low(c) PROVE Low(s) /\ (f.at \notin Checks => Len(s) <= MaxFrames)
    <2>1. ASSUME NEW i \in 1..Len(s), s[i].at \notin Checks PROVE Len(s) <= MaxFrames + i
      <3>1. i + 1 \in 1..Len(c) /\ c[i + 1].at \notin Checks
        BY <1>1, <2>1
      <3>2. Len(c) <= MaxFrames + (i + 1)
        BY <1>2, <3>1 DEF Low
      <3> QED BY <1>1, <3>2
    <2>2. 1 \in 1..Len(c)
      BY <1>1
    <2>3. f.at \notin Checks => Len(c) <= MaxFrames + 1
      BY <1>1, <1>2, <2>2 DEF Low
    <2> QED BY <1>1, <2>1, <2>3 DEF Low
  <1>3. ASSUME Low(s), f.at \notin Checks => Len(s) <= MaxFrames PROVE Low(c)
    <2>1. ASSUME NEW i \in 1..Len(c), c[i].at \notin Checks PROVE Len(c) <= MaxFrames + i
      <3>1. CASE i = 1
        BY <1>1, <1>3, <2>1, <3>1
      <3>2. CASE i # 1
        <4>1. i \in 2..Len(s) + 1
          BY <1>1, <3>2
        <4>2. i - 1 \in 1..Len(s) /\ s[i - 1].at \notin Checks
          BY <1>1, <2>1, <4>1
        <4>3. Len(s) <= MaxFrames + (i - 1)
          BY <1>3, <4>2 DEF Low
        <4> QED BY <1>1, <4>1, <4>3
      <3> QED BY <3>1, <3>2
    <2> QED BY <2>1 DEF Low
  <1> QED BY <1>2, <1>3 DEF c

LEMMA HeardOf ==
    ASSUME NEW f \in Frames, NEW s \in Seq(Frames), NEW bat
    PROVE  Heard(Call(f, s), bat) <=> Heard(s, bat) /\ (f.at \in Checks => f.bat = bat)
  <1> DEFINE c == Call(f, s)
  <1>1. /\ Len(s) \in Nat /\ Len(c) = Len(s) + 1 /\ c[1] = f
        /\ \A i \in 2..Len(s) + 1 : i - 1 \in 1..Len(s) /\ c[i] = s[i - 1]
        /\ \A i \in 1..Len(s) : c[i + 1] = s[i]
    BY CallOf
  <1> HIDE DEF c
  <1>2. 1 \in 1..Len(c) /\ (\A i \in 1..Len(s) : i + 1 \in 1..Len(c))
        /\ \A i \in 1..Len(c) : i = 1 \/ i \in 2..Len(s) + 1
    BY <1>1
  <1> QED BY <1>1, <1>2 DEF Heard, c

LEMMA WakesOf ==
    ASSUME NEW f \in Frames, NEW s \in Seq(Frames)
    PROVE  Wakes(Call(f, s)) <=> Wakes(s) \/ Waking(f)
  <1> DEFINE c == Call(f, s)
  <1>1. /\ Len(s) \in Nat /\ Len(c) = Len(s) + 1 /\ c[1] = f
        /\ \A i \in 2..Len(s) + 1 : i - 1 \in 1..Len(s) /\ c[i] = s[i - 1]
        /\ \A i \in 1..Len(s) : c[i + 1] = s[i]
    BY CallOf
  <1> HIDE DEF c
  <1>2. 1 \in 1..Len(c) /\ (\A i \in 1..Len(s) : i + 1 \in 1..Len(c))
        /\ \A i \in 1..Len(c) : i = 1 \/ i \in 2..Len(s) + 1
    BY <1>1
  <1> QED BY <1>1, <1>2 DEF Wakes, c

LEMMA QuietOf ==
    ASSUME NEW f \in Frames, NEW s \in Seq(Frames)
    PROVE  Quiet(Call(f, s)) <=> Quiet(s) /\ (f.at \in Dialogs => Without(s, Checks))
  <1> DEFINE c == Call(f, s)
  <1>1. /\ Len(s) \in Nat /\ Len(c) = Len(s) + 1 /\ c[1] = f
        /\ \A i \in 2..Len(s) + 1 : i - 1 \in 1..Len(s) /\ c[i] = s[i - 1]
        /\ \A i \in 1..Len(s) : c[i + 1] = s[i]
    BY CallOf
  <1> HIDE DEF c
  <1>2. ASSUME Quiet(c), NEW i \in 1..Len(s), s[i].at \in Checks
        PROVE  f.at \notin Dialogs /\ \A j \in 1..i : s[j].at \notin Dialogs
    <2>1. i + 1 \in 1..Len(c) /\ c[i + 1].at \in Checks
      BY <1>1, <1>2
    <2>2. \A j \in 1..i + 1 : c[j].at \notin Dialogs
      BY <1>2, <2>1 DEF Quiet
    <2>3. 1 \in 1..i + 1 /\ \A j \in 1..i : j + 1 \in 1..i + 1 /\ j \in 1..Len(s)
      BY <1>1
    <2> QED BY <1>1, <2>2, <2>3
  <1>3. ASSUME Quiet(s), f.at \in Dialogs => Without(s, Checks),
               NEW i \in 1..Len(c), c[i].at \in Checks, NEW j \in 1..i
        PROVE  c[j].at \notin Dialogs
    <2>1. CASE i = 1
      BY <1>1, <1>3, <2>1 DEF Checks, Dialogs
    <2>2. CASE i # 1
      <3>1. i \in 2..Len(s) + 1
        BY <1>1, <2>2
      <3>2. i - 1 \in 1..Len(s) /\ s[i - 1].at \in Checks
        BY <1>1, <1>3, <3>1
      <3>3. CASE j = 1
        BY <1>1, <1>3, <3>2, <3>3 DEF Without
      <3>4. CASE j # 1
        <4>1. j - 1 \in 1..i - 1 /\ j \in 2..Len(s) + 1
          BY <3>1, <3>4
        <4> QED BY <1>1, <1>3, <3>2, <4>1 DEF Quiet
      <3> QED BY <3>3, <3>4
    <2> QED BY <2>1, <2>2
  <1>4. Quiet(c) => Quiet(s) /\ (f.at \in Dialogs => Without(s, Checks))
    BY <1>2 DEF Quiet, Without
  <1>5. Quiet(s) /\ (f.at \in Dialogs => Without(s, Checks)) => Quiet(c)
    BY <1>3 DEF Quiet
  <1> QED BY <1>4, <1>5 DEF c

\* A frame that goes on is called in place of the one on top.
LEMMA GotoIs == ASSUME NEW f PROVE Goto(f) = Call(f, Return)
  BY DEF Goto, Call, Return

\* What is on top of the stack, by the call it is in.
LEMMA TopOf ==
    ASSUME TypeOK, NEW pc, At(pc)
    PROVE  /\ stack \in Seq(Frames) /\ stack # <<>> /\ Len(stack) \in Nat \ {0}
           /\ Head(stack) = stack[1] /\ stack[1].at = pc /\ Head(stack).at = pc
           /\ pc \in {"confirm", "prepare", "lock", "suspend", "restore"} => Head(stack) \in SleepFrames
           /\ pc \in Checks => Head(stack) \in PropsFrames
  <1>1. stack \in Seq(Frames) /\ stack # <<>> /\ Head(stack).at = pc
    BY DEF TypeOK, Frames, At
  <1>2. Len(stack) \in Nat \ {0} /\ Head(stack) = stack[1] /\ Head(stack) \in Frames
    BY <1>1, ReturnOf
  <1>3. /\ \A f \in SleepFrames : f.at \notin Checks
        /\ \A f \in PropsFrames : f.at \in Checks
        /\ \A f \in ErrorFrames : f.at = "error"
    BY DEF SleepFrames, PropsFrames, ErrorFrames, Checks
  <1> QED BY <1>1, <1>2, <1>3 DEF Frames, Checks

\* The frames that the handlers push or go on with.
LEMMA FramesAre ==
    ASSUME TypeOK
    PROVE  /\ \A force \in BOOLEAN : PowerSleep(force) \in SleepFrames
           /\ \A read \in Hardware : GetProperties(read) \in PropsFrames
           /\ [at |-> "error"] \in ErrorFrames
           /\ SleepFrames \subseteq Frames /\ PropsFrames \subseteq Frames /\ ErrorFrames \subseteq Frames
  BY DEF TypeOK, PowerSleep, GetProperties, SleepFrames, PropsFrames, ErrorFrames, Frames, Hardware

LEMMA WorldIs ==
    ASSUME TypeOK
    PROVE  /\ world.configs \subseteq ConfigType /\ world.answers \subseteq BOOLEAN
           /\ conf \in ConfigType /\ MaxFrames \in Nat /\ Levels \subseteq Nat
  BY WorldsAssumption, BoundsAssumption DEF TypeOK

\* A handler of the lid returns, opens a dialog about the lock, or goes to sleep without a
\* question; and it turns the panel on for an open lid that is not logind's.
LEMMA LidCalls ==
    ASSUME TypeOK, NEW closed, NEW caller, LidChanged(closed, caller)
    PROVE  /\ \/ stack' = caller
              \/ stack' = Call([at |-> "error"], caller) /\ world.answers # {}
              \/ stack' = Call(PowerSleep(TRUE), caller)
           /\ dpmsOff' \in BOOLEAN
           /\ ~closed => conf.logindLid \/ dpmsOff' = FALSE
  <1>1. dpmsOff \in BOOLEAN
    BY DEF TypeOK
  <1>2. CASE conf.logindLid /\ stack' = caller /\ UNCHANGED dpmsOff
    BY <1>1, <1>2
  <1>3. CASE ~conf.logindLid /\ closed /\ LidClosed(caller)
    BY <1>1, <1>3 DEF LidClosed
  <1>4. CASE ~conf.logindLid /\ ~closed /\ dpmsOff' = FALSE /\ stack' = caller
    BY <1>4
  <1> QED BY <1>2, <1>3, <1>4 DEF LidChanged

-----------------------------------------------------------------------------
(* What each handler makes of the stack. *)

LEMMA PowerSleepOf ==
    ASSUME TypeOK, NEW force \in BOOLEAN
    PROVE  /\ PowerSleep(force) \in Frames /\ PowerSleep(force).at \in {"confirm", "prepare"}
           /\ PowerSleep(force).force = force
           /\ PowerSleep(force).at = "prepare" <=> (inhibited => force)
           /\ PowerSleep(TRUE).at = "prepare"
  BY FramesAre DEF PowerSleep, TypeOK

LEMMA GetPropertiesOf ==
    ASSUME TypeOK, NEW read \in Hardware
    PROVE  /\ GetProperties(read) \in Frames /\ GetProperties(read).at = "lid"
           /\ GetProperties(read).lid = read.lid /\ GetProperties(read).bat = read.bat
  BY FramesAre DEF GetProperties

LEMMA CheckLidOf ==
    ASSUME TypeOK, CheckLid
    PROVE  /\ stack \in Seq(Frames) /\ stack # <<>> /\ Head(stack).at = "lid"
           /\ Return \in Seq(Frames) /\ Head(stack).lid \in BOOLEAN
           /\ \E f \in Frames :
                /\ f.at = "power" /\ f.bat = Head(stack).bat
                /\ \/ stack' = Goto(f)
                   \/ /\ Head(stack).lid # lidIsClosed
                      /\ \/ stack' = Call([at |-> "error"], Goto(f)) /\ world.answers # {}
                         \/ stack' = Call(PowerSleep(TRUE), Goto(f))
  <1> DEFINE f == [Head(stack) EXCEPT !.at = "power"]
  <1>1. /\ stack \in Seq(Frames) /\ stack # <<>> /\ Head(stack).at = "lid"
        /\ Return \in Seq(Frames) /\ Head(stack) \in PropsFrames
    BY TopOf, ReturnOf DEF CheckLid, Checks
  <1>2. f \in Frames /\ f.at = "power" /\ f.bat = Head(stack).bat /\ Head(stack).lid \in BOOLEAN
    BY <1>1 DEF Frames, PropsFrames
  <1>3. \/ stack' = Goto(f)
        \/ Head(stack).lid # lidIsClosed /\ LidChanged(Head(stack).lid, Goto(f))
    BY DEF CheckLid
  <1> HIDE DEF f
  <1> QED BY <1>1, <1>2, <1>3, LidCalls

LEMMA CheckPowerOf ==
    ASSUME TypeOK, CheckPower
    PROVE  /\ stack \in Seq(Frames) /\ stack # <<>> /\ Head(stack).at = "power"
           /\ Return \in Seq(Frames) /\ stack' = Return /\ onBattery' = Head(stack).bat
  BY TopOf, ReturnOf DEF CheckPower, Checks

LEMMA ConfirmAnsweredOf ==
    ASSUME TypeOK, NEW yes, ConfirmAnswered(yes)
    PROVE  /\ stack \in Seq(Frames) /\ stack # <<>> /\ Head(stack).at = "confirm"
           /\ Return \in Seq(Frames)
           /\ \/ stack' = Return
              \/ \E f \in Frames : stack' = Goto(f) /\ f.at = "prepare" /\ f.yes
  <1>1. /\ stack \in Seq(Frames) /\ stack # <<>> /\ Head(stack).at = "confirm"
        /\ Return \in Seq(Frames) /\ Head(stack) \in SleepFrames
    BY TopOf, ReturnOf DEF ConfirmAnswered
  <1> DEFINE f == [Head(stack) EXCEPT !.at = "prepare", !.yes = TRUE]
  <1>2. f \in Frames /\ f.at = "prepare" /\ f.yes
    BY <1>1 DEF Frames, SleepFrames
  <1>3. stack' = Return \/ stack' = Goto(f)
    BY DEF ConfirmAnswered
  <1> HIDE DEF f
  <1> QED BY <1>1, <1>2, <1>3

LEMMA PrepareOf ==
    ASSUME TypeOK, Prepare
    PROVE  /\ stack \in Seq(Frames) /\ stack # <<>> /\ Head(stack).at = "prepare"
           /\ Return \in Seq(Frames)
           /\ \E f \in Frames :
                /\ stack' = Goto(f) /\ f.at \in {"lock", "suspend"}
                /\ f.at = "lock" => world.answers # {}
                /\ f.nm = conf.nm /\ f.force = Head(stack).force /\ f.yes = Head(stack).yes
  <1>1. /\ stack \in Seq(Frames) /\ stack # <<>> /\ Head(stack).at = "prepare"
        /\ Return \in Seq(Frames) /\ Head(stack) \in SleepFrames
    BY TopOf, ReturnOf DEF Prepare
  <1>2. PICK at \in {"lock", "suspend"} :
          /\ at = "lock" => world.answers # {}
          /\ stack' = Goto([Head(stack) EXCEPT !.at = at, !.nm = conf.nm, !.saved = level])
    BY DEF Prepare
  <1> DEFINE f == [Head(stack) EXCEPT !.at = at, !.nm = conf.nm, !.saved = level]
  <1>3. /\ f \in Frames /\ f.at = at
        /\ f.nm = conf.nm /\ f.force = Head(stack).force /\ f.yes = Head(stack).yes
    BY <1>1, WorldIs DEF Frames, SleepFrames, TypeOK, ConfigType
  <1>4. stack' = Goto(f)
    BY <1>2
  <1> HIDE DEF f
  <1> QED BY <1>1, <1>2, <1>3, <1>4

LEMMA LockAnsweredOf ==
    ASSUME TypeOK, NEW yes \in BOOLEAN, LockAnswered(yes)
    PROVE  /\ stack \in Seq(Frames) /\ stack # <<>> /\ Head(stack).at = "lock"
           /\ Return \in Seq(Frames) /\ yes \in world.answers
           /\ \/ stack' = Return /\ yes = FALSE
              \/ \E f \in Frames :
                    stack' = Goto(f) /\ f.at = "suspend" /\ f.nm = Head(stack).nm
  <1>1. /\ stack \in Seq(Frames) /\ stack # <<>> /\ Head(stack).at = "lock"
        /\ Return \in Seq(Frames) /\ Head(stack) \in SleepFrames
    BY TopOf, ReturnOf DEF LockAnswered
  <1> DEFINE f == [Head(stack) EXCEPT !.at = "suspend"]
  <1>2. f \in Frames /\ f.at = "suspend" /\ f.nm = Head(stack).nm
    BY <1>1 DEF Frames, SleepFrames
  <1>3. yes \in world.answers /\ (stack' = Goto(f) \/ (yes = FALSE /\ stack' = Return))
    BY DEF LockAnswered
  <1> HIDE DEF f
  <1> QED BY <1>1, <1>2, <1>3

LEMMA SuspendOf ==
    ASSUME TypeOK, Suspend
    PROVE  /\ stack \in Seq(Frames) /\ stack # <<>> /\ Head(stack).at = "suspend"
           /\ Return \in Seq(Frames)
           /\ \E f \in Frames :
                /\ f.at = "restore" /\ f.nm = Head(stack).nm
                /\ stack' = Call(GetProperties(upower), Goto(f))
  <1>1. /\ stack \in Seq(Frames) /\ stack # <<>> /\ Head(stack).at = "suspend"
        /\ Return \in Seq(Frames) /\ Head(stack) \in SleepFrames
    BY TopOf, ReturnOf DEF Suspend
  <1> DEFINE f == [Head(stack) EXCEPT !.at = "restore"]
  <1>2. f \in Frames /\ f.at = "restore" /\ f.nm = Head(stack).nm
    BY <1>1 DEF Frames, SleepFrames
  <1>3. stack' = Call(GetProperties(upower), Goto(f))
    BY DEF Suspend
  <1> HIDE DEF f
  <1> QED BY <1>1, <1>2, <1>3

LEMMA RestoreOf ==
    ASSUME TypeOK, Restore
    PROVE  /\ stack \in Seq(Frames) /\ stack # <<>> /\ Head(stack).at = "restore"
           /\ Return \in Seq(Frames) /\ stack' = Return /\ Head(stack).nm \in BOOLEAN
  BY TopOf, ReturnOf DEF Restore, SleepFrames

LEMMA ErrorClosedOf ==
    ASSUME TypeOK, ErrorClosed
    PROVE  /\ stack \in Seq(Frames) /\ stack # <<>> /\ Head(stack).at = "error"
           /\ Return \in Seq(Frames) /\ stack' = Return
  BY TopOf, ReturnOf DEF ErrorClosed

\* Handlers are started, and the world moves, while no call is on top or a dialog's is.
LEMMA LoopOf ==
    ASSUME TypeOK, MainLoop
    PROVE  /\ stack \in Seq(Frames)
           /\ \A pc : At(pc) => pc \in Dialogs
           /\ stack # <<>> => Head(stack) = stack[1] /\ 1 \in 1..Len(stack) /\ stack[1].at \in Dialogs
  <1>1. stack \in Seq(Frames)
    BY DEF TypeOK, Frames
  <1> QED BY <1>1, ReturnOf DEF MainLoop, At

-----------------------------------------------------------------------------
(* Types. *)

LEMMA TypeStep ==
    ASSUME TypeOK, [Next]_vars
    PROVE  TypeOK'
  <1>0. /\ stack \in Seq(Frames) /\ level \in Levels /\ upower \in Hardware /\ hw \in Hardware
        /\ conf \in ConfigType /\ nmAsleep \in BOOLEAN /\ dpmsOff \in BOOLEAN
        /\ inhibited \in BOOLEAN /\ lidIsClosed \in BOOLEAN /\ onBattery \in BOOLEAN
    BY WorldIs DEF TypeOK, Frames
  <1>1. CASE UNCHANGED vars
    BY <1>1 DEF vars, TypeOK
  <1> SUFFICES ASSUME Next PROVE TypeOK'
    BY <1>1
  <1>2. world' = world
    BY DEF Next
  <1>3. ASSUME NEW req, NEW force \in BOOLEAN, SleepRequest(req, force), recent' \in BOOLEAN
        PROVE  TypeOK'
    <2>1. stack' \in Seq(Frames)
      BY <1>0, <1>3, CallOf, FramesAre DEF SleepRequest
    <2> QED BY <1>2, <1>3, <2>1 DEF SleepRequest, TypeOK, Frames
  <1>4. CASE Requested
    BY <1>3, <1>4 DEF Requested, ButtonPressed, AlarmTimeout, DBusSleep, CriticalBattery, TypeOK
  <1>5. CASE UpowerChanged
    <2>1. upower' \in Hardware
      BY <1>0, <1>5 DEF UpowerChanged, Hardware
    <2>2. stack' \in Seq(Frames)
      BY <1>0, <1>5, <2>1, CallOf, FramesAre DEF UpowerChanged
    <2> QED BY <1>2, <1>5, <2>1, <2>2 DEF UpowerChanged, TypeOK, Frames
  <1>6. CASE CheckLid
    <2> DEFINE top == [Head(stack) EXCEPT !.at = "power"]
    <2>1. Head(stack) \in PropsFrames /\ stack # <<>>
      BY <1>6, TopOf DEF CheckLid, Checks
    <2>2. Head(stack).lid \in BOOLEAN /\ top \in PropsFrames
      BY <2>1 DEF PropsFrames
    <2>3. Goto(top) \in Seq(Frames)
      BY <1>0, <2>1, <2>2, GotoOf, FramesAre
    <2>4. ASSUME LidChanged(Head(stack).lid, Goto(top))
          PROVE  stack' \in Seq(Frames) /\ dpmsOff' \in BOOLEAN
      <3>1. /\ Call([at |-> "error"], Goto(top)) \in Seq(Frames)
            /\ Call(PowerSleep(TRUE), Goto(top)) \in Seq(Frames)
        BY <2>3, CallOf, FramesAre
      <3> HIDE DEF top
      <3> QED BY <2>3, <2>4, <3>1, LidCalls
    <2>5. stack' \in Seq(Frames) /\ dpmsOff' \in BOOLEAN /\ lidIsClosed' = Head(stack).lid
      BY <1>0, <1>6, <2>3, <2>4 DEF CheckLid
    <2> QED BY <1>2, <1>6, <2>2, <2>5 DEF CheckLid, TypeOK, Frames
  <1>7. CASE CheckPower
    <2>1. Head(stack) \in PropsFrames /\ stack # <<>>
      BY <1>7, TopOf DEF CheckPower, Checks
    <2>2. stack' \in Seq(Frames) /\ onBattery' \in BOOLEAN
      BY <1>0, <1>7, <2>1, ReturnOf DEF CheckPower, PropsFrames
    <2> QED BY <1>2, <1>7, <2>2 DEF CheckPower, TypeOK, Frames
  <1>8. ASSUME NEW pc \in {"confirm", "prepare", "lock", "suspend", "restore"}, At(pc)
        PROVE  /\ Head(stack) \in SleepFrames /\ Return \in Seq(Frames)
               /\ \A f \in SleepFrames : Goto(f) \in Seq(Frames)
    BY <1>0, <1>8, TopOf, ReturnOf, GotoOf, FramesAre
  <1>9. ASSUME NEW yes \in BOOLEAN, ConfirmAnswered(yes) PROVE TypeOK'
    <2>1. [Head(stack) EXCEPT !.at = "prepare", !.yes = TRUE] \in SleepFrames
      BY <1>8, <1>9 DEF ConfirmAnswered, SleepFrames
    <2>2. stack' \in Seq(Frames)
      BY <1>8, <1>9, <2>1 DEF ConfirmAnswered
    <2> QED BY <1>2, <1>9, <2>2 DEF ConfirmAnswered, TypeOK, Frames
  <1>10. ASSUME NEW yes \in BOOLEAN, LockAnswered(yes) PROVE TypeOK'
    <2>1. [Head(stack) EXCEPT !.at = "suspend"] \in SleepFrames
      BY <1>8, <1>10 DEF LockAnswered, SleepFrames
    <2>2. stack' \in Seq(Frames)
      BY <1>8, <1>10, <2>1 DEF LockAnswered
    <2> QED BY <1>2, <1>10, <2>2 DEF LockAnswered, TypeOK, Frames
  <1>11. CASE ErrorClosed
    <2>1. stack' \in Seq(Frames)
      BY <1>0, <1>11, TopOf, ReturnOf DEF ErrorClosed
    <2> QED BY <1>2, <1>11, <2>1 DEF ErrorClosed, TypeOK, Frames
  <1>12. CASE Prepare
    <2>1. Head(stack) \in SleepFrames /\ conf.nm \in BOOLEAN
      BY <1>0, <1>8, <1>12 DEF Prepare, ConfigType
    <2>2. \A at \in {"lock", "suspend"} :
            [Head(stack) EXCEPT !.at = at, !.nm = conf.nm, !.saved = level] \in SleepFrames
      BY <1>0, <2>1 DEF SleepFrames
    <2>3. stack' \in Seq(Frames) /\ nmAsleep' \in BOOLEAN
      BY <1>0, <1>8, <1>12, <2>2 DEF Prepare
    <2> QED BY <1>2, <1>12, <2>3 DEF Prepare, TypeOK, Frames
  <1>13. CASE Suspend
    <2>1. [Head(stack) EXCEPT !.at = "restore"] \in SleepFrames
      BY <1>8, <1>13 DEF Suspend, SleepFrames
    <2>2. stack' \in Seq(Frames)
      BY <1>0, <1>8, <1>13, <2>1, CallOf, FramesAre DEF Suspend
    <2> QED BY <1>2, <1>13, <2>2 DEF Suspend, TypeOK, Frames
  <1>14. CASE Restore
    <2>1. Head(stack) \in SleepFrames /\ stack' \in Seq(Frames)
      BY <1>8, <1>14 DEF Restore
    <2>2. level' \in Levels /\ nmAsleep' \in BOOLEAN
      BY <1>0, <1>14, <2>1 DEF Restore, SleepFrames
    <2> QED BY <1>2, <1>14, <2>1, <2>2 DEF Restore, TypeOK, Frames
  <1>15. CASE HardwareChanges
    <2>1. hw' \in Hardware
      BY <1>0, <1>15 DEF HardwareChanges, Hardware
    <2> QED BY <1>2, <1>15, <2>1 DEF HardwareChanges, TypeOK
  <1>16. CASE InhibitChanged \/ LevelChanges \/ ConfigChanges \/ TimePasses
    BY <1>2, <1>16 DEF InhibitChanged, LevelChanges, ConfigChanges, TimePasses, TypeOK
  <1> QED BY <1>4, <1>5, <1>6, <1>7, <1>9, <1>10, <1>11, <1>12, <1>13, <1>14, <1>15, <1>16
          DEF Next, Answered, Runs, Outside

-----------------------------------------------------------------------------
(* The lid. *)

LEMMA LidStep ==
    ASSUME TypeOK, LidRead, [Next]_vars
    PROVE  LidRead'
  <1>0. stack \in Seq(Frames) /\ (~At("lid") => Without(stack, {"lid"}) /\ lidIsClosed = upower.lid)
    <2>1. stack \in Seq(Frames)
      BY DEF TypeOK, Frames
    <2>2. CASE stack = <<>>
      BY <2>1, <2>2 DEF Without, LidRead, At
    <2>3. CASE stack # <<>>
      BY <2>1, <2>3, WithoutOf DEF LidRead, At, Return
    <2> QED BY <2>1, <2>2, <2>3
  <1>1. ASSUME UNCHANGED <<stack, upower, lidIsClosed>> PROVE LidRead'
    BY <1>1 DEF LidRead, At, Return
  <1>2. ASSUME stack' \in Seq(Frames), Without(stack', {"lid"}), upower' = upower, lidIsClosed' = upower.lid
        PROVE  LidRead'
    <2>1. stack' # <<>> => Head(stack').at # "lid" /\ Without(Tail(stack'), {"lid"})
      BY <1>2, WithoutOf
    <2> QED BY <1>2, <2>1 DEF LidRead, At, Return
  <1>3. ASSUME NEW r \in Hardware, NEW s \in Seq(Frames), Without(s, {"lid"}),
               stack' = Call(GetProperties(r), s), upower' = r
        PROVE  LidRead'
    <2>1. GetProperties(r) \in Frames /\ GetProperties(r).at = "lid" /\ GetProperties(r).lid = r.lid
      BY GetPropertiesOf
    <2>2. stack' # <<>> /\ Head(stack') = GetProperties(r) /\ Without(Tail(stack'), {"lid"})
      BY <1>3, <2>1, CallOf, WithoutOf
    <2> QED BY <1>3, <2>1, <2>2 DEF LidRead, At, Return
  <1>4. ASSUME MainLoop PROVE ~At("lid") /\ Without(stack, {"lid"}) /\ lidIsClosed = upower.lid
    BY <1>0, <1>4, LoopOf DEF Dialogs
  <1>5. ASSUME stack # <<>>, Head(stack).at # "lid"
        PROVE  /\ Return \in Seq(Frames) /\ Without(Return, {"lid"}) /\ lidIsClosed = upower.lid
               /\ \A f \in Frames : f.at # "lid" => Goto(f) \in Seq(Frames) /\ Without(Goto(f), {"lid"})
    BY <1>0, <1>5, ReturnOf, GotoOf, GotoIs, WithoutOf DEF LidRead, At
  <1>6. ASSUME NEW req, NEW force \in BOOLEAN, SleepRequest(req, force), MainLoop PROVE LidRead'
    <2>1. UNCHANGED <<upower, lidIsClosed>>
      BY <1>6 DEF SleepRequest
    <2>2. CASE stack' = stack
      BY <1>1, <2>1, <2>2
    <2>3. CASE stack' = Call(PowerSleep(force), stack)
      <3>1. stack' \in Seq(Frames) /\ Without(stack', {"lid"})
        BY <1>0, <1>4, <1>6, <2>3, PowerSleepOf, CallOf, WithoutOf
      <3> QED BY <1>2, <1>4, <1>6, <2>1, <3>1
    <2> QED BY <1>6, <2>2, <2>3 DEF SleepRequest
  <1>7. CASE Requested
    BY <1>6, <1>7 DEF Requested, ButtonPressed, AlarmTimeout, DBusSleep, CriticalBattery, Room
  <1>8. CASE UpowerChanged
    <2>1. upower' \in Hardware
      BY <1>8, TypeStep DEF TypeOK, UpowerChanged, Hardware
    <2> QED BY <1>0, <1>3, <1>4, <1>8, <2>1 DEF UpowerChanged, Room
  <1>9. CASE CheckLid
    <2>1. PICK f \in Frames :
            /\ f.at = "power"
            /\ \/ stack' = Goto(f) \/ stack' = Call([at |-> "error"], Goto(f))
               \/ stack' = Call(PowerSleep(TRUE), Goto(f))
      BY <1>9, CheckLidOf
    <2>2. /\ stack # <<>> /\ At("lid") /\ Return \in Seq(Frames)
          /\ lidIsClosed' = Head(stack).lid /\ upower' = upower
      BY <1>9, CheckLidOf DEF CheckLid
    <2>3. Goto(f) \in Seq(Frames) /\ Without(Goto(f), {"lid"})
      BY <1>0, <2>1, <2>2, GotoOf, GotoIs, WithoutOf DEF LidRead
    <2>4. /\ [at |-> "error"] \in Frames /\ [at |-> "error"].at # "lid"
          /\ PowerSleep(TRUE) \in Frames /\ PowerSleep(TRUE).at # "lid"
      BY FramesAre, PowerSleepOf
    <2>5. \A g \in Frames : g.at # "lid" =>
            Call(g, Goto(f)) \in Seq(Frames) /\ Without(Call(g, Goto(f)), {"lid"})
      BY <2>3, CallOf, WithoutOf
    <2>6. stack' \in Seq(Frames) /\ Without(stack', {"lid"})
      BY <2>1, <2>3, <2>4, <2>5
    <2> QED BY <1>2, <2>2, <2>6 DEF LidRead
  <1>10. CASE CheckPower
    BY <1>2, <1>5, <1>10, CheckPowerOf DEF CheckPower
  <1>11. ASSUME NEW yes, ConfirmAnswered(yes) PROVE LidRead'
    BY <1>2, <1>5, <1>11, ConfirmAnsweredOf DEF ConfirmAnswered
  <1>12. CASE Prepare
    BY <1>2, <1>5, <1>12, PrepareOf DEF Prepare
  <1>13. ASSUME NEW yes \in BOOLEAN, LockAnswered(yes) PROVE LidRead'
    BY <1>2, <1>5, <1>13, LockAnsweredOf DEF LockAnswered
  <1>14. CASE Suspend
    <2>1. PICK f \in Frames : f.at = "restore" /\ stack' = Call(GetProperties(upower), Goto(f))
      BY <1>14, SuspendOf
    <2>2. upower \in Hardware /\ upower' = upower
      BY <1>14 DEF Suspend, TypeOK
    <2> QED BY <1>3, <1>5, <1>14, <2>1, <2>2, SuspendOf
  <1>15. CASE Restore
    BY <1>2, <1>5, <1>15, RestoreOf DEF Restore
  <1>16. CASE ErrorClosed
    BY <1>2, <1>5, <1>16, ErrorClosedOf DEF ErrorClosed
  <1>17. CASE Outside \/ UNCHANGED vars
    BY <1>1, <1>17
       DEF Outside, HardwareChanges, InhibitChanged, LevelChanges, ConfigChanges, TimePasses, vars
  <1> QED BY <1>7, <1>8, <1>9, <1>10, <1>11, <1>12, <1>13, <1>14, <1>15, <1>16, <1>17
          DEF Next, Answered, Runs

LEMMA PanelStep ==
    ASSUME TypeOK, Panels, [Next]_vars
    PROVE  Panels'
  <1>1. CASE CheckLid
    <2>1. CASE Head(stack).lid = lidIsClosed
      BY <1>1, <2>1 DEF CheckLid, Panels, Next, vars
    <2>2. CASE Head(stack).lid # lidIsClosed
      <3>1. LidChanged(Head(stack).lid, Goto([Head(stack) EXCEPT !.at = "power"]))
        BY <1>1, <2>2 DEF CheckLid
      <3>2. ~Head(stack).lid => conf.logindLid \/ dpmsOff' = FALSE
        BY <3>1 DEF LidChanged
      <3>3. conf \in world.configs /\ world' = world /\ lidIsClosed' = Head(stack).lid
        BY <1>1 DEF TypeOK, CheckLid, Next, vars
      <3> QED BY <3>2, <3>3 DEF Panels
    <2> QED BY <2>1, <2>2
  <1>2. CASE ~CheckLid
    <2>1. UNCHANGED <<world, lidIsClosed, dpmsOff>>
      BY <1>2 DEF Next, vars, Requested, ButtonPressed, AlarmTimeout, DBusSleep, CriticalBattery,
         SleepRequest, UpowerChanged, Answered, ErrorClosed, ConfirmAnswered, LockAnswered, Runs,
         CheckPower, Prepare, Suspend, Restore, Outside, HardwareChanges, InhibitChanged,
         LevelChanges, ConfigChanges, TimePasses
    <2> QED BY <2>1 DEF Panels
  <1> QED BY <1>1, <1>2

-----------------------------------------------------------------------------
(* The height of the stack. *)

LEMMA TopIs ==
    ASSUME stack \in Seq(Frames), stack # <<>>
    PROVE  /\ Head(stack) \in Frames /\ Return \in Seq(Frames)
           /\ stack = Call(Head(stack), Return)
           /\ Len(Return) \in Nat /\ Len(stack) = Len(Return) + 1
           /\ \A f \in Frames : /\ Goto(f) = Call(f, Return) /\ Goto(f) \in Seq(Frames)
                                 /\ Len(Goto(f)) = Len(stack)
  <1>1. /\ Head(stack) \in Frames /\ Return \in Seq(Frames)
        /\ stack = Call(Head(stack), Return)
    BY SplitOf DEF Return
  <1>2. Len(Return) \in Nat /\ Len(stack) = Len(Return) + 1
    BY <1>1, CallOf
  <1>3. ASSUME NEW f \in Frames
        PROVE  Goto(f) = Call(f, Return) /\ Goto(f) \in Seq(Frames) /\ Len(Goto(f)) = Len(stack)
    BY GotoIs, GotoOf
  <1> QED BY <1>1, <1>2, <1>3

LEMMA HeightStep ==
    ASSUME TypeOK, LidRead, Heights, [Next]_vars
    PROVE  Heights'
  <1>0. stack \in Seq(Frames) /\ MaxFrames \in Nat /\ upower \in Hardware
    BY BoundsAssumption DEF TypeOK, Frames
  <1>1. ASSUME UNCHANGED <<stack, lidIsClosed>> PROVE Heights'
    BY <1>1 DEF Heights, Low, At
  <1>2. ASSUME NEW f \in Frames, stack' = Call(f, stack), Len(stack) < MaxFrames PROVE Heights'
    <2>1. Len(stack') <= MaxFrames /\ Len(stack') \in Nat
      BY <1>0, <1>2, CallOf
    <2>2. Low(stack')
      BY <1>0, <1>2, LowOf, CallOf DEF Heights
    <2> QED BY <1>0, <2>1, <2>2 DEF Heights
  <1>3. ASSUME stack # <<>>, stack' = Return PROVE Heights'
    <2>1. /\ Low(Return) /\ Len(Return) <= MaxFrames + 2
      BY <1>0, <1>3, TopIs, LowOf DEF Heights
    <2>2. Return # <<>> => Head(Return).at # "lid"
      BY <1>0, <1>3, TopIs, WithoutOf DEF LidRead
    <2> QED BY <1>3, <2>1, <2>2 DEF Heights, At
  <1>4. ASSUME stack # <<>>, Head(stack).at \notin Checks, NEW f \in Frames
        PROVE  Low(Goto(f)) /\ Goto(f) \in Seq(Frames) /\ Len(Goto(f)) <= MaxFrames + 1
    <2>1. Low(Return) /\ Len(Return) <= MaxFrames
      BY <1>0, <1>4, TopIs, LowOf DEF Heights
    <2> QED BY <1>0, <1>4, <2>1, TopIs, LowOf
  <1>5. ASSUME stack # <<>>, Head(stack).at \notin Checks, NEW f \in Frames, f.at \notin Checks,
               stack' = Goto(f)
        PROVE  Heights'
    <2>1. Low(stack') /\ Len(stack') <= MaxFrames + 1 /\ Len(stack') \in Nat
      BY <1>4, <1>5, LenProperties
    <2>2. ~At("lid")'
      BY <1>0, <1>5, GotoOf DEF At, Checks
    <2> QED BY <1>0, <2>1, <2>2 DEF Heights
  <1>6. ASSUME NEW req, NEW force \in BOOLEAN, SleepRequest(req, force), Room PROVE Heights'
    BY <1>1, <1>2, <1>6, PowerSleepOf DEF SleepRequest, Room
  <1>7. CASE Requested
    BY <1>6, <1>7 DEF Requested, ButtonPressed, AlarmTimeout, DBusSleep, CriticalBattery
  <1>8. CASE UpowerChanged
    <2>1. upower' \in Hardware
      BY <1>8, TypeStep DEF TypeOK
    <2> QED BY <1>2, <1>8, <2>1, GetPropertiesOf DEF UpowerChanged, Room
  <1>9. CASE CheckLid
    <2>1. stack # <<>> /\ Head(stack).at = "lid" /\ At("lid")
      BY <1>9, CheckLidOf DEF CheckLid
    <2>2. PICK f \in Frames :
            /\ f.at = "power"
            /\ \/ stack' = Goto(f)
               \/ /\ Head(stack).lid # lidIsClosed
                  /\ \/ stack' = Call([at |-> "error"], Goto(f))
                     \/ stack' = Call(PowerSleep(TRUE), Goto(f))
      BY <1>9, CheckLidOf
    <2>3. /\ Low(Goto(f)) /\ Goto(f) \in Seq(Frames) /\ Len(Goto(f)) = Len(stack)
          /\ Len(Goto(f)) \in Nat /\ Goto(f) # <<>> /\ Head(Goto(f)) = f
      <3>1. Low(Return) /\ Return \in Seq(Frames) /\ Goto(f) = Call(f, Return)
        BY <1>0, <2>1, TopIs, LowOf DEF Heights
      <3>2. Low(Goto(f))
        BY <1>0, <2>2, <3>1, LowOf DEF Checks
      <3>3. /\ Goto(f) \in Seq(Frames) /\ Goto(f) # <<>> /\ Head(Goto(f)) = f
            /\ Len(Goto(f)) = Len(stack)
        BY <1>0, <2>1, GotoOf
      <3> QED BY <3>2, <3>3, LenProperties
    <2>4. CASE stack' = Goto(f)
      BY <2>2, <2>3, <2>4 DEF Heights, At
    <2>5. ASSUME NEW g \in Frames, g.at \notin Checks, Head(stack).lid # lidIsClosed,
                 stack' = Call(g, Goto(f))
          PROVE  Heights'
      <3>1. Len(Goto(f)) <= MaxFrames
        BY <2>1, <2>3, <2>5 DEF Heights
      <3>2. Low(stack') /\ Len(stack') = Len(Goto(f)) + 1 /\ Head(stack') = g
        BY <1>0, <2>3, <2>5, <3>1, LowOf, CallOf
      <3> QED BY <1>0, <2>3, <2>5, <3>1, <3>2 DEF Heights, At, Checks
    <2>6. /\ [at |-> "error"] \in Frames /\ [at |-> "error"].at \notin Checks
          /\ PowerSleep(TRUE) \in Frames /\ PowerSleep(TRUE).at \notin Checks
      BY FramesAre, PowerSleepOf DEF Checks
    <2> QED BY <2>2, <2>4, <2>5, <2>6
  <1>10. CASE CheckPower
    BY <1>3, <1>10, CheckPowerOf
  <1>11. ASSUME NEW yes, ConfirmAnswered(yes) PROVE Heights'
    BY <1>3, <1>5, <1>11, ConfirmAnsweredOf DEF Checks
  <1>12. CASE Prepare
    BY <1>5, <1>12, PrepareOf DEF Checks
  <1>13. ASSUME NEW yes \in BOOLEAN, LockAnswered(yes) PROVE Heights'
    BY <1>3, <1>5, <1>13, LockAnsweredOf DEF Checks
  <1>14. CASE Suspend
    <2>1. stack # <<>> /\ Head(stack).at = "suspend"
      BY <1>14, SuspendOf
    <2>2. PICK f \in Frames : f.at = "restore" /\ stack' = Call(GetProperties(upower), Goto(f))
      BY <1>14, SuspendOf
    <2>3. Low(Goto(f)) /\ Goto(f) \in Seq(Frames) /\ Len(Goto(f)) <= MaxFrames + 1
      BY <1>4, <2>1 DEF Checks
    <2>4. /\ GetProperties(upower) \in Frames /\ GetProperties(upower).at = "lid"
          /\ GetProperties(upower).lid = lidIsClosed /\ lidIsClosed' = lidIsClosed
      BY <1>0, <1>14, <2>1, GetPropertiesOf DEF LidRead, At, Suspend
    <2>5. /\ Low(stack') /\ Len(stack') = Len(Goto(f)) + 1 /\ Len(Goto(f)) \in Nat
          /\ Head(stack') = GetProperties(upower)
      BY <1>0, <2>2, <2>3, <2>4, LowOf, CallOf DEF Checks
    <2> QED BY <1>0, <2>3, <2>4, <2>5 DEF Heights, At
  <1>15. CASE Restore
    BY <1>3, <1>15, RestoreOf
  <1>16. CASE ErrorClosed
    BY <1>3, <1>16, ErrorClosedOf
  <1>17. CASE Outside \/ UNCHANGED vars
    BY <1>1, <1>17
       DEF Outside, HardwareChanges, InhibitChanged, LevelChanges, ConfigChanges, TimePasses, vars
  <1> QED BY <1>7, <1>8, <1>9, <1>10, <1>11, <1>12, <1>13, <1>14, <1>15, <1>16, <1>17
          DEF Next, Answered, Runs

-----------------------------------------------------------------------------
(* The network. *)

LEMMA NetworkStep ==
    ASSUME TypeOK, Networks, [Next]_vars
    PROVE  Networks'
  <1>0. stack \in Seq(Frames) /\ UNCHANGED world
    BY DEF TypeOK, Frames, Next, vars
  <1>1. ASSUME nmAsleep' => nmAsleep, Wakes(stack) => Wakes(stack') PROVE Networks'
    BY <1>0, <1>1 DEF Networks, GoesOn
  <1>2. ASSUME NEW f \in Frames, stack' = Call(f, stack), nmAsleep' = nmAsleep PROVE Networks'
    BY <1>0, <1>1, <1>2, WakesOf
  <1>3. ASSUME stack # <<>>, NEW f \in Frames, Waking(Head(stack)) => Waking(f)
        PROVE  Wakes(stack) => Wakes(Goto(f))
    BY <1>0, <1>3, TopIs, WakesOf
  <1>4. ASSUME stack # <<>>, ~Waking(Head(stack)) PROVE Wakes(stack) => Wakes(Return)
    BY <1>0, <1>4, TopIs, WakesOf
  <1>6. ASSUME NEW req, NEW force \in BOOLEAN, SleepRequest(req, force) PROVE Networks'
    BY <1>1, <1>2, <1>6, PowerSleepOf DEF SleepRequest
  <1>7. CASE Requested
    BY <1>6, <1>7 DEF Requested, ButtonPressed, AlarmTimeout, DBusSleep, CriticalBattery
  <1>8. CASE UpowerChanged
    <2>1. upower' \in Hardware
      BY <1>8, TypeStep DEF TypeOK
    <2> QED BY <1>2, <1>8, <2>1, GetPropertiesOf DEF UpowerChanged
  <1>9. CASE CheckLid
    <2>1. stack # <<>> /\ Head(stack).at = "lid" /\ nmAsleep' = nmAsleep
      BY <1>9, CheckLidOf DEF CheckLid
    <2>2. PICK f \in Frames : \/ stack' = Goto(f) \/ stack' = Call([at |-> "error"], Goto(f))
                               \/ stack' = Call(PowerSleep(TRUE), Goto(f))
      BY <1>9, CheckLidOf
    <2>3. Goto(f) \in Seq(Frames) /\ (Wakes(stack) => Wakes(Goto(f)))
      BY <1>0, <1>3, <2>1, TopIs DEF Waking
    <2>4. [at |-> "error"] \in Frames /\ PowerSleep(TRUE) \in Frames
      BY FramesAre, PowerSleepOf
    <2>5. \A g \in Frames : Wakes(Goto(f)) => Wakes(Call(g, Goto(f)))
      BY <2>3, WakesOf
    <2> QED BY <1>1, <2>1, <2>2, <2>3, <2>4, <2>5
  <1>10. CASE CheckPower
    BY <1>1, <1>4, <1>10, CheckPowerOf DEF CheckPower, Waking
  <1>11. ASSUME NEW yes, ConfirmAnswered(yes) PROVE Networks'
    <2>1. stack # <<>> /\ ~Waking(Head(stack)) /\ nmAsleep' = nmAsleep
      BY <1>11, ConfirmAnsweredOf DEF ConfirmAnswered, Waking
    <2> QED BY <1>1, <1>3, <1>4, <1>11, <2>1, ConfirmAnsweredOf
  <1>12. CASE Prepare
    <2>1. stack # <<>> /\ Head(stack).at = "prepare" /\ nmAsleep' = (nmAsleep \/ conf.nm)
      BY <1>12, PrepareOf DEF Prepare
    <2>2. PICK f \in Frames : stack' = Goto(f) /\ f.at \in {"lock", "suspend"} /\ f.nm = conf.nm
      BY <1>12, PrepareOf
    <2>3. Wakes(stack) => Wakes(stack')
      BY <1>3, <2>1, <2>2 DEF Waking
    <2>4. ASSUME conf.nm PROVE Wakes(stack')
      <3>1. Waking(f)
        BY <2>2, <2>4 DEF Waking
      <3>2. stack' = Call(f, Return) /\ Return \in Seq(Frames)
        BY <1>0, <2>1, <2>2, TopIs
      <3> QED BY <3>1, <3>2, WakesOf
    <2> QED BY <1>0, <2>1, <2>3, <2>4 DEF Networks, GoesOn
  <1>13. ASSUME NEW yes \in BOOLEAN, LockAnswered(yes) PROVE Networks'
    <2>1. nmAsleep' = nmAsleep
      BY <1>13 DEF LockAnswered
    <2>2. CASE stack' = Return /\ yes = FALSE
      BY <1>0, <1>13, <2>2, LockAnsweredOf DEF Networks, GoesOn
    <2>3. CASE \E f \in Frames : stack' = Goto(f) /\ f.at = "suspend" /\ f.nm = Head(stack).nm
      BY <1>1, <1>3, <1>13, <2>1, <2>3, LockAnsweredOf DEF Waking
    <2> QED BY <1>13, <2>2, <2>3, LockAnsweredOf
  <1>14. CASE Suspend
    <2>1. stack # <<>> /\ Head(stack).at = "suspend" /\ nmAsleep' = nmAsleep
      BY <1>14, SuspendOf DEF Suspend
    <2>2. PICK f \in Frames : /\ f.at = "restore" /\ f.nm = Head(stack).nm
                              /\ stack' = Call(GetProperties(upower), Goto(f))
      BY <1>14, SuspendOf
    <2>3. Goto(f) \in Seq(Frames) /\ (Wakes(stack) => Wakes(Goto(f)))
      BY <1>0, <1>3, <2>1, <2>2, TopIs DEF Waking
    <2>4. GetProperties(upower) \in Frames
      BY GetPropertiesOf DEF TypeOK
    <2> QED BY <1>1, <2>1, <2>2, <2>3, <2>4, WakesOf
  <1>15. CASE Restore
    <2>1. stack # <<>> /\ stack' = Return /\ nmAsleep' = (nmAsleep /\ ~Head(stack).nm)
      BY <1>15, RestoreOf DEF Restore
    <2>2. CASE Head(stack).nm
      BY <2>1, <2>2 DEF Networks
    <2>3. CASE ~Head(stack).nm
      BY <1>1, <1>4, <2>1, <2>3 DEF Waking
    <2> QED BY <2>2, <2>3
  <1>16. CASE ErrorClosed
    BY <1>1, <1>4, <1>16, ErrorClosedOf DEF ErrorClosed, Waking
  <1>17. CASE Outside \/ UNCHANGED vars
    BY <1>1, <1>17
       DEF Outside, HardwareChanges, InhibitChanged, LevelChanges, ConfigChanges, TimePasses, vars
  <1> QED BY <1>7, <1>8, <1>9, <1>10, <1>11, <1>12, <1>13, <1>14, <1>15, <1>16, <1>17
          DEF Next, Answered, Runs

-----------------------------------------------------------------------------
(* The power source. *)

LEMMA SourceStep ==
    ASSUME TypeOK, Sources, [Next]_vars
    PROVE  Sources'
  <1>0. stack \in Seq(Frames) /\ UNCHANGED world /\ upower \in Hardware
    BY DEF TypeOK, Frames, Next, vars
  <1> SUFFICES ASSUME LockWorks PROVE Sources'
    BY <1>0 DEF Sources, LockWorks
  <1> DEFINE Good(s, bat) == Heard(s, bat) /\ Quiet(s) /\ Without(s, {"lock", "error"})
             Fine(s, bat, on) == Good(s, bat) /\ (Without(s, Checks) => on = bat)
  <1>a. Good(stack, upower.bat) /\ (Without(stack, Checks) => onBattery = upower.bat)
    BY DEF Sources
  <1>b. Good(stack', upower'.bat) /\ (Without(stack', Checks) => onBattery' = upower'.bat) => Sources'
    BY DEF Sources
  <1>c. \A bat : \A f \in Frames, s \in Seq(Frames) :
          Good(Call(f, s), bat) <=>
            /\ Good(s, bat) /\ (f.at \in Checks => f.bat = bat)
            /\ f.at \in Dialogs => Without(s, Checks)
            /\ f.at \notin {"lock", "error"}
    BY HeardOf, QuietOf, WithoutOf
  <1> HIDE DEF Good
  <1>1. ASSUME UNCHANGED <<stack, upower, onBattery>> PROVE Sources'
    BY <1>a, <1>b, <1>1
  <1>2. ASSUME MainLoop PROVE Without(stack, Checks)
    BY <1>2, <1>a, LoopOf DEF Quiet, Without, Good
  <1>3. ASSUME MainLoop, NEW f \in Frames, f.at \in {"confirm", "prepare"},
               stack' = Call(f, stack), UNCHANGED <<upower, onBattery>>
        PROVE  Sources'
    <2>1. Good(stack', upower.bat)
      BY <1>0, <1>a, <1>c, <1>2, <1>3 DEF Checks
    <2>2. onBattery = upower.bat
      BY <1>a, <1>2, <1>3
    <2> QED BY <1>b, <1>3, <2>1, <2>2
  <1>4. ASSUME stack # <<>>
        PROVE  /\ Good(Return, upower.bat)
               /\ Head(stack).at \notin Checks /\ Without(Return, Checks) => onBattery = upower.bat
    <2>1. Head(stack) \in Frames /\ Return \in Seq(Frames) /\ stack = Call(Head(stack), Return)
      BY <1>0, <1>4, TopIs
    <2>2. Good(Return, upower.bat)
      BY <1>a, <1>c, <2>1
    <2>3. Head(stack).at \notin Checks /\ Without(Return, Checks) => Without(stack, Checks)
      BY <2>1, WithoutOf
    <2> QED BY <1>a, <2>2, <2>3
  <1>5. ASSUME stack # <<>>, Head(stack).at \notin Checks, stack' = Return,
               UNCHANGED <<upower, onBattery>>
        PROVE  Sources'
    BY <1>b, <1>4, <1>5
  <1>6. ASSUME stack # <<>>, NEW f \in Frames, f.at \in {"prepare", "suspend", "restore"}
        PROVE  Good(Goto(f), upower.bat) /\ (Without(Goto(f), Checks) <=> Without(Return, Checks))
    <2>1. Return \in Seq(Frames) /\ Goto(f) = Call(f, Return) /\ f.at \notin Checks
      BY <1>0, <1>6, TopIs DEF Checks
    <2>2. Good(Goto(f), upower.bat)
      BY <1>c, <1>4, <1>6, <2>1 DEF Dialogs
    <2> QED BY <2>1, <2>2, WithoutOf
  <1>7. ASSUME stack # <<>>, Head(stack).at \notin Checks,
               NEW f \in Frames, f.at \in {"prepare", "suspend", "restore"},
               stack' = Goto(f), UNCHANGED <<upower, onBattery>>
        PROVE  Sources'
    BY <1>b, <1>4, <1>6, <1>7
  <1>8. ASSUME NEW req, NEW force \in BOOLEAN, SleepRequest(req, force), Room PROVE Sources'
    BY <1>1, <1>3, <1>8, PowerSleepOf DEF SleepRequest, Room
  <1>9. CASE Requested
    BY <1>8, <1>9 DEF Requested, ButtonPressed, AlarmTimeout, DBusSleep, CriticalBattery
  <1>10. CASE UpowerChanged
    <2> DEFINE g == GetProperties(upower')
    <2>1. upower' \in Hardware
      BY <1>10, TypeStep DEF TypeOK
    <2>2. g \in Frames /\ g.at = "lid" /\ g.bat = upower'.bat /\ stack' = Call(g, stack)
      BY <1>10, <2>1, GetPropertiesOf DEF UpowerChanged
    <2> HIDE DEF g
    <2>3. Without(stack, Checks) /\ Good(stack, upower'.bat)
      BY <1>a, <1>2, <1>10 DEF UpowerChanged, Room, Good, Heard, Without
    <2>4. Good(stack', upower'.bat)
      BY <1>0, <1>c, <2>2, <2>3
    <2>5. ~Without(stack', Checks)
      <3>1. "lid" \in Checks
        BY DEF Checks
      <3>2. Without(Call(g, stack), Checks) <=> g.at \notin Checks /\ Without(stack, Checks)
        BY <1>0, <2>2, WithoutOf
      <3> QED BY <2>2, <3>1, <3>2
    <2> QED BY <1>b, <2>4, <2>5
  <1>11. CASE CheckLid
    <2>1. stack # <<>> /\ Head(stack).at = "lid" /\ UNCHANGED <<upower, onBattery>>
      BY <1>11, CheckLidOf DEF CheckLid
    <2>2. PICK f \in Frames :
            /\ f.at = "power" /\ f.bat = Head(stack).bat
            /\ \/ stack' = Goto(f) \/ stack' = Call(PowerSleep(TRUE), Goto(f))
      BY <1>11, CheckLidOf DEF LockWorks
    <2>3. Head(stack) \in Frames /\ Return \in Seq(Frames) /\ stack = Call(Head(stack), Return)
      BY <1>0, <2>1, TopIs
    <2>4. Head(stack).bat = upower.bat
      BY <1>a, <1>c, <2>1, <2>3 DEF Checks
    <2>5. /\ Goto(f) \in Seq(Frames) /\ Goto(f) = Call(f, Return)
      BY <1>0, <2>1, TopIs
    <2>6. Good(Goto(f), upower.bat) /\ ~Without(Goto(f), Checks)
      <3>1. f.at \notin Dialogs /\ f.at \notin {"lock", "error"} /\ f.at \in Checks
        BY <2>2 DEF Dialogs, Checks
      <3>2. Good(Goto(f), upower.bat)
        BY <1>c, <1>4, <2>1, <2>2, <2>3, <2>4, <2>5, <3>1
      <3>3. Without(Call(f, Return), Checks) <=> f.at \notin Checks /\ Without(Return, Checks)
        BY <2>2, <2>3, WithoutOf
      <3> QED BY <2>5, <3>1, <3>2, <3>3
    <2>7. /\ PowerSleep(TRUE) \in Frames /\ PowerSleep(TRUE).at = "prepare"
          /\ "prepare" \notin Dialogs /\ "prepare" \notin Checks
      BY PowerSleepOf DEF Dialogs, Checks
    <2>8. /\ Good(Call(PowerSleep(TRUE), Goto(f)), upower.bat)
          /\ ~Without(Call(PowerSleep(TRUE), Goto(f)), Checks)
      <3> DEFINE p == PowerSleep(TRUE)
                 s == Goto(f)
      <3>1. p \in Frames /\ p.at = "prepare" /\ s \in Seq(Frames)
        BY <2>5, <2>7
      <3> HIDE DEF p, s
      <3>2. Good(Call(p, s), upower.bat)
        BY <1>c, <2>6, <2>7, <3>1 DEF s
      <3>3. ~Without(Call(p, s), Checks)
        BY <2>6, <3>1, WithoutOf DEF s
      <3> QED BY <3>2, <3>3 DEF p, s
    <2> QED BY <1>b, <2>1, <2>2, <2>6, <2>8
  <1>12. CASE CheckPower
    <2>1. /\ stack # <<>> /\ Head(stack).at = "power" /\ stack' = Return
          /\ onBattery' = Head(stack).bat /\ upower' = upower
      BY <1>12, CheckPowerOf DEF CheckPower
    <2>2. Head(stack) \in Frames /\ Return \in Seq(Frames) /\ stack = Call(Head(stack), Return)
      BY <1>0, <2>1, TopIs
    <2>3. Head(stack).bat = upower.bat
      BY <1>a, <1>c, <2>1, <2>2 DEF Checks
    <2> QED BY <1>b, <1>4, <2>1, <2>3
  <1>13. ASSUME NEW yes, ConfirmAnswered(yes) PROVE Sources'
    BY <1>5, <1>7, <1>13, ConfirmAnsweredOf DEF ConfirmAnswered, Checks
  <1>14. CASE Prepare
    BY <1>7, <1>14, PrepareOf DEF Prepare, Checks, LockWorks
  <1>15. ASSUME NEW yes \in BOOLEAN, LockAnswered(yes) PROVE Sources'
    BY <1>15 DEF LockAnswered, LockWorks
  <1>16. CASE Suspend
    <2> DEFINE g == GetProperties(upower)
    <2>1. stack # <<>> /\ Head(stack).at = "suspend" /\ UNCHANGED <<upower, onBattery>>
      BY <1>16, SuspendOf DEF Suspend
    <2>2. PICK f \in Frames : f.at = "restore" /\ stack' = Call(g, Goto(f))
      BY <1>16, SuspendOf
    <2>3. g \in Frames /\ g.at = "lid" /\ g.bat = upower.bat /\ "lid" \in Checks /\ "lid" \notin Dialogs
      BY <1>0, GetPropertiesOf DEF Checks, Dialogs
    <2>4. Good(Goto(f), upower.bat) /\ Goto(f) \in Seq(Frames)
      BY <1>0, <1>6, <2>1, <2>2, TopIs
    <2> HIDE DEF g
    <2> DEFINE s == Goto(f)
    <2> HIDE DEF s
    <2>5. Good(s, upower.bat) /\ s \in Seq(Frames) /\ stack' = Call(g, s)
      BY <2>2, <2>4 DEF s
    <2>6. Good(Call(g, s), upower.bat)
      BY <1>c, <2>3, <2>5
    <2>7. Without(Call(g, s), Checks) <=> g.at \notin Checks /\ Without(s, Checks)
      BY <2>3, <2>5, WithoutOf
    <2> QED BY <1>b, <2>1, <2>3, <2>5, <2>6, <2>7
  <1>17. CASE Restore
    BY <1>5, <1>17, RestoreOf DEF Restore, Checks
  <1>18. CASE ErrorClosed
    BY <1>5, <1>18, ErrorClosedOf DEF ErrorClosed, Checks
  <1>19. CASE Outside \/ UNCHANGED vars
    BY <1>1, <1>19
       DEF Outside, HardwareChanges, InhibitChanged, LevelChanges, ConfigChanges, TimePasses, vars
  <1> QED BY <1>9, <1>10, <1>11, <1>12, <1>13, <1>14, <1>15, <1>16, <1>17, <1>18, <1>19
          DEF Next, Answered, Runs

-----------------------------------------------------------------------------
(* The question. *)

LEMMA ConsentStep ==
    ASSUME TypeOK, Sources, Consents, [Next]_vars
    PROVE  Consents'
  <1> DEFINE Sleeping == {"prepare", "suspend"}
             Agreed(f, held) == LockWorks /\ f.at \in Sleeping /\ held => f.force \/ f.yes
  <1>0. stack \in Seq(Frames) /\ UNCHANGED world
    BY DEF TypeOK, Frames, Next, vars
  <1>a. stack # <<>> => Without(Return, Sleeping) /\ Agreed(Head(stack), inhibited)
    BY DEF Consents, At
  <1>b. (stack' # <<>> => Without(Tail(stack'), Sleeping) /\ Agreed(Head(stack'), inhibited'))
         => Consents'
    BY <1>0 DEF Consents, At, Return, LockWorks
  <1>1. ASSUME UNCHANGED <<stack, inhibited>> PROVE Consents'
    BY <1>0, <1>1 DEF Consents, At, Return, LockWorks
  <1>2. ASSUME MainLoop PROVE Without(stack, Sleeping)
    <2>1. CASE stack = <<>>
      BY <2>1 DEF Without
    <2>2. CASE stack # <<>>
      BY <1>0, <1>2, <1>a, <2>2, WithoutOf DEF MainLoop, Dialogs, Return
    <2> QED BY <2>1, <2>2
  <1>3. ASSUME NEW f \in Frames, NEW s \in Seq(Frames), Without(s, Sleeping), Agreed(f, inhibited),
               stack' = Call(f, s), UNCHANGED inhibited
        PROVE  Consents'
    <2>0. Call(f, s) # <<>> /\ Head(Call(f, s)) = f
      BY CallOf
    <2>1. stack' # <<>> /\ Head(stack') = f
      BY <1>3, <2>0, Zenon
    <2>2. Without(Tail(Call(f, s)), Sleeping) <=> Without(s, Sleeping)
      BY <1>3, WithoutOf
    <2>3. Agreed(Head(stack'), inhibited')
      BY <1>3, <2>1
    <2> QED BY <1>b, <1>3, <2>1, <2>2, <2>3
  <1>4. ASSUME stack # <<>>, stack' = Return, UNCHANGED inhibited PROVE Consents'
    <2>1. Return \in Seq(Frames) /\ Without(Return, Sleeping)
      BY <1>0, <1>4, <1>a, TopIs
    <2>2. Return # <<>> => Head(Return).at \notin Sleeping /\ Without(Tail(Return), Sleeping)
      BY <2>1, WithoutOf
    <2> QED BY <1>b, <1>4, <2>2
  <1>5. ASSUME stack # <<>>, NEW f \in Frames
        PROVE  /\ Return \in Seq(Frames) /\ Without(Return, Sleeping) /\ Goto(f) = Call(f, Return)
               /\ Goto(f) \in Seq(Frames) /\ (f.at \notin Sleeping => Without(Goto(f), Sleeping))
    <2>1. /\ Return \in Seq(Frames) /\ Goto(f) = Call(f, Return) /\ Goto(f) \in Seq(Frames)
          /\ Without(Return, Sleeping)
      BY <1>0, <1>a, <1>5, TopIs
    <2>2. Without(Call(f, Return), Sleeping) <=> f.at \notin Sleeping /\ Without(Return, Sleeping)
      BY <1>5, <2>1, WithoutOf
    <2> QED BY <2>1, <2>2
  <1>6. ASSUME NEW req, NEW force \in BOOLEAN, SleepRequest(req, force), Room PROVE Consents'
    <2>1. PowerSleep(force) \in Frames /\ Agreed(PowerSleep(force), inhibited)
      BY PowerSleepOf
    <2> QED BY <1>0, <1>1, <1>2, <1>3, <1>6, <2>1 DEF SleepRequest, Room
  <1>7. CASE Requested
    BY <1>6, <1>7 DEF Requested, ButtonPressed, AlarmTimeout, DBusSleep, CriticalBattery
  <1>8. CASE UpowerChanged
    <2>1. upower' \in Hardware
      BY <1>8, TypeStep DEF TypeOK
    <2>2. GetProperties(upower') \in Frames /\ Agreed(GetProperties(upower'), inhibited)
      BY <2>1, GetPropertiesOf
    <2> QED BY <1>0, <1>2, <1>3, <1>8, <2>2 DEF UpowerChanged, Room
  <1>9. CASE CheckLid
    <2>1. stack # <<>> /\ inhibited' = inhibited
      BY <1>9, CheckLidOf DEF CheckLid
    <2>2. PICK f \in Frames : /\ f.at = "power"
                              /\ \/ stack' = Goto(f) \/ stack' = Call([at |-> "error"], Goto(f))
                                 \/ stack' = Call(PowerSleep(TRUE), Goto(f))
      BY <1>9, CheckLidOf
    <2>3. /\ Goto(f) \in Seq(Frames) /\ Without(Goto(f), Sleeping)
          /\ Return \in Seq(Frames) /\ Without(Return, Sleeping) /\ Goto(f) = Call(f, Return)
      BY <1>5, <2>1, <2>2
    <2>4. /\ [at |-> "error"] \in Frames /\ Agreed([at |-> "error"], inhibited)
          /\ PowerSleep(TRUE) \in Frames /\ Agreed(PowerSleep(TRUE), inhibited) /\ Agreed(f, inhibited)
      BY <2>2, FramesAre, PowerSleepOf
    <2> HIDE DEF Agreed
    <2> QED BY <1>3, <2>1, <2>2, <2>3, <2>4
  <1>10. CASE CheckPower
    BY <1>4, <1>10, CheckPowerOf DEF CheckPower
  <1>11. ASSUME NEW yes, ConfirmAnswered(yes) PROVE Consents'
    <2>1. stack # <<>> /\ inhibited' = inhibited
      BY <1>11, ConfirmAnsweredOf DEF ConfirmAnswered
    <2> QED BY <1>3, <1>4, <1>5, <1>11, <2>1, ConfirmAnsweredOf
  <1>12. CASE Prepare
    <2>1. stack # <<>> /\ inhibited' = inhibited /\ Head(stack).at = "prepare"
      BY <1>12, PrepareOf DEF Prepare
    <2>2. PICK f \in Frames :
            /\ stack' = Goto(f) /\ f.at \in {"lock", "suspend"}
            /\ f.force = Head(stack).force /\ f.yes = Head(stack).yes
      BY <1>12, PrepareOf
    <2>3. Agreed(f, inhibited)
      BY <1>a, <2>1, <2>2
    <2> QED BY <1>3, <1>5, <2>1, <2>2, <2>3
  <1>13. ASSUME NEW yes \in BOOLEAN, LockAnswered(yes) PROVE Consents'
    <2>1. stack # <<>> /\ inhibited' = inhibited /\ ~LockWorks
      BY <1>13, LockAnsweredOf DEF LockAnswered, LockWorks
    <2> QED BY <1>3, <1>4, <1>5, <1>13, <2>1, LockAnsweredOf
  <1>14. CASE Suspend
    <2>1. stack # <<>> /\ inhibited' = inhibited
      BY <1>14, SuspendOf DEF Suspend
    <2>2. PICK f \in Frames : f.at = "restore" /\ stack' = Call(GetProperties(upower), Goto(f))
      BY <1>14, SuspendOf
    <2>3. GetProperties(upower) \in Frames /\ Agreed(GetProperties(upower), inhibited)
      BY GetPropertiesOf DEF TypeOK
    <2> QED BY <1>3, <1>5, <2>1, <2>2, <2>3
  <1>15. CASE Restore
    BY <1>4, <1>15, RestoreOf DEF Restore
  <1>16. CASE ErrorClosed
    BY <1>4, <1>16, ErrorClosedOf DEF ErrorClosed
  <1>17. CASE InhibitChanged
    <2>1. MainLoop /\ stack' = stack
      BY <1>17 DEF InhibitChanged
    <2>2. stack # <<>> => Without(Return, Sleeping) /\ Head(stack).at \notin Sleeping
      BY <1>a, <2>1 DEF MainLoop, Dialogs
    <2> QED BY <1>b, <2>1, <2>2 DEF Return
  <1>18. CASE HardwareChanges \/ LevelChanges \/ ConfigChanges \/ TimePasses \/ UNCHANGED vars
    BY <1>1, <1>18 DEF HardwareChanges, LevelChanges, ConfigChanges, TimePasses, vars
  <1> QED BY <1>7, <1>8, <1>9, <1>10, <1>11, <1>12, <1>13, <1>14, <1>15, <1>16, <1>17, <1>18
          DEF Next, Answered, Runs, Outside

-----------------------------------------------------------------------------
(* The inductive invariant, and what follows from it. *)

LEMMA Initial == Init => IInv
  <1> SUFFICES ASSUME Init PROVE IInv
    OBVIOUS
  <1>1. stack = <<>> /\ Len(stack) = 0 /\ ~(\E pc : At(pc)) /\ MaxFrames \in Nat
    BY BoundsAssumption DEF Init, At
  <1>2. TypeOK
    <2>1. hw \in Hardware /\ hw.lid \in BOOLEAN /\ hw.bat \in BOOLEAN
      BY DEF Init, Hardware
    <2>2. stack \in Seq(SleepFrames \cup PropsFrames \cup ErrorFrames)
      BY <1>1, EmptySeq
    <2> QED BY <2>1, <2>2 DEF Init, TypeOK
  <1>3. LidRead /\ Heights /\ Sources /\ Networks /\ Consents /\ Panels
    BY <1>1 DEF Init, LidRead, Heights, Low, Sources, Heard, Quiet, Without, Networks, Consents,
       Panels, At
  <1> QED BY <1>2, <1>3 DEF IInv

LEMMA Inductive == IInv /\ [Next]_vars => IInv'
  BY TypeStep, LidStep, HeightStep, SourceStep, NetworkStep, ConsentStep, PanelStep DEF IInv

LEMMA AlwaysIInv == Spec => []IInv
  BY Initial, Inductive, PTL DEF Spec

(* The variables keep their types, and the stack holds nothing but calls.    *)
THEOREM TypeCorrect == Spec => []TypeOK
  <1>1. IInv => TypeOK
    BY DEF IInv
  <1> QED BY AlwaysIInv, <1>1, PTL

(* However deep the main loop may start handlers, each adds two calls at     *)
(* most: checking the lid after a sleep the lid asked for (blpm-power.c:511) *)
(* does not ask for another.                                                 *)
THEOREM ReentryAlwaysBounded == Spec => []ReentryBounded
  <1>1. IInv => ReentryBounded
    BY DEF IInv, Heights, ReentryBounded
  <1> QED BY AlwaysIInv, <1>1, PTL

(* The network that blpm_power_sleep put to sleep is woken before the last   *)
(* handler returns, unless the user declines to go on without a lock.        *)
THEOREM NetworkAlwaysRestored == Spec => []NetworkRestored
  <1>1. IInv => NetworkRestored
    BY DEF IInv, TypeOK, Networks, Wakes, NetworkRestored, NetworkAwake
  <1> QED BY AlwaysIInv, <1>1, PTL

(* With no handler under way the daemon believes what UPower told it last,   *)
(* of the lid and of the power source.                                       *)
THEOREM BeliefAlwaysCurrent == Spec => []BeliefCurrent
  <1>1. IInv => BeliefCurrent
    BY DEF IInv, LidRead, Sources, Without, At, BeliefCurrent
  <1> QED BY AlwaysIInv, <1>1, PTL

(* A panel that the closed lid switched off is on again with the lid open.   *)
THEOREM PanelAlwaysOn == Spec => []PanelOnWhenOpen
  <1>1. IInv => PanelOnWhenOpen
    BY DEF IInv, Panels, PanelOnWhenOpen
  <1> QED BY AlwaysIInv, <1>1, PTL

(* A machine that an application keeps awake sleeps only by force or with    *)
(* the user's consent, however handlers interleave with the question.        *)
THEOREM SleepsAlwaysWithConsent == Spec => SleepsWithConsent
  <1>1. IInv => (LockWorks /\ At("suspend") /\ inhibited => Head(stack).force \/ Head(stack).yes)
    BY DEF IInv, Consents
  <1> QED BY AlwaysIInv, <1>1, PTL DEF SleepsWithConsent

=============================================================================
