--------------------------- MODULE InstancesProofs ---------------------------
(***************************************************************************)
(* Proofs about Instances for any number of processes: at most one serves, *)
(* and, if a new daemon sets up after the old one has finished, the        *)
(* kernel's brightness switch is what the running daemon set and gets its  *)
(* original value back, wherever daemons crash.                            *)
(***************************************************************************)
EXTENDS Instances, TLAPS

---------------------------------------------------------------------------
(* Types.                                                                   *)

(* The parts of TypeOK about the processes and their names, and the parts   *)
(* about the switch: an action seldom touches both.                         *)
TypeNames ==
    /\ pc \in [Procs -> States]
    /\ blade \in Procs \cup {Nobody}
    /\ freedesktop \in Procs \cup {Nobody, Foreign}

TypeSwitch ==
    /\ kernel \in Bit /\ original \in Bit /\ stored \in Bit \cup {-1}
    /\ saved \in [Procs -> Bit \cup {-1}] /\ switch \in [Procs -> Bit \cup {-1}]
    /\ handleKeys \in BOOLEAN

(* A daemon stores a value it has read and restores one it has saved.       *)
HasSaved ==
    \A p \in Procs :
        /\ pc[p] = "store" => switch[p] \in Bit
        /\ pc[p] \in {"write", "running"} \cup Finishing => saved[p] \in Bit

TypeInv == world \in Worlds /\ TypeNames /\ TypeSwitch /\ HasSaved

LEMMA TypeInit == Init => TypeInv
BY DEF Init, TypeInv, TypeNames, TypeSwitch, HasSaved, States, Finishing, Bit

(* Every step keeps the types: one case per group of actions that touch the *)
(* same variables.                                                          *)
LEMMA TypeStep ==
    ASSUME TypeInv, [Next]_vars
    PROVE  TypeInv'
<1> USE DEF TypeInv
<1>1. world' = world
    BY DEF Next, vars
<1>2. ASSUME NEW p \in Procs, Launch(p) \/ Check(p) \/ Check2(p) \/ Quit(p) \/ Crash(p)
      PROVE  TypeInv'
    <2>1. TypeNames'
        BY <1>2 DEF Launch, Check, Check2, Quit, Crash, Goes, TypeNames, nameVars,
                    States, Starting, Serving, Finishing
    <2>2. TypeSwitch'
        BY <1>2 DEF Launch, Check, Check2, Quit, Crash, TypeSwitch, switchVars
    <2>3. HasSaved'
        BY <1>2 DEF Launch, Check, Check2, Quit, Crash, Goes, TypeNames, HasSaved,
                    Finishing, switchVars
    <2> QED
        BY <1>1, <2>1, <2>2, <2>3
<1>3. ASSUME NEW p \in Procs, Register(p) \/ Register2(p) \/ Release(p) \/ Release2(p)
      PROVE  TypeInv'
    <2>1. TypeNames'
        BY <1>3 DEF Register, Register2, Release, Release2, Goes, TypeNames,
                    States, Starting, Serving, Finishing
    <2>2. TypeSwitch'
        BY <1>3 DEF Register, Register2, Release, Release2, TypeSwitch, switchVars
    <2>3. HasSaved'
        BY <1>3 DEF Register, Register2, Release, Release2, Goes, TypeNames, HasSaved,
                    Finishing, switchVars
    <2> QED
        BY <1>1, <2>1, <2>2, <2>3
<1>4. ASSUME NEW p \in Procs,
             ReadSwitch(p) \/ WriteSwitch(p) \/ SettingApplied(p)
      PROVE  TypeInv'
    <2>1. TypeNames'
        BY <1>4 DEF ReadSwitch, WriteSwitch, SettingApplied, Goes, TypeNames,
                    nameVars, States, Serving
    <2>2. TypeSwitch'
        BY <1>4 DEF ReadSwitch, WriteSwitch, SettingApplied, TypeSwitch, Wanted, Bit
    <2>3. HasSaved'
        BY <1>4 DEF ReadSwitch, WriteSwitch, SettingApplied, Goes, TypeNames,
                    TypeSwitch, HasSaved, Finishing
    <2> QED
        BY <1>1, <2>1, <2>2, <2>3
<1>5. ASSUME NEW p \in Procs, StoreSwitch(p) PROVE TypeInv'
    <2>1. TypeNames'
        BY <1>5 DEF StoreSwitch, Goes, TypeNames, nameVars, States, Serving
    <2>2. stored' \in Bit /\ saved' = [saved EXCEPT ![p] = stored']
        BY <1>5 DEF StoreSwitch, Goes, TypeSwitch, HasSaved, Bit
    <2>3. TypeSwitch'
        BY <1>5, <2>2 DEF StoreSwitch, TypeSwitch
    <2>4. HasSaved'
        BY <1>5, <2>2 DEF StoreSwitch, Goes, TypeNames, TypeSwitch, HasSaved, Finishing
    <2> QED
        BY <1>1, <2>1, <2>3, <2>4
<1>6. ASSUME NEW p \in Procs, RestoreSwitch(p) \/ ClearStored(p) PROVE TypeInv'
    <2>1. TypeNames'
        BY <1>6 DEF RestoreSwitch, ClearStored, Goes, TypeNames, nameVars, States, Finishing
    <2>2. TypeSwitch'
        BY <1>6 DEF RestoreSwitch, ClearStored, Goes, TypeSwitch, HasSaved, Finishing
    <2>3. HasSaved'
        BY <1>6 DEF RestoreSwitch, ClearStored, Goes, TypeNames, TypeSwitch, HasSaved,
                    Finishing
    <2> QED
        BY <1>1, <2>1, <2>2, <2>3
<1>7. CASE ForeignStarts \/ ForeignStops
    <2>1. freedesktop' \in {Nobody, Foreign}
        BY <1>1, <1>7, WorldsAssumption DEF ForeignStarts, ForeignStops
    <2> QED
        BY <1>1, <1>7, <2>1 DEF ForeignStarts, ForeignStops, TypeNames, TypeSwitch,
                                HasSaved, switchVars
<1>8. CASE AdminSets \/ UserSets
    BY <1>1, <1>8 DEF AdminSets, UserSets, TypeNames, TypeSwitch, HasSaved, nameVars
<1>9. CASE UNCHANGED vars
    BY <1>9 DEF vars, nameVars, switchVars, TypeNames, TypeSwitch, HasSaved
<1> QED
    BY <1>2, <1>3, <1>4, <1>5, <1>6, <1>7, <1>8, <1>9 DEF Next, Runs

(* Every variable keeps its type, whatever the daemons and the world do.    *)
THEOREM TypeCorrect == Spec => []TypeOK
<1>1. TypeInv => TypeOK
    BY DEF TypeInv, TypeNames, TypeSwitch, TypeOK
<1> QED
    BY <1>1, TypeInit, TypeStep, PTL DEF Spec

LEMMA TypeInvariant == Spec => []TypeInv
BY TypeInit, TypeStep, PTL DEF Spec

---------------------------------------------------------------------------
(* The names.                                                               *)

(* A process owns the first name from its reservation to its release, and   *)
(* the second one likewise; a zombie may own the first.                     *)
OwnsNames ==
    \A p \in Procs :
        /\ pc[p] \in {"register2", "release"} \cup Serving => blade = p
        /\ pc[p] \in {"release", "release2"} \cup Serving => freedesktop = p

LEMMA OwnsInit == Init => OwnsNames
BY DEF Init, OwnsNames, Serving

LEMMA OwnsStep ==
    ASSUME TypeNames, OwnsNames, [Next]_vars
    PROVE  OwnsNames'
<1> USE DEF TypeNames, OwnsNames, Serving
<1>1. ASSUME NEW p \in Procs, Launch(p) \/ Check(p) \/ Check2(p) PROVE OwnsNames'
    BY <1>1 DEF Launch, Check, Check2, Goes, nameVars
<1>2. ASSUME NEW p \in Procs, Register(p) PROVE OwnsNames'
    BY <1>2, ProcsAssumption DEF Register, Goes
<1>3. ASSUME NEW p \in Procs, Register2(p) PROVE OwnsNames'
    BY <1>3, ProcsAssumption DEF Register2, Goes
<1>4. ASSUME NEW p \in Procs,
             ReadSwitch(p) \/ StoreSwitch(p) \/ WriteSwitch(p) \/ SettingApplied(p)
      PROVE  OwnsNames'
    BY <1>4 DEF ReadSwitch, StoreSwitch, WriteSwitch, SettingApplied, Goes, nameVars
<1>5. ASSUME NEW p \in Procs, Quit(p) PROVE OwnsNames'
    BY <1>5 DEF Quit, Goes, nameVars
<1>6. ASSUME NEW p \in Procs, Release(p) PROVE OwnsNames'
    BY <1>6 DEF Release, Goes
<1>7. ASSUME NEW p \in Procs, Release2(p) PROVE OwnsNames'
    BY <1>7 DEF Release2, Goes
<1>8. ASSUME NEW p \in Procs, RestoreSwitch(p) \/ ClearStored(p) PROVE OwnsNames'
    BY <1>8 DEF RestoreSwitch, ClearStored, Goes, nameVars
<1>9. ASSUME NEW p \in Procs, Crash(p) PROVE OwnsNames'
    BY <1>9 DEF Crash
<1>10. CASE ForeignStarts \/ ForeignStops
    BY <1>10, ProcsAssumption DEF ForeignStarts, ForeignStops
<1>11. CASE AdminSets \/ UserSets
    BY <1>11 DEF AdminSets, UserSets, nameVars
<1>12. CASE UNCHANGED vars
    BY <1>12 DEF vars, nameVars
<1> QED
    BY <1>1, <1>2, <1>3, <1>4, <1>5, <1>6, <1>7, <1>8, <1>9, <1>10, <1>11, <1>12
    DEF Next, Runs

LEMMA OwnsInvariant == Spec => []OwnsNames
<1>1. TypeInv => TypeNames
    BY DEF TypeInv
<1> QED
    BY <1>1, OwnsInit, OwnsStep, TypeInvariant, PTL DEF Spec

(* However many processes start, restart and crash, and whatever another    *)
(* power manager does, at most one serves, and it owns both names.          *)
THEOREM AlwaysOneManager == Spec => []OneManager
<1>1. OwnsNames => OneManager
    BY DEF OwnsNames, OneManager, Serving
<1> QED
    BY <1>1, OwnsInvariant, PTL

---------------------------------------------------------------------------
(* The switch.                                                              *)

Busy == {"store", "write", "running"} \cup Finishing

(* At most one process is between reading the switch and clearing the       *)
(* stored value.                                                            *)
AtMostOneBusy == \A p, q \in Procs : pc[p] \in Busy /\ pc[q] \in Busy => p = q

(* The original value is in the configuration or in the kernel, and the     *)
(* process that is to restore it has it.                                    *)
OriginalKnown ==
    /\ stored # -1 => stored = original
    /\ stored = -1 => kernel = original
    /\ \A p \in Procs :
         /\ pc[p] = "store" /\ stored = -1 => switch[p] = original
         /\ pc[p] \in Busy \ {"store"} => stored # -1 /\ saved[p] = stored
         /\ pc[p] = "clear" => kernel = original
         /\ pc[p] = "running" => kernel = switch[p]

SwitchInv == AtMostOneBusy /\ OriginalKnown

LEMMA SwitchInit == Init => SwitchInv
BY DEF Init, SwitchInv, AtMostOneBusy, OriginalKnown, Busy, Finishing

LEMMA BusyStep ==
    ASSUME TypeNames, OwnsNames, AtMostOneBusy, ~world.overlap, [Next]_vars
    PROVE  AtMostOneBusy'
<1> USE DEF TypeNames, AtMostOneBusy, Busy, Finishing
<1>1. ASSUME NEW p \in Procs, ReadSwitch(p) PROVE AtMostOneBusy'
    <2>1. Alone(p) /\ pc[p] = "read" /\ pc' = [pc EXCEPT ![p] = "store"]
        BY <1>1 DEF ReadSwitch, Goes
    <2>2. \A q \in Procs \ {p} : pc[q] \notin Busy
        BY <2>1 DEF Alone, OwnsNames, Serving
    <2> QED
        BY <2>1, <2>2
<1>2. ASSUME NEW p \in Procs,
             \/ Launch(p) \/ Check(p) \/ Check2(p) \/ Register(p) \/ Register2(p)
             \/ StoreSwitch(p) \/ WriteSwitch(p) \/ SettingApplied(p)
      PROVE  AtMostOneBusy'
    BY <1>2 DEF Launch, Check, Check2, Register, Register2, StoreSwitch, WriteSwitch,
                SettingApplied, Goes
<1>3. ASSUME NEW p \in Procs,
             \/ Quit(p) \/ Release(p) \/ Release2(p) \/ RestoreSwitch(p)
             \/ ClearStored(p) \/ Crash(p)
      PROVE  AtMostOneBusy'
    BY <1>3 DEF Quit, Release, Release2, RestoreSwitch, ClearStored, Crash, Goes
<1>4. CASE ForeignStarts \/ ForeignStops \/ AdminSets \/ UserSets \/ UNCHANGED vars
    BY <1>4 DEF ForeignStarts, ForeignStops, AdminSets, UserSets, vars
<1> QED
    BY <1>1, <1>2, <1>3, <1>4 DEF Next, Runs

LEMMA OriginalStep ==
    ASSUME TypeInv, AtMostOneBusy, OriginalKnown, [Next]_vars
    PROVE  OriginalKnown'
<1> USE DEF TypeInv, TypeNames, OriginalKnown, Busy, Finishing
<1>1. ASSUME NEW p \in Procs, Launch(p) \/ Check(p) \/ Check2(p) PROVE OriginalKnown'
    BY <1>1 DEF Launch, Check, Check2, Goes, switchVars
<1>2. ASSUME NEW p \in Procs, Register(p) \/ Register2(p) PROVE OriginalKnown'
    BY <1>2 DEF Register, Register2, Goes, switchVars
<1>3. ASSUME NEW p \in Procs, ReadSwitch(p) PROVE OriginalKnown'
    BY <1>3 DEF ReadSwitch, Goes, TypeSwitch
<1>4. ASSUME NEW p \in Procs, StoreSwitch(p) PROVE OriginalKnown'
    <2>1. pc[p] = "store" /\ pc' = [pc EXCEPT ![p] = "write"]
        BY <1>4 DEF StoreSwitch, Goes
    <2>2. stored' = original /\ stored' # -1 /\ saved'[p] = stored'
        BY <1>4, <2>1 DEF StoreSwitch, TypeSwitch, HasSaved, Bit
    <2>3. \A q \in Procs \ {p} : pc'[q] = pc[q] /\ pc[q] \notin Busy
        BY <2>1 DEF AtMostOneBusy
    <2> QED
        BY <1>4, <2>1, <2>2, <2>3 DEF StoreSwitch
<1>5. ASSUME NEW p \in Procs, WriteSwitch(p) PROVE OriginalKnown'
    <2>1. pc[p] = "write" /\ pc' = [pc EXCEPT ![p] = "running"]
        BY <1>5 DEF WriteSwitch, Goes
    <2>2. \A q \in Procs \ {p} : pc'[q] = pc[q] /\ pc[q] \notin Busy
        BY <2>1 DEF AtMostOneBusy
    <2> QED
        BY <1>5, <2>1, <2>2 DEF WriteSwitch, TypeSwitch
<1>6. ASSUME NEW p \in Procs, SettingApplied(p) PROVE OriginalKnown'
    <2>1. \A q \in Procs \ {p} : pc[q] \notin Busy
        BY <1>6 DEF SettingApplied, AtMostOneBusy
    <2> QED
        BY <1>6, <2>1 DEF SettingApplied, TypeSwitch
<1>7. ASSUME NEW p \in Procs, Quit(p) \/ Release(p) \/ Release2(p) PROVE OriginalKnown'
    BY <1>7 DEF Quit, Release, Release2, Goes, switchVars
<1>8. ASSUME NEW p \in Procs, RestoreSwitch(p) PROVE OriginalKnown'
    <2>1. pc[p] = "restore" /\ pc' = [pc EXCEPT ![p] = "clear"]
        BY <1>8 DEF RestoreSwitch, Goes
    <2>2. \A q \in Procs \ {p} : pc'[q] = pc[q] /\ pc[q] \notin Busy
        BY <2>1 DEF AtMostOneBusy
    <2> QED
        BY <1>8, <2>1, <2>2 DEF RestoreSwitch
<1>9. ASSUME NEW p \in Procs, ClearStored(p) PROVE OriginalKnown'
    <2>1. pc[p] = "clear" /\ pc' = [pc EXCEPT ![p] = "off"]
        BY <1>9 DEF ClearStored, Goes
    <2>2. \A q \in Procs \ {p} : pc'[q] = pc[q] /\ pc[q] \notin Busy
        BY <2>1 DEF AtMostOneBusy
    <2> QED
        BY <1>9, <2>1, <2>2 DEF ClearStored
<1>10. ASSUME NEW p \in Procs, Crash(p) PROVE OriginalKnown'
    BY <1>10 DEF Crash, switchVars
<1>11. CASE AdminSets
    BY <1>11 DEF AdminSets, Untouched
<1>12. CASE ForeignStarts \/ ForeignStops \/ UserSets \/ UNCHANGED vars
    BY <1>12 DEF ForeignStarts, ForeignStops, UserSets, vars, switchVars
<1> QED
    BY <1>1, <1>2, <1>3, <1>4, <1>5, <1>6, <1>7, <1>8, <1>9, <1>10, <1>11, <1>12
    DEF Next, Runs

LEMMA SwitchInvariant == Spec => [](~world.overlap => SwitchInv)
<1>1. Init => (~world.overlap => SwitchInv)
    BY SwitchInit
<1>2. TypeInv /\ OwnsNames /\ (~world.overlap => SwitchInv) /\ [Next]_vars
        => (~world.overlap => SwitchInv)'
    <2> SUFFICES ASSUME TypeInv, OwnsNames, ~world.overlap => SwitchInv, [Next]_vars,
                        ~world'.overlap
                 PROVE  SwitchInv'
        OBVIOUS
    <2>1. ~world.overlap
        BY DEF Next, vars
    <2>2. TypeNames /\ AtMostOneBusy /\ OriginalKnown
        BY <2>1 DEF SwitchInv, TypeInv
    <2>3. AtMostOneBusy'
        BY <2>1, <2>2, BusyStep
    <2>4. OriginalKnown'
        BY <2>2, OriginalStep
    <2> QED
        BY <2>3, <2>4 DEF SwitchInv
<1> QED
    BY <1>1, <1>2, TypeInvariant, OwnsInvariant, PTL DEF Spec

(* If no daemon sets up while another one is finishing, the original value  *)
(* of the kernel's switch survives all starts, restarts and crashes.  The   *)
(* run instances_lost shows that the condition is needed.                   *)
THEOREM SwitchAlwaysRestored == Spec => []SwitchRestored
<1>1. (~world.overlap => SwitchInv) => SwitchRestored
    BY DEF SwitchInv, OriginalKnown, SwitchRestored, OriginalKept, Untouched
<1> QED
    BY <1>1, SwitchInvariant, PTL

(* Under the same condition the kernel's switch is what the running daemon  *)
(* set it to.                                                               *)
THEOREM SwitchAlwaysAsSet == Spec => []SwitchAsSet
<1>1. (~world.overlap => SwitchInv) => SwitchAsSet
    BY DEF SwitchInv, OriginalKnown, SwitchAsSet
<1> QED
    BY <1>1, SwitchInvariant, PTL
=============================================================================
