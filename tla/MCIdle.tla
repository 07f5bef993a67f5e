-------------------------------- MODULE MCIdle --------------------------------
(* Instances of Idle for TLC: dim alarms fire before sleep alarms, as the      *)
(* ranges of the settings have it (seconds against minutes).                   *)
EXTENDS Idle

\* Timeouts that are reconfigured, off or equal; fixed ones; sleep alarms on mains and on
\* battery at their own times.
Varied == [a \in Alarms |-> IF a \in DimAlarms THEN {1, 2} ELSE {Never, 3}]
Fixed == [a \in Alarms |-> IF a \in DimAlarms THEN {1} ELSE {2}]
FixedSleeps == [Fixed EXCEPT !["sleepOnBattery"] = {3}]

\* A daemon that keeps up; mains power and presentation mode are switched by a user who
\* is there.
Prompt ==
    [prompt |-> TRUE, acSwitches |-> {"present"}, presentations |-> {"present"},
     inhibits |-> TRUE, setMayFail |-> FALSE, timeouts |-> Varied]

\* They are switched behind the user's back too, by a machine that does not sleep on idle.
Presented ==
    [prompt |-> TRUE, acSwitches |-> {"present", "away"}, presentations |-> {"present", "away"},
     inhibits |-> FALSE, setMayFail |-> FALSE,
     timeouts |-> [a \in Alarms |-> IF a \in DimAlarms THEN {1, 2} ELSE {Never}]]

\* Events handled late, mains power and presentation mode switched at any time, writes that fail.
Late ==
    [prompt |-> FALSE, acSwitches |-> {"present", "away", "asleep"},
     presentations |-> {"present", "away"}, inhibits |-> FALSE, setMayFail |-> TRUE,
     timeouts |-> Fixed]

\* Nothing in the way of the idle sleep.
Alone ==
    [prompt |-> FALSE, acSwitches |-> {}, presentations |-> {}, inhibits |-> FALSE,
     setMayFail |-> FALSE, timeouts |-> FixedSleeps]

AllWorlds == {Prompt, Presented, Late, Alone}
DimmerOnBattery == [battery \in BOOLEAN |-> IF battery THEN 0 ELSE 1]
=============================================================================
