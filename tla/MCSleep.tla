------------------------------ MODULE MCSleep ------------------------------
(* Model values for TLC: settings that differ in what the run is about.     *)
EXTENDS Sleep

Setting(nm, lock, ac, battery) ==
    [nm |-> nm, lock |-> lock, logindLid |-> FALSE, lidOnAc |-> ac, lidOnBattery |-> battery,
     key |-> "suspend", idle |-> "suspend"]

LidSleeps  == {Setting(TRUE, TRUE, "suspend", "suspend"), Setting(FALSE, TRUE, "suspend", "suspend")}
LidDiffers == {Setting(TRUE, TRUE, "nothing", "hibernate"),
               [Setting(FALSE, FALSE, "lock", "nothing") EXCEPT !.key = "shutdown", !.logindLid = TRUE]}
LidLocks   == {Setting(FALSE, TRUE, "nothing", "lock"), Setting(TRUE, FALSE, "suspend", "nothing")}

Locks    == [configs |-> LidDiffers, answers |-> {}, batched |-> FALSE]
Batches  == [Locks EXCEPT !.batched = TRUE]
Asks     == [configs |-> LidSleeps, answers |-> {TRUE}, batched |-> TRUE]
Declines == [configs |-> LidLocks, answers |-> BOOLEAN, batched |-> TRUE]
AllWorlds == {Locks, Batches, Asks, Declines}

TwoLevels  == {1, 2}
=============================================================================
