----------------------------- MODULE MCDisplay -----------------------------
(* Model values for TLC.  1092 minutes is the last time that fits a guint16 *)
(* of seconds.                                                              *)
EXTENDS Display

DpmsSet(on, standby, sleep, off) ==
    [enabled |-> on, standby |-> standby, sleepOnAc |-> sleep, offOnAc |-> off,
     sleepOnBattery |-> 5, offOnBattery |-> 10]
SomeDpms == {DpmsSet(TRUE, TRUE, 10, 15), DpmsSet(TRUE, FALSE, 0, 1092), DpmsSet(FALSE, FALSE, 10, 15)}
SomeBlank == {0, 10, 15}
=============================================================================
