------------------------------- MODULE MCPower -------------------------------
(* Instances of Power for TLC.  The percentages lie on and just above the     *)
(* bounds of the classes: with critical level 5 they are CRITICAL, LOW, OK,   *)
(* with critical level 15 CRITICAL, CRITICAL, LOW.                            *)
EXTENDS Power

CONSTANTS bat0, dev1

TwoDevices == {bat0, dev1}
BoundaryPercentages == {5, 15, 16}

\* A machine to which everything may happen, and one to which nothing does.  dev1 is a
\* second battery or a mouse.
Unsteady(supplies, levels) ==
    [supplies |-> supplies, hotPlug |-> TRUE, acSwitches |-> TRUE, lockMayFail |-> TRUE,
     levels |-> levels, startups |-> BoundaryPercentages]
Steady ==
    [supplies |-> TwoDevices, hotPlug |-> FALSE, acSwitches |-> FALSE, lockMayFail |-> FALSE,
     levels |-> {5}, startups |-> {15, 16}]

AllMachines == {Unsteady({bat0}, {5, 15}), Unsteady(TwoDevices, {5}), Steady}
PluggedMachine == {[Steady EXCEPT !.acSwitches = TRUE]}
=============================================================================
