---------------------------- MODULE MCBrightness ----------------------------
(* Machines for TLC: a fine and a coarse output of the X server, one that does *)
(* not begin at zero, and kernel interfaces; the panel alone, the keys alone   *)
(* and both.                                                                   *)
EXTENDS Brightness

Output(low, high) == [builtin |-> TRUE, min |-> low, max |-> high]
External == [builtin |-> FALSE, min |-> 0, max |-> 9]
Interfaces == {[name |-> "acpi_video0", max |-> 7], [name |-> "intel_backlight", max |-> 23]}

World(outputs, backlights, keys, panel) ==
    [outputs |-> outputs, backlights |-> backlights, root |-> TRUE, keys |-> keys,
     panel |-> panel, kbdMax |-> 0, kbdKeys |-> {}]
Keyboard(max, dir) ==
    [World({}, {}, {}, FALSE) EXCEPT !.kbdMax = max, !.kbdKeys = {dir}]

\* One key, again and again.
Climbing == {World({Output(0, m)}, {}, {d}, FALSE) : m \in {7, 20, 21, 105}, d \in Directions}
            \cup {World({External}, Interfaces, {d}, FALSE) : d \in Directions}
            \cup {Keyboard(m, d) : m \in {3, 19, 20, 39}, d \in Directions}
\* The panel alone, and with the keys.
Panels == {World({Output(0, 105)}, {}, {}, TRUE), World({Output(2, 6)}, {}, {}, TRUE),
           World({External}, Interfaces, {}, TRUE)}
Shared == {World({Output(1, 5)}, {}, Directions, TRUE),
           [World({}, {[name |-> "radeon_bl0", max |-> 4]}, Directions, TRUE) EXCEPT !.root = FALSE],
           World({}, {[name |-> "radeon_bl0", max |-> 4]}, Directions, TRUE)}

AllWorlds == Climbing \cup Panels \cup Shared
=============================================================================
