---------------------------- MODULE MCInstances ----------------------------
(* Worlds for TLC.                                                          *)
EXTENDS Instances

\* Restarts and nothing else; crashes, but an old daemon finishes before a new one sets
\* up; everything.
Calm    == [foreigners |-> {}, overlap |-> TRUE, mayCrash |-> FALSE]
Crashes == [foreigners |-> {}, overlap |-> FALSE, mayCrash |-> TRUE]
Wild    == [foreigners |-> {Foreign}, overlap |-> TRUE, mayCrash |-> TRUE]
AllWorlds == {Calm, Crashes, Wild}
CalmWorld == {Calm}
=============================================================================
