------------------------------ MODULE MCInhibit ------------------------------
(* Instances of Inhibit for TLC: which clients and well-known names exist. *)
EXTENDS Inhibit

CONSTANTS c1, c2, c3, n1

TwoConns == {c1, c2}
ThreeConns == {c1, c2, c3}
Nobody == {}
TwoPlain == {c2, c3}
OneName == {n1}
=============================================================================
