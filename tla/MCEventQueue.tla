---------------------------- MODULE MCEventQueue ----------------------------
(* Instances of EventQueue for TLC. *)
EXTENDS EventQueue

CONSTANTS e1, e2, d1, d2

TwoItems == {e1, e2}
OneConsumer == {d1}
TwoConsumers == {d1, d2}
LowHigh == {0, 1}

=============================================================================
