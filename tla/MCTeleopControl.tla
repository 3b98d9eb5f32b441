-------------------------- MODULE MCTeleopControl --------------------------
(* Bounds for TLC: the .cfg files give the constants their values.          *)
EXTENDS TeleopControl

Places == {0, 1, 3}
=============================================================================
