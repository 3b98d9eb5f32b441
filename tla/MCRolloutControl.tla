-------------------------- MODULE MCRolloutControl --------------------------
(* Bounds for TLC: the .cfg files give the constants their values.          *)
EXTENDS RolloutControl

Both == BOOLEAN
OnlyCompiled == {TRUE}
OnlyReplace == {TRUE}
OnlyEager == {FALSE}
=============================================================================
