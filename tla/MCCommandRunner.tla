-------------------------- MODULE MCCommandRunner --------------------------
(* Model-checking instances of CommandRunner.                                *)
EXTENDS CommandRunner
=============================================================================
