------------------------------ MODULE MC_Daemon ------------------------------
(* Model-checking instance of Daemon: MaxSignals is given in the .cfg.     *)
EXTENDS Daemon
=============================================================================
