----------------------------- MODULE MCLauncher -----------------------------
(* Launcher with a bound on signal deliveries, for TLC. *)
EXTENDS Launcher
=============================================================================
