----------------------------- MODULE MCWatchdog -----------------------------
(* Instances of Watchdog for TLC. *)
EXTENDS Watchdog
OneLength == {2}
HaltOrCall == {"SAFESTATE", "CUSTOM"}
=============================================================================
