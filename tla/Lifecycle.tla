----------------------------- MODULE Lifecycle -----------------------------
(***************************************************************************)
(* The setup-phase lock (rte_lifecycle.c), one flag for the whole process: *)
(* the application manager locks it when its loop begins and unlocks it    *)
(* when the loop ends; every setup-only call of the library asks it first. *)
(***************************************************************************)
VARIABLE locked   \* g_setup_locked

LifecycleInit == locked = FALSE

rte_lifecycle_lock == locked' = TRUE
rte_lifecycle_unlock == locked' = FALSE

\* INVALID_STATE otherwise, after a report that returns.
rte_lifecycle_check_setup_allowed == ~locked
=============================================================================
