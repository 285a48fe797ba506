----------------------------- MODULE AppManager -----------------------------
(***************************************************************************)
(* The application manager (rte_appmanager.c) with the setup-phase lock    *)
(* (rte_lifecycle.c): rte_appmanager_run() calls the application's         *)
(* operations in phases and stages.  While one of them executes, the       *)
(* application may call this module again: run() itself, a checkpoint      *)
(* mark, a setup-only constructor.  Shutdown requests come from a signal   *)
(* handler and the checkpoint's voter is switched by a background task,    *)
(* both at any moment.  pc is the operation or test run() has reached.     *)
(***************************************************************************)
EXTENDS Naturals, Sequences

CONSTANTS
  Configs,     \* the rte_appmanager_config_t values in use
  MaxCount,    \* counters are exact up to here and stay there
  MaxNesting   \* bound: runs waiting in their shutdown() for a nested run

\* The optional operations present, whether config->checkpoint is set, and
\* the two limits (0 = no limit).
Config == [pre_execute: BOOLEAN, post_execute: BOOLEAN, on_result: BOOLEAN,
           checkpoint: BOOLEAN, max_iterations: Nat, error_threshold: Nat]

ASSUME AppManagerAssumption ==
  /\ MaxCount \in Nat /\ MaxNesting \in Nat
  /\ Configs \subseteq Config
  /\ \A c \in Configs : c.max_iterations <= MaxCount /\ c.error_threshold <= MaxCount

VARIABLES
  state,               \* g_app_state.state
  iteration_count,
  error_count,
  shutdown_requested,  \* g_shutdown_requested
  setup_locked,        \* g_setup_locked
  sig_active,          \* g_checkpoint_signature_active
  signature,           \* g_checkpoint_signature: where its marks were made
  voter,               \* config->checkpoint->voter # NULL
  config,              \* of the run in progress
  pc,
  stack,               \* outer runs, each waiting for an operation that called run()
  degraded,            \* a refused setup call was reported to the safe state
  halted               \* the checkpoint entered the SAFE state and does not return

counters == <<iteration_count, error_count>>
sig == <<sig_active, signature>>
vars == <<state, counters, shutdown_requested, setup_locked, sig, voter, config,
          pc, stack, degraded, halted>>

AppStates == {"UNINITIALIZED", "INITIALIZING", "RUNNING", "SHUTTING_DOWN",
              "SHUTDOWN", "ERROR"}
MidLifecycle == {"INITIALIZING", "RUNNING", "SHUTTING_DOWN"}

Stages == {"pre_execute", "execute", "post_execute", "on_checkpoint_result"}
Loop == Stages \cup {"loop", "checkpoint_test", "checkpoint"}

\* The application's own code executes.
Operations == Stages \cup {"init", "shutdown", "failed_shutdown"}
PC == Operations \cup Loop \cup {"outside", "resetting"}

\* A mark belongs to the cycle in progress or to something before it.
Origins == {"this cycle", "before"}

\* The zeroed state of a process that has not called run() yet.
NoConfig == [pre_execute |-> FALSE, post_execute |-> FALSE, on_result |-> FALSE,
             checkpoint |-> FALSE, max_iterations |-> 0, error_threshold |-> 0]

Init ==
  /\ state = "UNINITIALIZED" /\ iteration_count = 0 /\ error_count = 0
  /\ shutdown_requested = FALSE /\ setup_locked = FALSE
  /\ sig_active = FALSE /\ signature = {}
  /\ voter = TRUE /\ config = NoConfig /\ pc = "outside" /\ stack = <<>>
  /\ degraded = FALSE /\ halted = FALSE

Up(n) == IF n < MaxCount THEN n + 1 ELSE n

-----------------------------------------------------------------------------
(* Entering and leaving run() *)

\* Mutant: a run that is shutting down can be re-entered.
may_enter_while_shutting_down(s) == s \notin {"INITIALIZING", "RUNNING"}

\* The single-entry-point test.
may_enter(s) == s \notin MidLifecycle

\* rte_appmanager_run() up to the first of its resets, from outside or from an
\* operation; a call that is refused returns EXIT_FAILURE and changes nothing.
rte_appmanager_run(c) ==
  /\ ~halted
  /\ pc \in Operations \cup {"outside"}
  /\ may_enter(state)
  /\ pc # "outside" => Len(stack) < MaxNesting
  /\ stack' = IF pc = "outside" THEN stack ELSE Append(stack, [pc |-> pc, config |-> config])
  /\ state' = "INITIALIZING" /\ iteration_count' = 0 /\ error_count' = 0
  /\ config' = c /\ pc' = "resetting"
  /\ UNCHANGED <<shutdown_requested, setup_locked, sig, voter, degraded, halted>>

\* The flags are cleared, after a moment in which a signal may have set one,
\* and init() is called.
flags_reset ==
  /\ pc = "resetting"
  /\ shutdown_requested' = FALSE /\ sig_active' = FALSE /\ setup_locked' = FALSE
  /\ pc' = "init"
  /\ UNCHANGED <<state, counters, signature, voter, config, stack, degraded, halted>>

\* run() returns, to the operation that called it or to the outside.
return_to_caller ==
  IF stack = <<>>
  THEN pc' = "outside" /\ UNCHANGED <<stack, config>>
  ELSE /\ pc' = stack[Len(stack)].pc
       /\ config' = stack[Len(stack)].config
       /\ stack' = SubSeq(stack, 1, Len(stack) - 1)

\* Mutant: requests are cleared when init() has returned.
init_ok_drops_request ==
  /\ pc = "init"
  /\ state' = "RUNNING" /\ setup_locked' = TRUE /\ pc' = "loop"
  /\ shutdown_requested' = FALSE
  /\ UNCHANGED <<counters, sig, voter, config, stack, degraded, halted>>

\* init() returned OK: the setup phase is over.
init_ok ==
  /\ pc = "init"
  /\ state' = "RUNNING" /\ setup_locked' = TRUE /\ pc' = "loop"
  /\ UNCHANGED <<counters, shutdown_requested, sig, voter, config, stack, degraded, halted>>

\* init() failed: shutdown() is still called.
init_failed ==
  /\ pc = "init"
  /\ state' = "ERROR" /\ error_count' = Up(error_count) /\ pc' = "failed_shutdown"
  /\ UNCHANGED <<iteration_count, shutdown_requested, setup_locked, sig, voter,
                 config, stack, degraded, halted>>

failed_shutdown_returns ==
  /\ ~halted /\ pc = "failed_shutdown"
  /\ return_to_caller
  /\ UNCHANGED <<state, counters, shutdown_requested, setup_locked, sig, voter, degraded, halted>>

\* Whatever shutdown() returns, the run is complete.
shutdown_returns ==
  /\ pc = "shutdown"
  /\ state' = "SHUTDOWN"
  /\ return_to_caller
  /\ UNCHANGED <<counters, shutdown_requested, setup_locked, sig, voter, degraded, halted>>

-----------------------------------------------------------------------------
(* The cycle *)

\* Mutant: the signature keeps the marks of earlier cycles.
signature_reset_keeps(s) == s

\* The seed: no marks.
rte_appmanager_checkpoint_signature_reset(s) == {}

LoopContinues ==
  /\ ~shutdown_requested
  /\ config.max_iterations = 0 \/ iteration_count < config.max_iterations

cycle_begins ==
  /\ ~halted /\ pc = "loop" /\ LoopContinues
  /\ iteration_count' = Up(iteration_count)
  /\ signature' = rte_appmanager_checkpoint_signature_reset(
                    IF signature = {} THEN {} ELSE {"before"})
  /\ sig_active' = TRUE
  /\ pc' = IF config.pre_execute THEN "pre_execute" ELSE "execute"
  /\ UNCHANGED <<state, error_count, shutdown_requested, setup_locked, voter, config,
                 stack, degraded, halted>>

\* Mutant: the setup phase stays locked after the loop.
loop_ends_locked ==
  /\ pc = "loop" /\ ~LoopContinues
  /\ state' = "SHUTTING_DOWN" /\ sig_active' = FALSE
  /\ pc' = "shutdown"
  /\ UNCHANGED <<counters, shutdown_requested, setup_locked, signature, voter, config, stack, degraded, halted>>

loop_ends ==
  /\ pc = "loop" /\ ~LoopContinues
  /\ state' = "SHUTTING_DOWN" /\ sig_active' = FALSE /\ setup_locked' = FALSE
  /\ pc' = "shutdown"
  /\ UNCHANGED <<counters, shutdown_requested, signature, voter, config, stack, degraded, halted>>

\* Mutant: the threshold is noticed one error late.
handle_stage_result_late(ok) ==
  /\ error_count' = IF ok THEN error_count ELSE Up(error_count)
  /\ shutdown_requested' =
       (shutdown_requested \/ (/\ ~ok /\ config.error_threshold > 0
                               /\ error_count >= config.error_threshold))

rte_appmanager_handle_stage_result(ok) ==
  /\ error_count' = IF ok THEN error_count ELSE Up(error_count)
  /\ shutdown_requested' =
       (shutdown_requested \/ (/\ ~ok /\ config.error_threshold > 0
                               /\ error_count' >= config.error_threshold))

\* A stage returned; next is where run() goes then.
stage_returns(stage, ok, next) ==
  /\ ~halted /\ pc = stage
  /\ rte_appmanager_handle_stage_result(ok)
  /\ pc' = next
  /\ UNCHANGED <<state, iteration_count, setup_locked, sig, voter, config, stack, degraded, halted>>

\* A failed pre_execute() or execute() skips the rest of the cycle.
pre_execute_returns(ok) == stage_returns("pre_execute", ok, IF ok THEN "execute" ELSE "loop")

execute_returns(ok) ==
  stage_returns("execute", ok,
    IF ~ok THEN "loop" ELSE IF config.post_execute THEN "post_execute" ELSE "checkpoint_test")

post_execute_returns(ok) == stage_returns("post_execute", ok, "checkpoint_test")

AfterCheckpoint == IF config.on_result THEN "on_checkpoint_result" ELSE "loop"

\* The test whether there is a checkpoint with a voter.
checkpoint_test ==
  /\ ~halted /\ pc = "checkpoint_test"
  /\ pc' = IF config.checkpoint /\ voter THEN "checkpoint" ELSE AfterCheckpoint
  /\ UNCHANGED <<state, counters, shutdown_requested, setup_locked, sig, voter, config,
                 stack, degraded, halted>>

\* rte_channel_checkpoint(), given the voter read again: without one it is
\* refused, with one it succeeds, fails, or enters the SAFE state for good.
checkpoint_returns(ok) == (ok => voter) /\ stage_returns("checkpoint", ok, AfterCheckpoint)

checkpoint_halts ==
  /\ ~halted /\ pc = "checkpoint" /\ voter
  /\ halted' = TRUE
  /\ UNCHANGED <<state, counters, shutdown_requested, setup_locked, sig, voter, config,
                 pc, stack, degraded>>

result_returns(ok) == stage_returns("on_checkpoint_result", ok, "loop")

-----------------------------------------------------------------------------
(* What the operations call, and what happens meanwhile *)

\* A mark outside an active cycle is ignored.
rte_appmanager_checkpoint_mark ==
  /\ ~halted /\ pc \in Operations \cup {"outside"}
  /\ sig_active
  /\ signature' = signature \cup {IF pc \in Stages THEN "this cycle" ELSE "before"}
  /\ UNCHANGED <<state, counters, shutdown_requested, setup_locked, sig_active, voter,
                 config, pc, stack, degraded, halted>>

\* A setup-only constructor asks rte_lifecycle_check_setup_allowed(); a
\* refusal is reported at the DEGRADED level.
rte_lifecycle_check_setup_allowed ==
  /\ ~halted /\ pc \in Operations \cup {"outside"}
  /\ setup_locked
  /\ degraded' = TRUE
  /\ UNCHANGED <<state, counters, shutdown_requested, setup_locked, sig, voter, config,
                 pc, stack, halted>>

rte_appmanager_request_shutdown ==
  /\ ~halted
  /\ shutdown_requested' = TRUE
  /\ UNCHANGED <<state, counters, setup_locked, sig, voter, config, pc, stack, degraded, halted>>

\* The application's safe-state handler jumped out of the halted call for good
\* and resets the manager, as rte_appmanager.h asks of it.
rte_appmanager_reset_state ==
  /\ halted
  /\ state' = "UNINITIALIZED" /\ iteration_count' = 0 /\ error_count' = 0
  /\ shutdown_requested' = FALSE /\ sig_active' = FALSE /\ setup_locked' = FALSE
  /\ pc' = "outside" /\ stack' = <<>> /\ halted' = FALSE
  /\ UNCHANGED <<signature, voter, config, degraded>>

\* The background task pauses the checkpoint or resumes it.
voter_switches ==
  /\ ~halted
  /\ voter' = ~voter
  /\ UNCHANGED <<state, counters, shutdown_requested, setup_locked, sig, config, pc,
                 stack, degraded, halted>>

RunStep ==
  \/ flags_reset \/ init_ok \/ init_failed \/ failed_shutdown_returns \/ shutdown_returns
  \/ cycle_begins \/ loop_ends
  \/ \E ok \in BOOLEAN :
       \/ pre_execute_returns(ok) \/ execute_returns(ok) \/ post_execute_returns(ok)
       \/ checkpoint_returns(ok) \/ result_returns(ok)
  \/ checkpoint_test \/ checkpoint_halts

Next ==
  \/ \E c \in Configs : rte_appmanager_run(c)
  \/ RunStep
  \/ rte_appmanager_checkpoint_mark
  \/ rte_lifecycle_check_setup_allowed
  \/ rte_appmanager_request_shutdown
  \/ rte_appmanager_reset_state
  \/ voter_switches

Spec == Init /\ [][Next]_vars

\* Every operation returns, so run() goes on.
LiveSpec == Spec /\ WF_vars(RunStep)

-----------------------------------------------------------------------------
(* Properties *)

\* Every variable keeps its type.
TypeOK ==
  /\ state \in AppStates
  /\ iteration_count \in 0..MaxCount /\ error_count \in 0..MaxCount
  /\ shutdown_requested \in BOOLEAN /\ setup_locked \in BOOLEAN
  /\ sig_active \in BOOLEAN /\ signature \in SUBSET Origins
  /\ voter \in BOOLEAN /\ config \in Configs \cup {NoConfig}
  /\ pc \in PC
  /\ stack \in Seq([pc: {"failed_shutdown"}, config: Configs])
  /\ degraded \in BOOLEAN /\ halted \in BOOLEAN

\* REQ-APPMANAGER-010: the setup phase is locked from the moment init() has
\* succeeded until the loop is left and at no other time, also when an outer
\* run waits for a nested one or failed before it.
LockedWhileRunning == setup_locked <=> pc \in Loop

\* REQ-APPMANAGER-014: the signature a checkpoint compares holds only marks
\* made in its own cycle, never one of an earlier cycle or an earlier run.
SignatureIsThisCycle == pc = "checkpoint" => signature \subseteq {"this cycle"}

\* REQ-APPMANAGER-007: no cycle begins once the errors have reached the
\* threshold, whichever stages they came from.
NoCycleAfterThreshold ==
  [][cycle_begins => config.error_threshold = 0 \/ error_count < config.error_threshold]_vars

\* rte_appmanager_request_shutdown(): a request that is pending in a run which
\* has cleared the flags, or an error threshold reached in it, ends it, unless
\* the SAFE state has halted the process.  A request that comes after the state
\* is INITIALIZING and before g_shutdown_requested is cleared is excepted: it is
\* lost.
ShutdownHonoured ==
  shutdown_requested /\ state \in MidLifecycle /\ pc # "resetting"
    ~> state \notin MidLifecycle \/ halted
=============================================================================
