-------------------------- MODULE AppManager_proofs --------------------------
(***************************************************************************)
(* Proofs about AppManager.  TypeOK, LockedWhileRunning and                *)
(* SignatureIsThisCycle are not inductive alone: which operation executes  *)
(* is known to the code only through g_app_state.state, so the inductive   *)
(* invariant ties the two together, says when the signature is active and  *)
(* that a reached threshold has already asked for the shutdown.            *)
(***************************************************************************)
EXTENDS AppManager, SequenceTheorems, TLAPS

\* g_app_state.state tells where run() is.
StateTellsPhase ==
  /\ pc \in {"resetting", "init"} <=> state = "INITIALIZING"
  /\ pc \in Loop <=> state = "RUNNING"
  /\ pc = "shutdown" <=> state = "SHUTTING_DOWN"

\* Only the loop has an active signature.
ActiveOnlyInLoop == sig_active => pc \in Loop

\* Between two loop tests the signature holds marks of this cycle only.
CycleMarks == pc \in Loop \ {"loop"} => signature \subseteq {"this cycle"}

\* A run in progress has a configuration of the integrator's.
Configured == pc # "outside" => config \in Configs

\* Errors at the threshold have requested the shutdown.
ThresholdAsks ==
  /\ pc \in Loop \cup {"init"}
  /\ config.error_threshold > 0
  /\ error_count >= config.error_threshold
  => shutdown_requested

\* A run that has just begun has counted nothing.
NoErrorsAtStart == pc = "resetting" => error_count = 0

\* An outer run waits in the shutdown() of its failed init().
Waiting == [pc: {"failed_shutdown"}, config: Configs]

\* The inductive invariant: what is proved, and what ties the phase to the state.
IInv ==
  /\ TypeOK /\ LockedWhileRunning /\ StateTellsPhase /\ ActiveOnlyInLoop
  /\ CycleMarks /\ Configured /\ ThresholdAsks /\ NoErrorsAtStart

\* The limits of a configuration are naturals, the threshold a reachable one.
LEMMA ConfigFacts ==
  ASSUME NEW c \in Configs
  PROVE  /\ c.error_threshold \in Nat /\ c.max_iterations \in Nat
         /\ c.error_threshold <= MaxCount
<1>1. c \in Config
  BY AppManagerAssumption
<1> QED
  BY <1>1, AppManagerAssumption DEF Config

\* A run that has counted no error is below its threshold, if it has one.
LEMMA NoErrorsYet ==
  ASSUME NEW c \in Configs
  PROVE  ~(c.error_threshold > 0 /\ 0 >= c.error_threshold)
<1>1. c.error_threshold \in Nat
  BY ConfigFacts
<1> QED
  BY <1>1

\* A counter may start at zero.
LEMMA ZeroCounts == 0 \in 0..MaxCount
<1>1. MaxCount \in Nat
  BY AppManagerAssumption
<1> QED
  BY <1>1

\* A saturating counter stays within its bounds and never goes down.
LEMMA UpFacts ==
  ASSUME NEW n \in 0..MaxCount
  PROVE  MaxCount \in Nat /\ Up(n) \in 0..MaxCount /\ Up(n) >= n /\ (n < MaxCount => Up(n) = n + 1)
  BY AppManagerAssumption DEF Up

\* Popping a non-empty stack.
LEMMA Popped ==
  ASSUME NEW S, NEW s \in Seq(S), s # <<>>
  PROVE  s[Len(s)] \in S /\ SubSeq(s, 1, Len(s) - 1) \in Seq(S)
<1>1. Len(s) \in Nat \ {0}
  BY EmptySeq
<1>2. \A i \in 1 .. Len(s) : s[i] \in S
  BY ElementOfSeq
<1>3. SubSeq(s, 1, Len(s) - 1) \in Seq(S)
  <2>1. \A i \in 1 .. (Len(s) - 1) : s[i] \in S
    BY <1>1, <1>2
  <2>2. 1 \in Int /\ Len(s) - 1 \in Int
    BY <1>1
  <2> QED
    BY <2>1, <2>2, SubSeqProperties
<1> QED
  BY <1>1, <1>2, <1>3

\* The process starts in the invariant.
LEMMA InitInv == Init => IInv
<1> SUFFICES ASSUME Init PROVE IInv
  OBVIOUS
<1>1. stack \in Seq(Waiting)
  BY EmptySeq DEF Init
<1>2. TypeOK
  <2>1. 0 \in 0..MaxCount
    BY ZeroCounts
  <2>2. stack \in Seq([pc: {"failed_shutdown"}, config: Configs])
    BY <1>1 DEF Waiting
  <2>3. signature \in SUBSET Origins /\ config \in Configs \cup {NoConfig}
    BY DEF Init
  <2>4. state \in AppStates /\ pc \in PC
    BY DEF Init, AppStates, PC
  <2> QED
    BY <2>1, <2>2, <2>3, <2>4 DEF Init, TypeOK
<1> QED
  BY <1>2 DEF Init, IInv, LockedWhileRunning, StateTellsPhase,
     ActiveOnlyInLoop, CycleMarks, Configured, ThresholdAsks, NoErrorsAtStart, Stages, Loop

\* Every step of run(), of an operation it called and of the other tasks
\* preserves the invariant.
LEMMA StepInv == IInv /\ [Next]_vars => IInv'
<1> SUFFICES ASSUME IInv, [Next]_vars PROVE IInv'
  OBVIOUS
<1> USE DEF IInv, TypeOK, LockedWhileRunning, StateTellsPhase,
      ActiveOnlyInLoop, CycleMarks, Configured, ThresholdAsks, NoErrorsAtStart
<1>1. ASSUME NEW c \in Configs, rte_appmanager_run(c) PROVE IInv'
  <2>1. pc # "outside" => pc = "failed_shutdown"
    BY <1>1 DEF rte_appmanager_run, may_enter, MidLifecycle, Operations, Stages, Loop
  <2>2. stack' \in Seq(Waiting)
    <3>1. CASE pc = "outside"
      BY <1>1, <3>1 DEF rte_appmanager_run, Waiting
    <3>2. CASE pc # "outside"
      <4>1. [pc |-> pc, config |-> config] \in Waiting
        BY <2>1, <3>2 DEF Waiting
      <4> QED
        BY <1>1, <3>2, <4>1, AppendProperties DEF rte_appmanager_run, Waiting
    <3> QED
      BY <3>1, <3>2
  <2>3. TypeOK'
    <3>1. 0 \in 0..MaxCount
      BY ZeroCounts
    <3>2. stack' \in Seq([pc: {"failed_shutdown"}, config: Configs])
      BY <2>2 DEF Waiting
    <3>3. state' \in AppStates /\ pc' \in PC
      BY <1>1 DEF rte_appmanager_run, AppStates, PC, Operations
    <3> QED
      BY <1>1, <3>1, <3>2, <3>3 DEF rte_appmanager_run, sig
  <2>4. ThresholdAsks'
    <3>1. error_count' = 0 /\ config' = c
      BY <1>1 DEF rte_appmanager_run
    <3>2. ~(c.error_threshold > 0 /\ 0 >= c.error_threshold)
      BY NoErrorsYet
    <3> QED
      BY <3>1, <3>2
  <2> QED
    BY <1>1, <2>1, <2>3, <2>4 DEF rte_appmanager_run, Stages, Loop, sig
<1>2. CASE init_ok
  BY <1>2 DEF init_ok, AppStates, PC, Operations, Stages, Loop, counters, sig
<1>3. CASE init_failed
  BY <1>3, UpFacts DEF init_failed, AppStates, PC, Operations, Stages, Loop, counters, sig
<1>4. ASSUME return_to_caller
      PROVE  /\ stack' \in Seq([pc: {"failed_shutdown"}, config: Configs])
             /\ pc' \in {"outside", "failed_shutdown"}
             /\ config' \in Configs \cup {NoConfig}
             /\ pc' # "outside" => config' \in Configs
  <2>1. CASE stack = <<>>
    BY <1>4, <2>1 DEF return_to_caller
  <2>2. CASE stack # <<>>
    <3>1. stack[Len(stack)] \in Waiting /\ SubSeq(stack, 1, Len(stack) - 1) \in Seq(Waiting)
      BY <2>2, Popped DEF Waiting
    <3> QED
      BY <1>4, <2>2, <3>1 DEF return_to_caller, Waiting
  <2> QED
    BY <2>1, <2>2
<1>5. CASE failed_shutdown_returns
  BY <1>5, <1>4 DEF failed_shutdown_returns, AppStates, PC, Operations, Stages, Loop, counters, sig
<1>6. CASE shutdown_returns
  BY <1>6, <1>4 DEF shutdown_returns, AppStates, PC, Operations, Stages, Loop, counters, sig
<1>7. CASE cycle_begins
  BY <1>7, UpFacts DEF cycle_begins, rte_appmanager_checkpoint_signature_reset, AppStates, PC, Operations, Stages, Loop, counters, sig
<1>8. CASE loop_ends
  BY <1>8 DEF loop_ends, AppStates, PC, Operations, Stages, Loop, counters, sig
<1>9. ASSUME NEW ok \in BOOLEAN, NEW next \in Loop, NEW stage \in Loop \ {"loop"},
             stage_returns(stage, ok, next)
      PROVE  IInv'
  BY <1>9, UpFacts, ConfigFacts DEF stage_returns, rte_appmanager_handle_stage_result,
     AppStates, PC, Operations, Stages, Loop, counters, sig
<1>10. CASE checkpoint_test
  BY <1>10 DEF checkpoint_test, AfterCheckpoint, AppStates, PC, Operations, Stages, Loop, counters, sig
<1>11. CASE checkpoint_halts
  BY <1>11 DEF checkpoint_halts, counters, sig
<1>12. CASE rte_appmanager_checkpoint_mark
  BY <1>12 DEF rte_appmanager_checkpoint_mark, Origins, Operations, Stages, Loop, counters, sig
<1>13. CASE rte_lifecycle_check_setup_allowed
  BY <1>13 DEF rte_lifecycle_check_setup_allowed, counters, sig
<1>14. CASE rte_appmanager_request_shutdown
  BY <1>14 DEF rte_appmanager_request_shutdown, counters, sig
<1>15. CASE voter_switches
  BY <1>15 DEF voter_switches, counters, sig
<1>16. CASE UNCHANGED vars
  BY <1>16 DEF vars, counters, sig
<1>17. ASSUME NEW ok \in BOOLEAN,
              \/ pre_execute_returns(ok) \/ execute_returns(ok) \/ post_execute_returns(ok)
              \/ checkpoint_returns(ok) \/ result_returns(ok)
       PROVE  IInv'
  BY <1>17, <1>9 DEF pre_execute_returns, execute_returns, post_execute_returns,
     checkpoint_returns, result_returns, AfterCheckpoint, Loop, Stages
<1>18. CASE rte_appmanager_reset_state
  <2>1. 0 \in 0..MaxCount
    BY ZeroCounts
  <2>2. stack' \in Seq([pc: {"failed_shutdown"}, config: Configs])
    BY <1>18, EmptySeq DEF rte_appmanager_reset_state
  <2> QED
    BY <1>18, <2>1, <2>2 DEF rte_appmanager_reset_state, AppStates, PC, Stages, Loop
<1>19. CASE flags_reset
  <2>1. ~(config.error_threshold > 0 /\ error_count' >= config.error_threshold)
    <3>1. error_count' = 0 /\ config \in Configs
      BY <1>19 DEF flags_reset, counters
    <3> QED
      BY <3>1, NoErrorsYet
  <2> QED
    BY <1>19, <2>1 DEF flags_reset, AppStates, PC, Operations, Stages, Loop, counters, sig
<1> QED
  BY <1>1, <1>2, <1>3, <1>5, <1>6, <1>7, <1>8, <1>10, <1>11, <1>12, <1>13, <1>14, <1>15,
     <1>16, <1>17, <1>18, <1>19 DEF Next, RunStep

\* The inductive invariant holds in every reachable state.
LEMMA Invariance == Spec => []IInv
  BY InitInv, StepInv, PTL DEF Spec

\* Every variable keeps its type: in particular every outer run that waits for
\* a nested one waits in the shutdown() of its failed init().
THEOREM TypeCorrect == Spec => []TypeOK
  BY Invariance, PTL DEF IInv

\* The setup phase is locked exactly while the loop of a run is in progress.
THEOREM LockedExactlyWhileRunning == Spec => []LockedWhileRunning
  BY Invariance, PTL DEF IInv

\* A checkpoint compares a signature that holds marks of its own cycle only.
THEOREM SignatureOfThisCycle == Spec => []SignatureIsThisCycle
<1>1. IInv => SignatureIsThisCycle
  BY DEF IInv, CycleMarks, SignatureIsThisCycle, Loop
<1> QED
  BY <1>1, Invariance, PTL

\* No cycle begins once the errors have reached the threshold.
THEOREM NoCycleAfterThresholdHolds == Spec => NoCycleAfterThreshold
<1>1. IInv /\ [Next]_vars =>
        [cycle_begins => config.error_threshold = 0 \/ error_count < config.error_threshold]_vars
  BY AppManagerAssumption, ConfigFacts
     DEF IInv, TypeOK, ThresholdAsks, cycle_begins, LoopContinues, Loop, Configured
<1> QED
  BY <1>1, Invariance, PTL DEF Spec, NoCycleAfterThreshold
==============================================================================
