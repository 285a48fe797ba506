------------------------------ MODULE Watchdog ------------------------------
(***************************************************************************)
(* The watchdog service (rte_watchdog.c): a fixed pool of watchdogs that   *)
(* the application creates, starts, kicks and stops, and a tick that       *)
(* something periodic calls to find the expired ones.  The tick may be     *)
(* called from the application's own loop or, as rte_watchdog.h allows,    *)
(* from a timer callback that interrupts the application: PREEMPT.  The    *)
(* reaction to an expired watchdog may be a callback of the application,   *)
(* which may itself call this service in the middle of the tick's scan.    *)
(*                                                                         *)
(* Time is kept relative to the present: a deadline is the time that is    *)
(* left, so only its sign and its distance matter and the clock can run    *)
(* for ever.                                                               *)
(***************************************************************************)
EXTENDS Integers, FiniteSets

CONSTANTS
  MAX_COUNT,     \* RTE_WATCHDOG_MAX_COUNT, 8U
  Timeouts,      \* the values of config.timeout_ms in use
  Actions,       \* the values of config.action in use
  MaxLag,        \* bound: how long the reactions of one tick may take
  PREEMPT        \* the tick may run between two stores of a call

AllActions == {"LOG", "SAFESTATE", "REBOOT", "FAILOVER", "CUSTOM"}

ASSUME WatchdogAssumption ==
  /\ MAX_COUNT \in Nat \ {0}
  /\ Timeouts \subseteq Nat \ {0}
  /\ \E t \in Timeouts : \A u \in Timeouts : u <= t    \* timeout_ms is a uint32_t
  /\ Actions \subseteq AllActions /\ Actions # {}
  /\ MaxLag \in Nat
  /\ PREEMPT \in BOOLEAN

VARIABLES
  pool,         \* g_watchdog_pool
  initialized,  \* g_manager_initialized
  locked,       \* g_setup_locked of rte_lifecycle.c
  call,         \* per level, the call in progress: by the application, or by a callback
  tick,         \* the scan in progress
  clock_ok,     \* the time base works
  halted,       \* the safe-state level that was entered and never returns
  quiet         \* history: time since the watchdog was last started or kicked

vars == <<pool, initialized, locked, call, tick, clock_ok, halted, quiet>>

Slot == 1..MAX_COUNT
MaxTimeout == CHOOSE t \in Timeouts : \A u \in Timeouts : u <= t
Left == (0 - MaxLag)..MaxTimeout
Levels == {"application", "callback"}

\* rte_watchdog_s; the diagnostic counters and the name are left out.
WatchdogSlot == [in_use: BOOLEAN, active: BOOLEAN, fired: BOOLEAN,
                 action: Actions, timeout_ms: Timeouts, left: Left]

Call == [op: {"none"}] \cup [op: {"start", "kick"}, slot: Slot]
Idle == [op |-> "none"]

\* next is the slot the scan looks at next, lag the time since it read the clock.
Tick == [at: {"idle", "scan", "reaction"}, next: 1..(MAX_COUNT + 1), lag: 0..MaxLag]
NoTick == [at |-> "idle", next |-> 1, lag |-> 0]

\* Every variable keeps its type; no deadline is further away than the longest
\* timeout (rte_watchdog_s).
TypeOK ==
  /\ pool \in [Slot -> WatchdogSlot]
  /\ initialized \in BOOLEAN /\ locked \in BOOLEAN /\ clock_ok \in BOOLEAN
  /\ call \in [Levels -> Call]
  /\ tick \in Tick
  /\ halted \in {"no", "SAFE", "REBOOT"}
  /\ quiet \in [Slot -> 0..MaxTimeout]

\* The zeroed slot; a zero deadline has passed as soon as anything compares it.
ZeroSlot(action, timeout) ==
  [in_use |-> FALSE, active |-> FALSE, fired |-> FALSE,
   action |-> action, timeout_ms |-> timeout, left |-> 0 - MaxLag]

ZeroPool == [s \in Slot |->
  ZeroSlot(CHOOSE a \in Actions : TRUE, CHOOSE t \in Timeouts : TRUE)]

Init ==
  /\ pool = ZeroPool /\ initialized = FALSE /\ locked = FALSE
  /\ call = [l \in Levels |-> Idle] /\ tick = NoTick /\ clock_ok = TRUE /\ halted = "no"
  /\ quiet = [s \in Slot |-> MaxTimeout]

is_supervising(w) == w.in_use /\ w.active /\ ~w.fired

\* Who executes: the application, unless a tick is running; then the
\* callback it has reached, if any.
Runs(level) ==
  /\ halted = "no"
  /\ \/ level = "application" /\ tick.at = "idle"
     \/ level = "callback" /\ tick.at = "reaction"

\* The level may begin a call.
Free(level) == Runs(level) /\ call[level] = Idle

\* rte_timer_now() returns RTE_STATUS_OK.
rte_timer_now == clock_ok

-----------------------------------------------------------------------------
(* Manager *)

rte_watchdog_manager_initialize(level) ==
  /\ Free(level)
  /\ ~initialized
  /\ initialized' = TRUE /\ pool' = ZeroPool
  /\ UNCHANGED <<locked, call, tick, halted, quiet, clock_ok>>

\* The slots stay allocated, so their handles stay valid.
rte_watchdog_manager_shutdown(level) ==
  /\ Free(level)
  /\ pool' = [s \in Slot |-> [pool[s] EXCEPT !.active = FALSE]]
  /\ initialized' = FALSE
  /\ UNCHANGED <<locked, call, tick, halted, quiet, clock_ok>>

-----------------------------------------------------------------------------
(* Calls on one watchdog.  A call with a handle that is not live, or one   *)
(* that is refused, returns a status and changes nothing.                  *)

\* The first free slot of the pool; refused while the setup phase is locked.
rte_watchdog_create(level, action, timeout) ==
  /\ Free(level)
  /\ initialized /\ ~locked
  /\ \E s \in Slot :
       /\ ~pool[s].in_use
       /\ \A r \in Slot : r < s => pool[r].in_use
       /\ pool' = [pool EXCEPT ![s] = [ZeroSlot(action, timeout) EXCEPT !.in_use = TRUE]]
  /\ UNCHANGED <<initialized, locked, call, tick, halted, quiet, clock_ok>>

\* rte_watchdog_start() up to the store of `fired': it arms, then computes
\* the deadline.  A failed clock read leaves the watchdog as it was.
start_arm(level, s) ==
  /\ Free(level)
  /\ pool[s].in_use
  /\ rte_timer_now
  /\ pool' = [pool EXCEPT ![s].active = TRUE, ![s].fired = FALSE]
  /\ call' = [call EXCEPT ![level] = [op |-> "start", slot |-> s]]
  /\ quiet' = [quiet EXCEPT ![s] = 0]
  /\ UNCHANGED <<initialized, locked, tick, halted, clock_ok>>

rte_watchdog_stop(level, s) ==
  /\ Free(level)
  /\ pool[s].in_use
  /\ pool' = [pool EXCEPT ![s].active = FALSE]
  /\ UNCHANGED <<initialized, locked, call, tick, halted, quiet, clock_ok>>

\* rte_watchdog_kick() up to the clock read: only a counting watchdog is kicked.
kick_check(level, s) ==
  /\ Free(level)
  /\ is_supervising(pool[s])
  /\ rte_timer_now
  /\ call' = [call EXCEPT ![level] = [op |-> "kick", slot |-> s]]
  /\ quiet' = [quiet EXCEPT ![s] = 0]
  /\ UNCHANGED <<pool, initialized, locked, tick, halted, clock_ok>>

\* Mutant: the timeout is added to the old deadline.
write_deadline_extends(level) ==
  /\ Runs(level)
  /\ call[level] # Idle
  /\ LET s == call[level].slot
     IN pool' = [pool EXCEPT ![s].left = @ + pool[s].timeout_ms]
  /\ call' = [call EXCEPT ![level] = Idle]
  /\ UNCHANGED <<initialized, locked, tick, halted, quiet, clock_ok>>

\* The store both calls end with.
write_deadline(level) ==
  /\ Runs(level)
  /\ call[level] # Idle
  /\ LET s == call[level].slot
     IN pool' = [pool EXCEPT ![s].left = pool[s].timeout_ms]
  /\ call' = [call EXCEPT ![level] = Idle]
  /\ UNCHANGED <<initialized, locked, tick, halted, quiet, clock_ok>>

rte_watchdog_destroy(level, s) ==
  /\ Free(level)
  /\ pool[s].in_use
  /\ pool' = [pool EXCEPT ![s].active = FALSE, ![s].in_use = FALSE]
  /\ UNCHANGED <<initialized, locked, call, tick, halted, quiet, clock_ok>>

-----------------------------------------------------------------------------
(* The tick *)

\* Mutant: a failed clock is ignored.
tick_begin_ignores_clock ==
  /\ halted = "no" /\ tick.at = "idle" /\ initialized
  /\ PREEMPT \/ call["application"] = Idle
  /\ tick' = IF rte_timer_now THEN [NoTick EXCEPT !.at = "scan"] ELSE NoTick
  /\ UNCHANGED <<pool, initialized, locked, call, halted, quiet, clock_ok>>

\* rte_watchdog_timer_tick() reads the clock; a failed clock while a watchdog
\* supervises is itself a reason to enter the SAFE state.
tick_begin ==
  /\ halted = "no" /\ tick.at = "idle" /\ initialized
  /\ PREEMPT \/ call["application"] = Idle
  /\ IF rte_timer_now
     THEN tick' = [NoTick EXCEPT !.at = "scan"] /\ UNCHANGED halted
     ELSE /\ halted' = IF \E s \in Slot : is_supervising(pool[s]) THEN "SAFE" ELSE "no"
          /\ UNCHANGED tick
  /\ UNCHANGED <<pool, initialized, locked, call, quiet, clock_ok>>

\* Mutant: one millisecond too early.
ExpiredEarly(w) == w.left + tick.lag <= 1

\* now_ms >= deadline_ms, now_ms being the clock the tick read.
Expired(w) == w.left + tick.lag <= 0

\* Mutant: the first expired watchdog ends the scan.
timeout_handler_stops_scan(s) ==
  /\ pool' = [pool EXCEPT ![s].fired = TRUE]
  /\ halted' = IF pool[s].action = "SAFESTATE" THEN "SAFE"
               ELSE IF pool[s].action = "REBOOT" THEN "REBOOT" ELSE "no"
  /\ tick' = [tick EXCEPT !.next = MAX_COUNT + 1,
       !.at = IF pool[s].action \in {"CUSTOM", "FAILOVER"} THEN "reaction" ELSE "scan"]

\* A watchdog fires once until it is started again.  SAFE and REBOOT never
\* return; CUSTOM and FAILOVER run the application's callback.
rte_watchdog_timeout_handler(s) ==
  /\ pool' = [pool EXCEPT ![s].fired = TRUE]
  /\ halted' = IF pool[s].action = "SAFESTATE" THEN "SAFE"
               ELSE IF pool[s].action = "REBOOT" THEN "REBOOT" ELSE "no"
  /\ tick' = [tick EXCEPT !.next = s + 1,
       !.at = IF pool[s].action \in {"CUSTOM", "FAILOVER"} THEN "reaction" ELSE "scan"]

tick_scan ==
  /\ halted = "no" /\ tick.at = "scan" /\ tick.next \in Slot
  /\ LET s == tick.next
     IN IF is_supervising(pool[s]) /\ Expired(pool[s])
        THEN rte_watchdog_timeout_handler(s)
        ELSE tick' = [tick EXCEPT !.next = s + 1] /\ UNCHANGED <<pool, halted>>
  /\ UNCHANGED <<initialized, locked, call, quiet, clock_ok>>

\* custom_action() returns.
reaction_return ==
  /\ Free("callback")
  /\ tick' = [tick EXCEPT !.at = "scan"]
  /\ UNCHANGED <<pool, initialized, locked, call, halted, quiet, clock_ok>>

tick_end ==
  /\ halted = "no" /\ tick.at = "scan" /\ tick.next = MAX_COUNT + 1
  /\ tick' = NoTick
  /\ UNCHANGED <<pool, initialized, locked, call, halted, quiet, clock_ok>>

-----------------------------------------------------------------------------
(* The surroundings *)

\* The application manager locks the setup phase and unlocks it.
setup_phase_changes ==
  /\ Free("application")
  /\ locked' = ~locked
  /\ UNCHANGED <<pool, initialized, call, tick, halted, quiet, clock_ok>>

\* The time base fails or works again.
ClockChange ==
  /\ halted = "no"
  /\ clock_ok' = ~clock_ok
  /\ UNCHANGED <<pool, initialized, locked, call, tick, halted, quiet>>

\* A millisecond passes: between calls, or while a callback runs.  A call
\* stores a deadline within the millisecond in which it read the clock.
Elapse ==
  /\ \/ Free("application")
     \/ Free("callback") /\ tick.lag < MaxLag /\ call["application"] = Idle
  /\ pool' = [s \in Slot |->
       [pool[s] EXCEPT !.left = IF @ > 0 - MaxLag THEN @ - 1 ELSE @]]
  /\ quiet' = [s \in Slot |-> IF quiet[s] < MaxTimeout THEN quiet[s] + 1 ELSE quiet[s]]
  /\ tick' = IF tick.at = "idle" THEN tick ELSE [tick EXCEPT !.lag = @ + 1]
  /\ UNCHANGED <<initialized, locked, call, halted, clock_ok>>

Next ==
  \/ \E level \in Levels :
       \/ rte_watchdog_manager_initialize(level)
       \/ rte_watchdog_manager_shutdown(level)
       \/ \E action \in Actions, timeout \in Timeouts :
            rte_watchdog_create(level, action, timeout)
       \/ \E s \in Slot : \/ start_arm(level, s)
                          \/ rte_watchdog_stop(level, s)
                          \/ kick_check(level, s)
                          \/ rte_watchdog_destroy(level, s)
       \/ write_deadline(level)
  \/ tick_begin
  \/ tick_scan
  \/ reaction_return
  \/ tick_end
  \/ setup_phase_changes
  \/ ClockChange
  \/ Elapse

Spec == Init /\ [][Next]_vars

\* The integrator calls the tick periodically, however busy the application
\* is; a callback runs for a bounded time; a scan runs to its end, and so does
\* a call, however often the tick interrupts it.
Fairness ==
  /\ SF_vars(tick_begin)
  /\ SF_vars(reaction_return)
  /\ SF_vars(Elapse)
  /\ WF_vars(tick_scan) /\ WF_vars(tick_end)
  /\ \A level \in Levels : SF_vars(write_deadline(level))

LiveSpec == Spec /\ Fairness

-----------------------------------------------------------------------------
(* Properties *)

\* When a tick's scan ends, every watchdog that still counts has time left as
\* of the clock the tick read: the reaction to one expired watchdog, whatever
\* it calls, hides no other (rte_watchdog_timer_tick).
TickMissesNone ==
  [][tick_end => \A s \in Slot : is_supervising(pool[s]) => ~Expired(pool[s])]_vars

\* The tick interrupted a call of the application on the watchdog s, between
\* its test or its first stores and the store of the deadline.
Interrupted(s) == call["application"] # Idle /\ call["application"].slot = s

\* A watchdog fires only after its whole timeout has passed since it was last
\* started or kicked (rte_watchdog_start: "Countdown begins from timeout_ms").
\* The one exception is a tick that interrupts a start or a kick of that very
\* watchdog and finds the deadline it had before; no other watchdog is hit.
FiresOnlyWhenQuiet ==
  [][\A s \in Slot : ~pool[s].fired /\ pool'[s].fired =>
       quiet[s] >= pool[s].timeout_ms \/ Interrupted(s)]_vars

\* A call that moves the deadline of the watchdog s.
Rearms(s) == \E level \in Levels : write_deadline(level) /\ call[level].slot = s

\* A watchdog cannot stay armed and silent for ever while the manager is up:
\* either it is kicked or started again and again, or it fires, or the system
\* is halted, also when the clock fails (rte_watchdog_timer_tick).
ArmedReacts ==
  \A s \in Slot :
    <>[](is_supervising(pool[s]) /\ initialized /\ halted = "no")
      => []<><<Rearms(s)>>_vars
=============================================================================
