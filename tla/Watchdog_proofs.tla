--------------------------- MODULE Watchdog_proofs ---------------------------
(***************************************************************************)
(* Proofs about Watchdog, for any pool, any set of timeouts and actions,   *)
(* with the tick called from the loop or interrupting it.                  *)
(*                                                                         *)
(* What the two action properties say of one step rests on what is true    *)
(* all along: a slot the scan has passed counts on or is in the middle of  *)
(* being started again, and the time left to a watchdog is never less than *)
(* its timeout minus the time it has been quiet, except while a start or a *)
(* kick of it has not stored its deadline yet.                             *)
(***************************************************************************)
EXTENDS Watchdog, TLAPS

\* The call of that level is on the watchdog s.
CallOn(level, s) == call[level] # Idle /\ call[level].slot = s

\* A callback has returned before the scan goes on.
CallbackOnlyInReaction == tick.at # "reaction" => call["callback"] = Idle

\* No time passes between the clock read of a call and its store.
NoTimeInCall ==
  \A level \in Levels : call[level] # Idle => quiet[call[level].slot] = 0

\* The slots the scan has passed, by the clock the tick read.
ScannedCountOn ==
  tick.at # "idle" =>
    \A s \in Slot : s < tick.next /\ is_supervising(pool[s]) =>
      pool[s].left + tick.lag > 0 \/ CallOn("callback", s)

\* The deadline is no earlier than the last start or kick allows.
DeadlineIsDue ==
  \A s \in Slot :
    is_supervising(pool[s]) /\ ~CallOn("application", s) /\ ~CallOn("callback", s) =>
      quiet[s] >= pool[s].timeout_ms \/ quiet[s] + pool[s].left >= pool[s].timeout_ms

\* The inductive invariant.
IInv ==
  /\ TypeOK /\ CallbackOnlyInReaction /\ NoTimeInCall /\ ScannedCountOn /\ DeadlineIsDue

-----------------------------------------------------------------------------
(* The constants *)

\* The longest timeout is there and is the longest.
LEMMA MaxTimeoutFacts ==
  /\ MaxTimeout \in Timeouts /\ MaxTimeout \in Nat
  /\ \A t \in Timeouts : t \in Nat /\ t >= 1 /\ t <= MaxTimeout
<1>1. \E t \in Timeouts : \A u \in Timeouts : u <= t
  BY WatchdogAssumption
<1>2. MaxTimeout \in Timeouts /\ \A u \in Timeouts : u <= MaxTimeout
  BY <1>1 DEF MaxTimeout
<1> QED
  BY <1>2, WatchdogAssumption

\* A call in progress is on a slot of the pool.
LEMMA CallFacts ==
  ASSUME NEW c \in Call, c # Idle
  PROVE  c.slot \in Slot
  BY DEF Call, Idle

\* The zeroed pool.
LEMMA ZeroFacts ==
  ASSUME NEW a \in Actions, NEW t \in Timeouts
  PROVE  ZeroSlot(a, t) \in WatchdogSlot /\ ZeroSlot(a, t).active = FALSE
<1>1. 0 - MaxLag \in Left
  BY MaxTimeoutFacts, WatchdogAssumption DEF Left
<1> QED
  BY <1>1 DEF ZeroSlot, WatchdogSlot

\* Every slot of the zeroed pool is free and does not count.
LEMMA ZeroPoolFacts ==
  ZeroPool \in [Slot -> WatchdogSlot] /\ \A s \in Slot : ZeroPool[s].active = FALSE
<1>1. (CHOOSE a \in Actions : TRUE) \in Actions /\ (CHOOSE t \in Timeouts : TRUE) \in Timeouts
  BY WatchdogAssumption, MaxTimeoutFacts
<1> DEFINE zero == ZeroSlot(CHOOSE a \in Actions : TRUE, CHOOSE t \in Timeouts : TRUE)
<1>2. zero \in WatchdogSlot /\ zero.active = FALSE
  BY <1>1, ZeroFacts
<1>3. ZeroPool = [s \in Slot |-> zero]
  BY DEF ZeroPool
<1> HIDE DEF zero
<1> QED
  BY <1>2, <1>3

\* The fields of a slot.
LEMMA SlotFacts ==
  ASSUME NEW w \in WatchdogSlot
  PROVE  /\ w.left \in Int /\ w.left >= 0 - MaxLag /\ w.left <= MaxTimeout
         /\ w.timeout_ms \in Timeouts /\ w.timeout_ms \in Nat /\ w.timeout_ms >= 1
         /\ w.timeout_ms <= MaxTimeout /\ w.action \in Actions
         /\ MaxLag \in Nat /\ MaxTimeout \in Nat
<1>1. w.left \in Left /\ w.timeout_ms \in Timeouts /\ w.action \in Actions
  BY DEF WatchdogSlot
<1>2. MaxLag \in Nat /\ MaxTimeout \in Nat
  BY MaxTimeoutFacts, WatchdogAssumption
<1>3. w.left \in Int /\ w.left >= 0 - MaxLag /\ w.left <= MaxTimeout
  BY <1>1, <1>2 DEF Left
<1> QED
  BY <1>1, <1>2, <1>3, MaxTimeoutFacts

-----------------------------------------------------------------------------
(* The steps *)

\* The process starts with nothing armed.
LEMMA InitInv == Init => IInv
<1> SUFFICES ASSUME Init PROVE IInv
  OBVIOUS
<1>1. ZeroPool \in [Slot -> WatchdogSlot] /\ \A s \in Slot : ZeroPool[s].active = FALSE
  BY ZeroPoolFacts
<1>2. \A level \in Levels : call[level] = Idle
  BY DEF Init
<1>3. TypeOK
  <2>1. call \in [Levels -> Call]
    BY DEF Init, Call, Idle
  <2>2. tick \in Tick
    BY WatchdogAssumption DEF Init, NoTick, Tick
  <2>3. quiet \in [Slot -> 0..MaxTimeout]
    BY MaxTimeoutFacts DEF Init
  <2> QED
    BY <1>1, <2>1, <2>2, <2>3 DEF Init, TypeOK
<1>4. tick.at = "idle" /\ \A s \in Slot : ~is_supervising(pool[s])
  BY <1>1 DEF Init, NoTick, is_supervising
<1> QED
  BY <1>2, <1>3, <1>4 DEF IInv, CallbackOnlyInReaction, NoTimeInCall, ScannedCountOn,
     DeadlineIsDue, Levels

\* A step that leaves every watchdog as it was or no longer active.
LEMMA DisarmInv ==
  ASSUME IInv, TypeOK', UNCHANGED <<call, tick, quiet>>,
         \A s \in Slot : pool'[s] = pool[s] \/ pool'[s].active = FALSE
  PROVE  IInv'
<1>1. \A s \in Slot : is_supervising(pool[s])' => pool'[s] = pool[s] /\ is_supervising(pool[s])
  BY DEF is_supervising
<1>2. CallbackOnlyInReaction' /\ NoTimeInCall'
  BY DEF IInv, CallbackOnlyInReaction, NoTimeInCall
<1>3. ScannedCountOn'
  BY <1>1 DEF IInv, ScannedCountOn, CallOn
<1>4. DeadlineIsDue'
  BY <1>1 DEF IInv, DeadlineIsDue, CallOn
<1> QED
  BY <1>2, <1>3, <1>4 DEF IInv

\* The first half of a start or a kick of the watchdog s.
LEMMA BeginCallInv ==
  ASSUME IInv, TypeOK', NEW level \in Levels, NEW s \in Slot, Free(level),
         \A r \in Slot \ {s} : pool'[r] = pool[r],
         call' = [call EXCEPT ![level] = call'[level]],
         call'[level] # Idle, call'[level].slot = s,
         quiet' = [quiet EXCEPT ![s] = 0], UNCHANGED tick
  PROVE  IInv'
<1> USE DEF IInv
<1>0. /\ call[level] = Idle /\ \A l \in Levels \ {level} : call'[l] = call[l]
      /\ quiet'[s] = 0 /\ \A r \in Slot \ {s} : quiet'[r] = quiet[r]
      /\ tick.at = IF level = "application" THEN "idle" ELSE "reaction"
      /\ Levels = {"application", "callback"}
  BY DEF Free, Runs, TypeOK, Levels
<1>1. CallbackOnlyInReaction'
  BY <1>0 DEF CallbackOnlyInReaction
<1>2. NoTimeInCall'
  <2> SUFFICES ASSUME NEW l \in Levels, call'[l] # Idle PROVE quiet'[call'[l].slot] = 0
    BY DEF NoTimeInCall
  <2>1. CASE l = level
    BY <1>0, <2>1
  <2>2. CASE l # level
    <3>1. call[l] \in Call /\ call'[l] = call[l] /\ call[l] # Idle
      BY <1>0, <2>2 DEF TypeOK
    <3>2. call[l].slot \in Slot /\ quiet[call[l].slot] = 0
      BY <3>1, CallFacts DEF NoTimeInCall
    <3> QED
      BY <1>0, <3>1, <3>2
  <2> QED
    BY <2>1, <2>2
<1>3. \A r \in Slot \ {s}, l \in Levels : CallOn(l, r)' <=> CallOn(l, r)
  BY <1>0 DEF CallOn
<1>4. CallOn(level, s)'
  BY DEF CallOn
<1>5. ScannedCountOn'
  BY <1>0, <1>3, <1>4 DEF ScannedCountOn, is_supervising
<1>6. DeadlineIsDue'
  BY <1>0, <1>3, <1>4 DEF DeadlineIsDue, is_supervising
<1> QED
  BY <1>1, <1>2, <1>5, <1>6

\* The second half.
LEMMA WriteDeadlineInv ==
  ASSUME IInv, NEW level \in Levels, write_deadline(level)
  PROVE  IInv'
<1> USE DEF IInv
<1> DEFINE s == call[level].slot
<1>0. /\ s \in Slot /\ call[level] # Idle /\ quiet[s] = 0 /\ Levels = {"application", "callback"}
      /\ UNCHANGED <<initialized, locked, tick, halted, quiet, clock_ok>>
  BY CallFacts DEF write_deadline, TypeOK, NoTimeInCall, Levels
<1>1. pool[s] \in WatchdogSlot
  BY <1>0 DEF TypeOK
<1>2. /\ pool' = [pool EXCEPT ![s] = [pool[s] EXCEPT !.left = pool[s].timeout_ms]]
      /\ call' = [call EXCEPT ![level] = Idle]
  BY DEF write_deadline
<1>3. /\ pool[s].timeout_ms \in Left /\ pool[s].timeout_ms \in Nat /\ pool[s].timeout_ms >= 1
  BY <1>1, SlotFacts DEF Left
<1>4. /\ pool'[s] \in WatchdogSlot /\ pool'[s].left = pool[s].timeout_ms
      /\ pool'[s].timeout_ms = pool[s].timeout_ms
      /\ \A r \in Slot \ {s} : pool'[r] = pool[r]
      /\ pool' \in [Slot -> WatchdogSlot]
  BY <1>0, <1>1, <1>2, <1>3 DEF TypeOK, WatchdogSlot
<1>5. TypeOK'
  <2>1. call' \in [Levels -> Call]
    BY <1>2 DEF TypeOK, Call, Idle
  <2> QED
    BY <1>0, <1>4, <2>1 DEF TypeOK
<1>6. call'[level] = Idle /\ \A l \in Levels \ {level} : call'[l] = call[l]
  BY <1>2 DEF TypeOK
<1>7. CallbackOnlyInReaction' /\ NoTimeInCall'
  BY <1>0, <1>6 DEF CallbackOnlyInReaction, NoTimeInCall
<1>8. \A r \in Slot \ {s}, l \in Levels : CallOn(l, r)' <=> CallOn(l, r)
  BY <1>0, <1>6 DEF CallOn
<1>9. ScannedCountOn'
  <2>1. tick.lag \in Nat
    BY WatchdogAssumption DEF TypeOK, Tick
  <2>2. pool'[s].left + tick.lag > 0
    BY <1>3, <1>4, <2>1
  <2> HIDE DEF s
  <2> QED
    BY <1>0, <1>4, <1>8, <2>2 DEF ScannedCountOn, is_supervising
<1>10. DeadlineIsDue'
  <2>1. quiet[s] + pool'[s].left >= pool'[s].timeout_ms
    BY <1>0, <1>3, <1>4
  <2> HIDE DEF s
  <2> QED
    BY <1>0, <1>4, <1>8, <2>1 DEF DeadlineIsDue, is_supervising
<1> QED
  BY <1>5, <1>7, <1>9, <1>10

\* The calls of the application and of a callback.
LEMMA CallInv ==
  ASSUME IInv, NEW level \in Levels,
         \/ rte_watchdog_manager_initialize(level)
         \/ rte_watchdog_manager_shutdown(level)
         \/ \E action \in Actions, timeout \in Timeouts :
              rte_watchdog_create(level, action, timeout)
         \/ \E s \in Slot : \/ start_arm(level, s)
                            \/ rte_watchdog_stop(level, s)
                            \/ kick_check(level, s)
                            \/ rte_watchdog_destroy(level, s)
  PROVE  IInv'
<1>0. TypeOK /\ pool \in [Slot -> WatchdogSlot]
  BY DEF IInv, TypeOK
<1>1. ASSUME rte_watchdog_manager_initialize(level) PROVE IInv'
  <2>1. TypeOK'
    BY <1>0, <1>1, ZeroPoolFacts DEF TypeOK, rte_watchdog_manager_initialize
  <2> QED
    BY <1>1, <2>1, ZeroPoolFacts, DisarmInv DEF rte_watchdog_manager_initialize
<1>2. ASSUME rte_watchdog_manager_shutdown(level) PROVE IInv'
  <2>1. pool' \in [Slot -> WatchdogSlot] /\ \A s \in Slot : pool'[s].active = FALSE
    BY <1>0, <1>2 DEF rte_watchdog_manager_shutdown, WatchdogSlot
  <2>2. TypeOK'
    BY <1>0, <1>2, <2>1 DEF TypeOK, rte_watchdog_manager_shutdown
  <2> QED
    BY <1>2, <2>1, <2>2, DisarmInv DEF rte_watchdog_manager_shutdown
<1>3. ASSUME NEW action \in Actions, NEW timeout \in Timeouts,
             rte_watchdog_create(level, action, timeout)
      PROVE  IInv'
  <2>1. PICK s \in Slot :
          pool' = [pool EXCEPT ![s] = [ZeroSlot(action, timeout) EXCEPT !.in_use = TRUE]]
    BY <1>3 DEF rte_watchdog_create
  <2> DEFINE w == [ZeroSlot(action, timeout) EXCEPT !.in_use = TRUE]
  <2>2. w \in WatchdogSlot /\ w.active = FALSE
    <3>1. ZeroSlot(action, timeout) \in WatchdogSlot /\ ZeroSlot(action, timeout).active = FALSE
      BY ZeroFacts
    <3> QED
      BY <3>1 DEF WatchdogSlot
  <2> HIDE DEF w
  <2>3. /\ pool' \in [Slot -> WatchdogSlot]
        /\ \A r \in Slot : pool'[r] = pool[r] \/ pool'[r].active = FALSE
    BY <1>0, <2>1, <2>2 DEF w
  <2>4. TypeOK'
    BY <1>0, <1>3, <2>3 DEF TypeOK, rte_watchdog_create
  <2> QED
    BY <1>3, <2>3, <2>4, DisarmInv DEF rte_watchdog_create
<1>4. ASSUME NEW s \in Slot, rte_watchdog_stop(level, s) \/ rte_watchdog_destroy(level, s)
      PROVE  IInv'
  <2>1. /\ pool' \in [Slot -> WatchdogSlot]
        /\ \A r \in Slot : pool'[r] = pool[r] \/ pool'[r].active = FALSE
    <3>1. CASE pool' = [pool EXCEPT ![s] = [pool[s] EXCEPT !.active = FALSE]]
      BY <1>0, <3>1 DEF WatchdogSlot
    <3>2. CASE pool' = [pool EXCEPT ![s] = [pool[s] EXCEPT !.active = FALSE, !.in_use = FALSE]]
      BY <1>0, <3>2 DEF WatchdogSlot
    <3> QED
      BY <1>4, <3>1, <3>2 DEF rte_watchdog_stop, rte_watchdog_destroy
  <2>2. UNCHANGED <<call, tick, quiet, locked, halted, clock_ok, initialized>>
    BY <1>4 DEF rte_watchdog_stop, rte_watchdog_destroy
  <2>3. TypeOK'
    BY <1>0, <2>1, <2>2 DEF TypeOK
  <2> QED
    BY <2>1, <2>2, <2>3, DisarmInv
<1>5. ASSUME NEW s \in Slot, NEW op \in {"start", "kick"}, Free(level),
             pool' \in [Slot -> WatchdogSlot], \A r \in Slot \ {s} : pool'[r] = pool[r],
             call' = [call EXCEPT ![level] = [op |-> op, slot |-> s]],
             quiet' = [quiet EXCEPT ![s] = 0],
             UNCHANGED <<initialized, locked, tick, halted, clock_ok>>
      PROVE  IInv'
  <2> DEFINE c == [op |-> op, slot |-> s]
  <2>1. c \in Call /\ c # Idle /\ c.slot = s
    BY <1>5 DEF Call, Idle
  <2> HIDE DEF c
  <2>2. call'[level] = c /\ call' \in [Levels -> Call]
    BY <1>0, <1>5, <2>1 DEF TypeOK, c
  <2>3. TypeOK'
    BY <1>0, <1>5, <2>2, MaxTimeoutFacts DEF TypeOK
  <2> QED
    BY <1>5, <2>1, <2>2, <2>3, BeginCallInv DEF c
<1>6. ASSUME NEW s \in Slot, start_arm(level, s) PROVE IInv'
  <2>1. pool' \in [Slot -> WatchdogSlot] /\ \A r \in Slot \ {s} : pool'[r] = pool[r]
    BY <1>0, <1>6 DEF start_arm, WatchdogSlot
  <2> QED
    BY <1>5, <1>6, <2>1 DEF start_arm
<1>7. ASSUME NEW s \in Slot, kick_check(level, s) PROVE IInv'
  BY <1>0, <1>5, <1>7 DEF kick_check
<1> QED
  BY <1>1, <1>2, <1>3, <1>4, <1>6, <1>7

\* rte_watchdog_timer_tick().
LEMMA TickInv ==
  ASSUME IInv, tick_begin \/ tick_scan \/ reaction_return \/ tick_end
  PROVE  IInv'
<1> USE DEF IInv
<1>0. TypeOK /\ pool \in [Slot -> WatchdogSlot] /\ tick \in Tick /\ MAX_COUNT \in Nat \ {0}
      /\ Slot = 1..MAX_COUNT /\ tick.next \in Nat /\ tick.lag \in 0..MaxLag /\ MaxLag \in Nat
  BY WatchdogAssumption DEF TypeOK, Tick, Slot
<1>1. ASSUME tick_begin PROVE IInv'
  <2>1. UNCHANGED <<pool, initialized, locked, call, quiet, clock_ok>> /\ tick.at = "idle"
    BY <1>1 DEF tick_begin
  <2>2. CASE UNCHANGED tick
    <3>1. TypeOK'
      BY <1>1, <2>1, <2>2 DEF tick_begin, TypeOK
    <3> QED
      BY <2>1, <2>2, <3>1, DisarmInv
  <2>3. CASE tick' = [NoTick EXCEPT !.at = "scan"] /\ UNCHANGED halted
    <3>1. tick' \in Tick /\ tick'.at = "scan" /\ tick'.next = 1
      BY <1>0, <2>3 DEF NoTick, Tick
    <3>2. TypeOK'
      BY <2>1, <2>3, <3>1 DEF TypeOK
    <3>3. \A s \in Slot : ~(s < tick'.next)
      BY <1>0, <3>1
    <3> QED
      BY <2>1, <3>1, <3>2, <3>3 DEF CallbackOnlyInReaction, NoTimeInCall, ScannedCountOn,
         DeadlineIsDue, is_supervising, CallOn
  <2> QED
    BY <1>1, <2>2, <2>3 DEF tick_begin
<1>2. ASSUME tick_scan PROVE IInv'
  <2> DEFINE s == tick.next
  <2>0. /\ UNCHANGED <<initialized, locked, call, quiet, clock_ok>>
        /\ tick.at = "scan" /\ s \in Slot /\ call["callback"] = Idle
    BY <1>2 DEF tick_scan, CallbackOnlyInReaction
  <2> DEFINE fires == is_supervising(pool[s]) /\ Expired(pool[s])
  <2>2. /\ tick' \in Tick /\ tick'.next = s + 1 /\ tick'.lag = tick.lag /\ tick'.at # "idle"
    <3>1. PICK reached \in {"reaction", "scan"} :
            \/ tick' = [tick EXCEPT !.next = s + 1, !.at = reached]
            \/ tick' = [tick EXCEPT !.next = s + 1]
      BY <1>2 DEF tick_scan, rte_watchdog_timeout_handler
    <3>2. s + 1 \in 1..(MAX_COUNT + 1)
      BY <1>0, <2>0
    <3> QED
      BY <1>0, <2>0, <3>1, <3>2 DEF Tick
  <2>3. /\ pool' \in [Slot -> WatchdogSlot] /\ \A r \in Slot \ {s} : pool'[r] = pool[r]
        /\ halted' \in {"no", "SAFE", "REBOOT"}
        /\ is_supervising(pool'[s]) => pool'[s] = pool[s] /\ pool[s].left + tick.lag > 0
    <3>1. CASE fires
      <4>1. /\ pool' = [pool EXCEPT ![s] = [pool[s] EXCEPT !.fired = TRUE]]
            /\ halted' \in {"no", "SAFE", "REBOOT"}
        BY <1>2, <3>1 DEF tick_scan, rte_watchdog_timeout_handler
      <4> QED
        BY <1>0, <2>0, <4>1 DEF WatchdogSlot, is_supervising
    <3>2. CASE ~fires
      <4>1. UNCHANGED <<pool, halted>>
        BY <1>2, <3>2 DEF tick_scan
      <4>2. pool[s].left \in Int /\ tick.lag \in Int
        BY <1>0, <2>0, SlotFacts
      <4> QED
        BY <1>0, <3>2, <4>1, <4>2 DEF Expired, TypeOK
    <3> QED
      BY <3>1, <3>2
  <2>4. TypeOK'
    BY <2>0, <2>2, <2>3 DEF TypeOK
  <2>5. ScannedCountOn'
    <3> HIDE DEF s
    <3>1. ASSUME NEW r \in Slot, r < tick'.next, is_supervising(pool'[r])
          PROVE  pool'[r].left + tick'.lag > 0
      <4>1. CASE r = s
        BY <2>2, <2>3, <3>1, <4>1
      <4>2. CASE r # s
        <5>1. r < s
          BY <1>0, <2>0, <2>2, <3>1, <4>2 DEF s
        <5>2. pool'[r] = pool[r] /\ is_supervising(pool[r])
          BY <2>3, <3>1, <4>2
        <5>3. pool[r].left + tick.lag > 0
          BY <2>0, <5>1, <5>2 DEF ScannedCountOn, CallOn, s
        <5> QED
          BY <2>2, <5>2, <5>3
      <4> QED
        BY <4>1, <4>2
    <3> QED
      BY <3>1 DEF ScannedCountOn
  <2>6. DeadlineIsDue'
    <3> HIDE DEF s
    <3>1. \A r \in Slot : is_supervising(pool'[r]) => pool'[r] = pool[r]
      BY <2>3
    <3> QED
      BY <2>0, <3>1 DEF DeadlineIsDue, CallOn
  <2>7. CallbackOnlyInReaction' /\ NoTimeInCall'
    BY <2>0 DEF CallbackOnlyInReaction, NoTimeInCall
  <2> QED
    BY <2>4, <2>5, <2>6, <2>7
<1>3. ASSUME reaction_return PROVE IInv'
  <2>1. /\ UNCHANGED <<pool, initialized, locked, call, halted, quiet, clock_ok>>
        /\ call["callback"] = Idle /\ tick.at = "reaction"
    BY <1>3 DEF reaction_return, Free, Runs
  <2>2. tick' \in Tick /\ tick'.at = "scan" /\ tick'.next = tick.next /\ tick'.lag = tick.lag
    BY <1>0, <1>3 DEF reaction_return, Tick
  <2>3. TypeOK'
    BY <2>1, <2>2 DEF TypeOK
  <2> QED
    BY <2>1, <2>2, <2>3 DEF CallbackOnlyInReaction, NoTimeInCall, ScannedCountOn,
       DeadlineIsDue, is_supervising, CallOn
<1>4. ASSUME tick_end PROVE IInv'
  <2>1. /\ UNCHANGED <<pool, initialized, locked, call, halted, quiet, clock_ok>>
        /\ call["callback"] = Idle
    BY <1>4 DEF tick_end, CallbackOnlyInReaction
  <2>2. tick' \in Tick /\ tick'.at = "idle"
    BY <1>0, <1>4 DEF tick_end, NoTick, Tick
  <2>3. TypeOK'
    BY <2>1, <2>2 DEF TypeOK
  <2> QED
    BY <2>1, <2>2, <2>3 DEF CallbackOnlyInReaction, NoTimeInCall, ScannedCountOn,
       DeadlineIsDue, is_supervising, CallOn
<1> QED
  BY <1>1, <1>2, <1>3, <1>4

\* A millisecond: the scanned slots lose what the lag gains, and a watchdog
\* has been quiet for longer by what its deadline came nearer.
LEMMA ElapseInv ==
  ASSUME IInv, Elapse
  PROVE  IInv'
<1> USE DEF IInv
<1>0. /\ pool \in [Slot -> WatchdogSlot] /\ quiet \in [Slot -> 0..MaxTimeout]
      /\ tick \in Tick /\ tick.lag \in Nat /\ tick.lag <= MaxLag
      /\ MaxLag \in Nat /\ MaxTimeout \in Nat
  BY WatchdogAssumption, MaxTimeoutFacts DEF TypeOK, Tick
<1>1. /\ \A level \in Levels : call[level] = Idle
      /\ tick.at # "idle" => tick.lag < MaxLag
  BY DEF Elapse, Free, Runs, CallbackOnlyInReaction, Levels
<1>2. UNCHANGED <<initialized, locked, call, halted, clock_ok>>
  BY DEF Elapse
<1>3. ASSUME NEW s \in Slot
      PROVE  /\ pool'[s] \in WatchdogSlot
             /\ is_supervising(pool'[s]) => is_supervising(pool[s])
             /\ pool'[s].timeout_ms = pool[s].timeout_ms
             /\ pool'[s].left = IF pool[s].left > 0 - MaxLag THEN pool[s].left - 1
                                ELSE pool[s].left
             /\ quiet'[s] = IF quiet[s] < MaxTimeout THEN quiet[s] + 1 ELSE quiet[s]
  <2> DEFINE left == IF pool[s].left > 0 - MaxLag THEN pool[s].left - 1 ELSE pool[s].left
  <2>1. pool[s] \in WatchdogSlot /\ left \in Left
    BY <1>0, SlotFacts DEF Left
  <2>2. pool'[s] = [pool[s] EXCEPT !.left = left]
    BY DEF Elapse
  <2>3. quiet'[s] = IF quiet[s] < MaxTimeout THEN quiet[s] + 1 ELSE quiet[s]
    BY DEF Elapse
  <2> HIDE DEF left
  <2>4. /\ pool'[s] \in WatchdogSlot /\ pool'[s].left = left
        /\ is_supervising(pool'[s]) => is_supervising(pool[s])
        /\ pool'[s].timeout_ms = pool[s].timeout_ms
    BY <2>1, <2>2 DEF WatchdogSlot, is_supervising
  <2> QED
    BY <2>3, <2>4 DEF left
<1>4. /\ tick' \in Tick /\ tick'.at = tick.at /\ tick'.next = tick.next
      /\ tick.at # "idle" => tick'.lag = tick.lag + 1
  <2>1. CASE tick.at = "idle"
    BY <1>0, <2>1 DEF Elapse
  <2>2. CASE tick.at # "idle"
    <3>1. tick' = [tick EXCEPT !.lag = tick.lag + 1] /\ tick.lag + 1 \in 0..MaxLag
      BY <1>0, <1>1, <2>2 DEF Elapse
    <3> QED
      BY <1>0, <3>1 DEF Tick
  <2> QED
    BY <2>1, <2>2
<1>5. TypeOK'
  <2>1. pool' \in [Slot -> WatchdogSlot]
    <3>1. pool' = [s \in Slot |-> pool'[s]]
      BY DEF Elapse
    <3> QED
      BY <1>3, <3>1
  <2>2. quiet' \in [Slot -> 0..MaxTimeout]
    <3>1. quiet' = [s \in Slot |-> quiet'[s]]
      BY DEF Elapse
    <3>2. \A s \in Slot : quiet'[s] \in 0..MaxTimeout
      BY <1>0, <1>3
    <3> QED
      BY <3>1, <3>2
  <2> QED
    BY <1>2, <1>4, <2>1, <2>2 DEF TypeOK
<1>6. CallbackOnlyInReaction' /\ NoTimeInCall'
  BY <1>1, <1>2 DEF CallbackOnlyInReaction, NoTimeInCall, Levels
<1>7. ScannedCountOn'
  <2>1. ASSUME tick'.at # "idle", NEW s \in Slot, s < tick'.next, is_supervising(pool'[s])
        PROVE  pool'[s].left + tick'.lag > 0
    <3>1. pool[s].left + tick.lag > 0
      BY <1>1, <1>3, <1>4, <2>1 DEF ScannedCountOn, CallOn, Levels
    <3>2. pool[s].left \in Int
      BY <1>0, SlotFacts
    <3> QED
      BY <1>0, <1>1, <1>3, <1>4, <2>1, <3>1, <3>2
  <2> QED
    BY <2>1 DEF ScannedCountOn
<1>8. DeadlineIsDue'
  <2>1. ASSUME NEW s \in Slot, is_supervising(pool'[s])
        PROVE  \/ quiet'[s] >= pool'[s].timeout_ms
               \/ quiet'[s] + pool'[s].left >= pool'[s].timeout_ms
    <3>1. quiet[s] >= pool[s].timeout_ms \/ quiet[s] + pool[s].left >= pool[s].timeout_ms
      BY <1>1, <1>3, <2>1 DEF DeadlineIsDue, CallOn, Levels
    <3>2. /\ pool[s].left \in Int /\ quiet[s] \in Nat
          /\ pool[s].timeout_ms \in Nat /\ pool[s].timeout_ms <= MaxTimeout
      BY <1>0, SlotFacts
    <3> QED
      BY <1>0, <1>3, <3>1, <3>2
  <2> QED
    BY <2>1 DEF DeadlineIsDue
<1> QED
  BY <1>5, <1>6, <1>7, <1>8

\* Every step.
LEMMA StepInv == IInv /\ [Next]_vars => IInv'
<1> SUFFICES ASSUME IInv, [Next]_vars PROVE IInv'
  OBVIOUS
<1>1. CASE UNCHANGED vars
  <2>1. TypeOK'
    BY <1>1 DEF vars, IInv, TypeOK
  <2> QED
    BY <1>1, <2>1, DisarmInv DEF vars
<1>2. CASE \E level \in Levels : write_deadline(level)
  BY <1>2, WriteDeadlineInv
<1>3. CASE tick_begin \/ tick_scan \/ reaction_return \/ tick_end
  BY <1>3, TickInv
<1>4. CASE setup_phase_changes \/ ClockChange
  <2>1. TypeOK' /\ UNCHANGED <<pool, call, tick, quiet>>
    BY <1>4 DEF setup_phase_changes, ClockChange, IInv, TypeOK
  <2> QED
    BY <2>1, DisarmInv
<1>5. CASE Elapse
  BY <1>5, ElapseInv
<1>6. ASSUME NEW level \in Levels,
             \/ rte_watchdog_manager_initialize(level)
             \/ rte_watchdog_manager_shutdown(level)
             \/ \E action \in Actions, timeout \in Timeouts :
                  rte_watchdog_create(level, action, timeout)
             \/ \E s \in Slot : \/ start_arm(level, s)
                                \/ rte_watchdog_stop(level, s)
                                \/ kick_check(level, s)
                                \/ rte_watchdog_destroy(level, s)
      PROVE  IInv'
  BY <1>6, CallInv
<1> QED
  BY <1>1, <1>2, <1>3, <1>4, <1>5, <1>6 DEF Next

\* The invariant holds all along.
LEMMA Invariance == Spec => []IInv
  BY InitInv, StepInv, PTL DEF Spec

-----------------------------------------------------------------------------
(* What the service promises *)

\* No deadline is further away than the longest timeout, the scan never runs
\* past the pool, and every variable keeps its type.
THEOREM TypeCorrect == Spec => []TypeOK
<1>1. IInv => TypeOK
  BY DEF IInv
<1> QED
  BY <1>1, Invariance, PTL

\* Whatever the reactions call in the middle of the scan, the end of a tick
\* leaves no expired watchdog behind that still counts.
THEOREM NoneMissed == Spec => TickMissesNone
<1>1. IInv /\ [Next]_vars
      => [tick_end => \A s \in Slot : is_supervising(pool[s]) => ~Expired(pool[s])]_vars
  <2> SUFFICES ASSUME IInv, tick_end, NEW s \in Slot, is_supervising(pool[s])
               PROVE  ~Expired(pool[s])
    OBVIOUS
  <2>1. /\ tick.at = "scan" /\ call["callback"] = Idle
        /\ tick.next = MAX_COUNT + 1 /\ tick.lag \in Int
    BY WatchdogAssumption DEF tick_end, IInv, CallbackOnlyInReaction, TypeOK, Tick
  <2>2. s < tick.next
    BY <2>1, WatchdogAssumption DEF Slot
  <2>3. pool[s].left + tick.lag > 0
    BY <2>1, <2>2 DEF IInv, ScannedCountOn, CallOn
  <2>4. pool[s].left \in Int
    BY SlotFacts DEF IInv, TypeOK
  <2> QED
    BY <2>1, <2>3, <2>4 DEF Expired
<1> QED
  BY <1>1, Invariance, PTL DEF Spec, TickMissesNone

\* Only the scan lets a watchdog fire.
LEMMA OnlyScanFires ==
  ASSUME IInv, [Next]_vars, NEW s \in Slot, ~pool[s].fired, pool'[s].fired
  PROVE  /\ tick.at = "scan" /\ is_supervising(pool[s]) /\ Expired(pool[s])
<1>0. pool \in [Slot -> WatchdogSlot]
  BY DEF IInv, TypeOK
<1>1. ASSUME tick_scan
      PROVE  /\ tick.at = "scan" /\ is_supervising(pool[s]) /\ Expired(pool[s])
  <2>1. tick.at = "scan" /\ tick.next \in Slot
    BY <1>1 DEF tick_scan
  <2>2. /\ is_supervising(pool[tick.next]) /\ Expired(pool[tick.next])
        /\ pool' = [pool EXCEPT ![tick.next] = [pool[tick.next] EXCEPT !.fired = TRUE]]
    BY <1>1 DEF tick_scan, rte_watchdog_timeout_handler
  <2>3. s = tick.next
    BY <1>0, <2>1, <2>2
  <2> QED
    BY <2>1, <2>2, <2>3
<1>2. ASSUME NEW level \in Levels, NEW r \in Slot,
             start_arm(level, r) \/ rte_watchdog_stop(level, r)
               \/ rte_watchdog_destroy(level, r)
      PROVE  FALSE
  <2>1. pool'[r].fired => pool[r].fired
    <3>1. CASE pool' = [pool EXCEPT ![r] = [pool[r] EXCEPT !.active = TRUE, !.fired = FALSE]]
      BY <1>0, <3>1 DEF WatchdogSlot
    <3>2. CASE pool' = [pool EXCEPT ![r] = [pool[r] EXCEPT !.active = FALSE]]
      BY <1>0, <3>2 DEF WatchdogSlot
    <3>3. CASE pool' = [pool EXCEPT ![r] = [pool[r] EXCEPT !.active = FALSE, !.in_use = FALSE]]
      BY <1>0, <3>3 DEF WatchdogSlot
    <3> QED
      BY <1>2, <3>1, <3>2, <3>3 DEF start_arm, rte_watchdog_stop, rte_watchdog_destroy
  <2>2. s # r => pool'[s] = pool[s]
    BY <1>0, <1>2 DEF start_arm, rte_watchdog_stop, rte_watchdog_destroy
  <2> QED
    BY <2>1, <2>2
<1>3. ASSUME NEW level \in Levels, NEW action \in Actions, NEW timeout \in Timeouts,
             rte_watchdog_create(level, action, timeout)
      PROVE  FALSE
  <2>1. PICK r \in Slot :
          pool' = [pool EXCEPT ![r] = [ZeroSlot(action, timeout) EXCEPT !.in_use = TRUE]]
    BY <1>3 DEF rte_watchdog_create
  <2>2. [ZeroSlot(action, timeout) EXCEPT !.in_use = TRUE].fired = FALSE
    BY DEF ZeroSlot
  <2> QED
    BY <1>0, <2>1, <2>2
<1>4. ASSUME NEW level \in Levels, rte_watchdog_manager_initialize(level) PROVE FALSE
  BY <1>4 DEF rte_watchdog_manager_initialize, ZeroPool, ZeroSlot
<1>5. ASSUME NEW level \in Levels, rte_watchdog_manager_shutdown(level) PROVE FALSE
  BY <1>0, <1>5 DEF rte_watchdog_manager_shutdown, WatchdogSlot
<1>6. ASSUME NEW level \in Levels, write_deadline(level) PROVE FALSE
  <2>1. call[level].slot \in Slot
    BY <1>6, CallFacts DEF write_deadline, IInv, TypeOK
  <2> QED
    BY <1>0, <1>6, <2>1 DEF write_deadline, WatchdogSlot
<1>7. ASSUME Elapse PROVE FALSE
  BY <1>0, <1>7 DEF Elapse, WatchdogSlot
<1>8. UNCHANGED pool => FALSE
  OBVIOUS
<1> QED
  BY <1>1, <1>2, <1>3, <1>4, <1>5, <1>6, <1>7, <1>8 DEF Next, vars, kick_check, tick_begin,
     reaction_return, tick_end, setup_phase_changes, ClockChange

\* A watchdog fires only after its whole timeout without a start or a kick,
\* the tick that interrupts one of the two excepted.
THEOREM FiresWhenQuiet == Spec => FiresOnlyWhenQuiet
<1>1. IInv /\ [Next]_vars
      => [\A s \in Slot : ~pool[s].fired /\ pool'[s].fired =>
            quiet[s] >= pool[s].timeout_ms \/ Interrupted(s)]_vars
  <2> SUFFICES ASSUME IInv, [Next]_vars, NEW s \in Slot, ~pool[s].fired, pool'[s].fired,
                      ~Interrupted(s)
               PROVE  quiet[s] >= pool[s].timeout_ms
    OBVIOUS
  <2>1. tick.at = "scan" /\ is_supervising(pool[s]) /\ Expired(pool[s])
    BY OnlyScanFires
  <2>2. ~CallOn("application", s) /\ ~CallOn("callback", s)
    BY <2>1 DEF IInv, CallbackOnlyInReaction, CallOn, Interrupted
  <2>3. quiet[s] >= pool[s].timeout_ms \/ quiet[s] + pool[s].left >= pool[s].timeout_ms
    BY <2>1, <2>2 DEF IInv, DeadlineIsDue
  <2>4. /\ pool[s].left \in Int /\ pool[s].timeout_ms \in Nat
        /\ quiet[s] \in Int /\ tick.lag \in Nat
    BY SlotFacts, WatchdogAssumption, MaxTimeoutFacts DEF IInv, TypeOK, Tick
  <2>5. pool[s].left <= 0
    BY <2>1, <2>4 DEF Expired
  <2> QED
    BY <2>3, <2>4, <2>5
<1> QED
  BY <1>1, Invariance, PTL DEF Spec, FiresOnlyWhenQuiet
=============================================================================
