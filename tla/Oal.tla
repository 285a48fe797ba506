-------------------------------- MODULE Oal --------------------------------
(***************************************************************************)
(* The OS abstraction layer: one seam per service (timer, task, mutex...), *)
(* each a registered adapter and a thin wrapper per operation.  All the    *)
(* wrappers follow one order of tests: arguments, then the setup-phase     *)
(* lock where the operation is for setup only, then the adapter, then the  *)
(* adapter's slot, then the call itself.  A table per seam says which of   *)
(* its operations makes a handle, uses one, gives it back, and which ones  *)
(* are for setup only; the wrapper is one action.                          *)
(*                                                                         *)
(* One seam at a time is exercised (focus), by a caller that ignores every *)
(* status; meanwhile a bundle is registered seam by seam, and the          *)
(* application manager locks and unlocks the setup phase at any moment.    *)
(***************************************************************************)
EXTENDS Naturals, Sequences, Lifecycle

CONSTANTS
  ADAPTERS,   \* adapters an integrator can register
  LACKS,      \* <<adapter, operation>>: slots that are NULL
  BUNDLES,    \* bundles of adapters: whose they are, and the members that are not NULL
  NONE        \* no adapter

ASSUME OalAssumption == NONE \notin ADAPTERS

VARIABLES
  focus,     \* the seam whose operations are called
  adapter,   \* s_osadapter of every seam
  handle,    \* the caller's handle of the focus seam is not NULL
  object,    \* what it stands for: who made it, is it alive, was it started
  asked,     \* since it gave a handle back the caller asked for one, with
             \* good arguments
  result,    \* status of its last call
  bundle,    \* rte_osadapter_register_all(): the bundle, its next seam, its status
  handlers,  \* safe-state levels with a registered handler
  halted,    \* rte_safestate_enter() does not return
  min_level, \* s_min_level of the log
  presence   \* what rte_fsou_report_presence() logged

oalVars == <<focus, adapter, handle, object, asked, result, locked, bundle, handlers, halted,
          min_level, presence>>

-----------------------------------------------------------------------------
(* The seams *)

\* makes and ends name one operation each; "" where there is none.
Seam(setup_only, makes, uses, starts, ends, free) ==
  [setup_only |-> setup_only, makes |-> makes, uses |-> uses, starts |-> starts,
   ends |-> ends, free |-> free]

timer     == Seam({"create", "start"}, "create", {"stop", "start"}, {"start"}, "destroy", {"now"})
task      == Seam({"create", "start"}, "create", {"suspend", "start"}, {"start"}, "destroy", {})
mutex     == Seam({"create"}, "create", {"lock", "lock_timed", "unlock"}, {}, "destroy", {})
nvm       == Seam({"open"}, "open", {"read", "write", "sync"}, {}, "close", {})
memory    == Seam({"create"}, "create", {"acquire", "release", "stats"}, {}, "", {})
ipc       == Seam({"create"}, "create", {"send", "receive"}, {}, "destroy", {})
netlink   == Seam({}, "open", {"send", "receive"}, {}, "close", {})
flow      == Seam({}, "open", {"send", "receive", "getattr", "setattr"}, {}, "close", {})
fsou      == Seam({}, "", {}, {}, "", {"grant", "revoke"})
clocksync == Seam({}, "", {}, {}, "", {"get_offset_ms", "get_quality"})
random    == Seam({}, "", {}, {}, "", {"fill"})
reboot    == Seam({}, "", {}, {}, "", {"request"})
platform  == Seam({}, "", {}, {}, "", {"realtime_init"})
log       == Seam({}, "", {}, {}, "", {})

\* The stubs of the request/reply and publish/subscribe layer have no adapter,
\* and create without writing a handle.
rr_server  == Seam({"create"}, "create", {"receive_request", "send_reply"}, {}, "destroy", {})
rr_client  == Seam({"create"}, "create", {"request"}, {}, "destroy", {})
topic      == Seam({"create"}, "create", {"publish"}, {}, "destroy", {})
subscriber == Seam({}, "create", {"receive"}, {}, "destroy", {})

Stubs == [rr_server |-> rr_server, rr_client |-> rr_client, topic |-> topic,
          subscriber |-> subscriber]
Backed == [memory |-> memory, clocksync |-> clocksync, timer |-> timer, mutex |-> mutex,
           task |-> task, log |-> log, nvm |-> nvm, platform |-> platform, reboot |-> reboot,
           ipc |-> ipc, netlink |-> netlink, flow |-> flow, random |-> random, fsou |-> fsou]

\* The order of rte_osadapter_register_all(); the socket operations are a seam
\* of their own that no lock protects.
BundleOrder == <<"memory", "clocksync", "timer", "mutex", "task", "log", "nvm", "platform",
                 "reboot", "ipc", "netlink", "flow", "sockets", "random", "fsou">>
Registered == DOMAIN Backed \cup {"sockets"}

ASSUME BundleAssumption == BUNDLES \subseteq [of: ADAPTERS, members: SUBSET Registered]

Ops == IF focus \in DOMAIN Stubs THEN Stubs[focus] ELSE Backed[focus]
NoObject == [maker |-> NONE, alive |-> FALSE, started |-> FALSE]
NoBundle == [of |-> NONE, members |-> {}, next |-> 1, status |-> "none"]
Levels == {"DEGRADED", "SAFE", "REBOOT"}
LogLevels == 0..3

OalInit ==
  /\ focus \in DOMAIN Backed \cup DOMAIN Stubs
  /\ adapter = [s \in Registered |-> NONE]
  /\ handle = FALSE /\ object = NoObject /\ asked = FALSE /\ result = "none"
  /\ LifecycleInit /\ bundle = NoBundle
  /\ handlers = {} /\ halted = FALSE /\ min_level = 0 /\ presence = "none"

\* Mutant: only operations that make a handle are refused after the setup phase.
gated_makers(op) == op = Ops.makes /\ op \in Ops.setup_only
gated(op) == op \in Ops.setup_only

-----------------------------------------------------------------------------
(* Registration *)

\* rte_osadapter_*_register(): refused once the setup phase is locked, except
\* for the socket operations.
may_register(s) == s = "sockets" \/ rte_lifecycle_check_setup_allowed

register(s, a) ==
  /\ ~halted /\ may_register(s)
  /\ adapter' = [adapter EXCEPT ![s] = a]
  /\ UNCHANGED <<focus, handle, object, asked, result, locked, bundle, handlers, halted,
                 min_level, presence>>

\* On to the next seam, or back to the caller after the last.
past_seam == IF bundle.next < Len(BundleOrder)
             THEN [bundle EXCEPT !.next = @ + 1] ELSE [bundle EXCEPT !.status = "OK"]

\* Mutant: a refusal ends the bundle but its status is not returned.
register_all_step_swallows ==
  LET s == BundleOrder[bundle.next] IN
  IF s \notin bundle.members THEN bundle' = past_seam /\ UNCHANGED adapter
  ELSE IF may_register(s)
  THEN bundle' = past_seam /\ adapter' = [adapter EXCEPT ![s] = bundle.of]
  ELSE bundle' = [bundle EXCEPT !.status = "OK"] /\ UNCHANGED adapter

\* A member that is NULL is passed over; the first refusal ends the call.
register_all_step ==
  LET s == BundleOrder[bundle.next] IN
  IF s \notin bundle.members THEN bundle' = past_seam /\ UNCHANGED adapter
  ELSE IF may_register(s)
  THEN bundle' = past_seam /\ adapter' = [adapter EXCEPT ![s] = bundle.of]
  ELSE bundle' = [bundle EXCEPT !.status = "INVALID_STATE"] /\ UNCHANGED adapter

rte_osadapter_register_all(b) ==
  /\ ~halted
  /\ \/ /\ bundle = NoBundle
        /\ bundle' = [of |-> b.of, members |-> b.members, next |-> 1, status |-> "running"]
        /\ UNCHANGED adapter
     \/ /\ bundle.of = b.of /\ bundle.members = b.members /\ bundle.status = "running"
        /\ register_all_step
  /\ UNCHANGED <<focus, handle, object, asked, result, locked, handlers, halted, min_level,
                 presence>>

-----------------------------------------------------------------------------
(* Operations *)

\* The answer of a wrapper whose arguments are good, up to the adapter's own.
answers(op) ==
  IF gated(op) /\ ~rte_lifecycle_check_setup_allowed THEN {"INVALID_STATE"}
  ELSE IF focus \in DOMAIN Stubs
       THEN {IF op \in {"receive_request", "request", "receive"} THEN "TIMEOUT" ELSE "OK"}
  ELSE IF adapter[focus] = NONE THEN {"NOT_INITIALIZED"}
  ELSE IF <<adapter[focus], op>> \in LACKS THEN {"NOT_SUPPORTED"}
  ELSE {"OK", "ADAPTER_ERROR"}

Unrelated == UNCHANGED <<focus, adapter, locked, bundle, handlers, halted, min_level, presence>>

\* Mutant: the caller's handle is written on success only.
handle_after_on_success(status) == IF status = "OK" THEN TRUE ELSE handle
\* The caller's handle is cleared before the first test after the arguments';
\* the stubs never write it.
handle_after(status) == IF focus \in DOMAIN Stubs THEN handle ELSE status = "OK"

\* create or open.  Bad arguments are refused before the handle is cleared.
make ==
  /\ ~halted /\ Ops.makes # ""
  /\ \/ /\ result' = "INVALID_PARAM"
        /\ UNCHANGED <<handle, object, asked>>
     \/ /\ asked' = TRUE
        /\ result' \in answers(Ops.makes)
        /\ handle' = handle_after(result')
        /\ object' = IF result' = "OK" /\ focus \notin DOMAIN Stubs
                     THEN [maker |-> adapter[focus], alive |-> TRUE, started |-> FALSE]
                     ELSE object
  /\ Unrelated

\* An operation on the handle; a NULL handle is a bad argument.
use(op) ==
  /\ ~halted /\ op \in Ops.uses
  /\ handle => asked      \* a caller does not use a handle it gave back
  /\ result' \in IF handle THEN answers(op) ELSE {"INVALID_PARAM"}
  /\ object' = [object EXCEPT !.started = @ \/ (op \in Ops.starts /\ result' = "OK")]
  /\ UNCHANGED <<handle, asked>> /\ Unrelated

\* destroy or close: the caller's variable keeps its value.
give_back ==
  /\ ~halted /\ Ops.ends # "" /\ asked
  /\ result' \in IF handle THEN answers(Ops.ends) ELSE {"INVALID_PARAM"}
  /\ object' = IF result' = "OK" THEN [object EXCEPT !.alive = FALSE] ELSE object
  /\ asked' = FALSE
  /\ UNCHANGED handle /\ Unrelated

\* An operation without a handle.
call(op) ==
  /\ ~halted /\ op \in Ops.free
  /\ result' \in answers(op)
  /\ UNCHANGED <<handle, object, asked>> /\ Unrelated

-----------------------------------------------------------------------------
(* Log, output unit, safe state, setup-phase lock *)

\* Mutant: any number is taken.
log_set_level_unchecked(level) ==
  /\ min_level' = level
  /\ UNCHANGED <<focus, adapter, handle, object, asked, result, locked, bundle, handlers,
                 halted, presence>>

\* Anything above ERROR is ignored.
rte_log_set_level(level) ==
  /\ min_level' = IF level \in LogLevels THEN level ELSE min_level
  /\ UNCHANGED <<focus, adapter, handle, object, asked, result, locked, bundle, handlers,
                 halted, presence>>

\* rte_log_write() and rte_log_write_event(): silent without an adapter, a
\* write slot or a high enough level, and never a failure of the caller.
rte_log_write(level) ==
  /\ result' = IF /\ adapter["log"] # NONE /\ <<adapter["log"], "write">> \notin LACKS
                  /\ level >= min_level
               THEN "written" ELSE "dropped"
  /\ UNCHANGED <<handle, object, asked>> /\ Unrelated

\* One line per process, whatever is registered later.
rte_fsou_report_presence ==
  /\ presence = "none"
  /\ presence' = IF adapter["fsou"] # NONE THEN "present" ELSE "absent"
  /\ UNCHANGED <<focus, adapter, handle, object, asked, result, locked, bundle, handlers,
                 halted, min_level>>

rte_safestate_register_handler(level) ==
  /\ ~halted /\ rte_lifecycle_check_setup_allowed
  /\ handlers' = handlers \cup {level}
  /\ UNCHANGED <<focus, adapter, handle, object, asked, result, locked, bundle, halted,
                 min_level, presence>>

\* Returns from DEGRADED only: not from a level it does not know either, and
\* with or without a handler.
rte_safestate_enter(level) ==
  /\ halted' = (level # "DEGRADED")
  /\ UNCHANGED <<focus, adapter, handle, object, asked, result, locked, bundle, handlers,
                 min_level, presence>>

rte_lifecycle_lock_or_unlock ==
  /\ rte_lifecycle_lock \/ rte_lifecycle_unlock
  /\ UNCHANGED <<focus, adapter, handle, object, asked, result, bundle, handlers, halted,
                 min_level, presence>>

OalNext ==
  \/ \E s \in {focus} \cap Registered, a \in ADAPTERS : register(s, a)
  \/ \E b \in BUNDLES : rte_osadapter_register_all(b)
  \/ make \/ give_back
  \/ \E op \in Ops.uses : use(op)
  \/ \E op \in Ops.free : call(op)
  \/ focus = "log" /\ ~halted /\ \E level \in 0..4 : rte_log_set_level(level)
  \/ focus = "log" /\ ~halted /\ \E level \in LogLevels : rte_log_write(level)
  \/ focus = "fsou" /\ ~halted /\ rte_fsou_report_presence
  \/ focus = "log" /\ \E level \in Levels : rte_safestate_register_handler(level)
  \/ focus = "log" /\ ~halted /\ \E level \in Levels \cup {"unknown"} : rte_safestate_enter(level)
  \/ ~halted /\ rte_lifecycle_lock_or_unlock

OalSpec == OalInit /\ [][OalNext]_oalVars

-----------------------------------------------------------------------------
(* Properties.                                                             *)

OalTypeOK ==
  /\ adapter \in [Registered -> ADAPTERS \cup {NONE}]
  /\ bundle.next \in 1..Len(BundleOrder)
  /\ min_level \in LogLevels

\* rte_osadapter_register_all() says OK only if it registered every member it
\* was given, also when the setup phase ends in the middle of it, and it leaves
\* the seam of a NULL member (fsou in a build without an output unit) alone: the
\* seam stays without an adapter.  A seam that is also registered by itself is
\* the one exception.
BundleIsWhole ==
  bundle.status = "OK" =>
    \A s \in Registered \ {focus} :
      adapter[s] = IF s \in bundle.members THEN bundle.of ELSE NONE

\* A caller that ignores the status of create or open and goes on with its
\* handle variable reaches no object that was given back: a refusal for the
\* phase, the adapter or its slot leaves NULL behind, and the next call stops
\* at its argument test.  Not so after bad arguments, which leave the variable
\* as it was, and for the stubs, which never write it.
NoDanglingHandle ==
  focus \in DOMAIN Backed /\ handle /\ asked => object.alive

\* While the setup phase is over, nothing that was settled in it moves: no
\* adapter is replaced under the running tasks, no timer or task starts, no
\* object appears where the seam is for setup only, no safe-state handler
\* changes.
FrozenWhileLocked ==
  [][locked /\ locked' =>
       /\ \A s \in Registered \ {"sockets"} : adapter'[s] = adapter[s]
       /\ handlers' = handlers
       /\ focus \notin {"netlink", "flow"} =>
            (object'.alive => object.alive) /\ (object'.started => object.started)]_oalVars

=============================================================================
