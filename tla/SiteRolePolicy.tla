--------------------------- MODULE SiteRolePolicy ---------------------------
(***************************************************************************)
(* The site-role policy (rte_site_role_policy.c): one pure decision per    *)
(* cycle from the facts a channel holds, and the timing predicates of      *)
(* standby sync, takeover and the both-STANDBY tie-break.  Cycle numbers   *)
(* are naturals; a number that went back is an ordinary smaller number.    *)
(***************************************************************************)
EXTENDS Naturals

CONSTANTS
  ANSWER_WINDOW,                \* 2U in peer_answering()
  STANDBY_DATA_TIMEOUT_CYCLES,  \* 3U
  STANDBY_SYNC_RETRY_CYCLES,    \* 10U
  TAKEOVER_CONFIRM_VALID_CYCLES,\* 120U
  BOTH_STANDBY_CYCLES,          \* 6U
  SIBLING_FOLLOW_CYCLES         \* 2U in rule 7

\* The windows of the code are positive, and the tie-break outlasts the cycles
\* for which a zero "last received" stamp passes for a fresh one.
ASSUME PolicyAssumption ==
  /\ ANSWER_WINDOW \in Nat
  /\ STANDBY_DATA_TIMEOUT_CYCLES \in Nat
  /\ STANDBY_SYNC_RETRY_CYCLES \in Nat
  /\ TAKEOVER_CONFIRM_VALID_CYCLES \in Nat
  /\ BOTH_STANDBY_CYCLES \in Nat
  /\ BOTH_STANDBY_CYCLES > ANSWER_WINDOW + 1
  /\ SIBLING_FOLLOW_CYCLES \in Nat \ {0}

Decisions == {"NONE", "PROMOTE", "DEMOTE", "RENEGOTIATE", "ALARM", "WAIT"}

Reasons == {"NONE", "BOTH_FAULTED", "PEER_FAULTED", "RECOVERED",
            "DISPATCHER_CONFIRMED", "BOTH_STANDBY_WEST",
            "BOTH_STANDBY_SIBLING", "YIELD_TO_TAKEOVER", "DUAL_ONLINE",
            "WAITING_READY"}

\* The facts rte_site_role_decide() is given.
Input == [is_online: BOOLEAN, own_faulted: BOOLEAN, is_west: BOOLEAN,
          link_up: BOOLEAN, peer_unresponsive: BOOLEAN, cycle: Nat,
          peer_last_rx_cycle: Nat, peer_online_now: BOOLEAN,
          peer_faulted: BOOLEAN, peer_snapshot_valid: BOOLEAN,
          sibling_online: BOOLEAN, takeover_confirmed: BOOLEAN,
          takeover_confirm_cycle: Nat, lost_peer_while_online: BOOLEAN,
          both_standby_cycles: Nat, own_ready: BOOLEAN,
          sibling_ready: BOOLEAN, sibling_reachable: BOOLEAN]

Decision == [action: Decisions, reason: Reasons, both_standby_cycles: Nat]

-----------------------------------------------------------------------------
(* Timing predicates *)

\* A stamp is at most w cycles old; a stamp ahead of the cycle is never.
Within(cycle, stamp, w) == cycle >= stamp /\ cycle - stamp <= w

peer_answering(in) == Within(in.cycle, in.peer_last_rx_cycle, ANSWER_WINDOW)

standby_sync_due(sync_enabled, is_online, link_up, healthy, cycle, last_try) ==
  /\ sync_enabled /\ is_online /\ link_up
  /\ \/ healthy
     \/ cycle < last_try
     \/ cycle - last_try >= STANDBY_SYNC_RETRY_CYCLES

standby_data_stale(sync_enabled, is_online, have_snapshot, cycle, last_rx) ==
  /\ sync_enabled /\ ~is_online /\ have_snapshot
  /\ ~Within(cycle, last_rx, STANDBY_DATA_TIMEOUT_CYCLES)

\* Mutant: the dispatcher is not asked.
takeover_allowed_unconfirmed(is_online, own_faulted, unresponsive, confirmed, cycle, confirm_cycle) ==
  ~is_online /\ ~own_faulted /\ unresponsive

takeover_allowed(is_online, own_faulted, unresponsive, confirmed, cycle, confirm_cycle) ==
  /\ ~is_online /\ ~own_faulted /\ unresponsive /\ confirmed
  /\ Within(cycle, confirm_cycle, TAKEOVER_CONFIRM_VALID_CYCLES)

\* Mutant: either site wins the tie.
both_standby_tiebreak_either(count, is_west, sibling_online) ==
  \/ sibling_online /\ count >= 1
  \/ count >= BOTH_STANDBY_CYCLES

both_standby_tiebreak(count, is_west, sibling_online) ==
  \/ sibling_online /\ count >= 1
  \/ is_west /\ count >= BOTH_STANDBY_CYCLES

pair_ready_to_promote(in) ==
  /\ in.own_ready
  /\ in.sibling_online \/ in.sibling_ready \/ ~in.sibling_reachable

-----------------------------------------------------------------------------
(* The rules, in the order the code tries them *)

BothFaulted(in) == in.own_faulted /\ in.peer_faulted

PeerFaulted(in) == ~in.own_faulted /\ ~in.is_online /\ in.peer_faulted

Recovered(in) == in.own_faulted /\ in.peer_snapshot_valid /\ ~in.peer_faulted

DispatcherConfirmed(in) ==
  takeover_allowed(in.is_online, in.own_faulted, in.peer_unresponsive,
                   in.takeover_confirmed, in.cycle, in.takeover_confirm_cycle)

\* Mutant: an old ONLINE report of the counterpart is enough.
DualOnlineAnyAge(in) ==
  in.is_online /\ ~in.own_faulted /\ ~in.peer_faulted /\ in.peer_online_now

\* Mutant: asks for silence where the rule asks for an answer.
DualOnlineUnresponsive(in) ==
  /\ in.is_online /\ ~in.own_faulted /\ ~in.peer_faulted
  /\ in.peer_online_now /\ in.peer_unresponsive

DualOnline(in) ==
  /\ in.is_online /\ ~in.own_faulted /\ ~in.peer_faulted
  /\ in.peer_online_now /\ peer_answering(in)

BothStandby(in) ==
  /\ ~in.is_online /\ ~in.own_faulted /\ in.link_up /\ ~in.peer_unresponsive
  /\ peer_answering(in) /\ ~in.peer_online_now /\ ~in.peer_faulted

FollowSibling(in) ==
  /\ ~in.is_online /\ ~in.own_faulted /\ in.sibling_online /\ ~in.peer_faulted
  /\ ~(in.peer_online_now /\ peer_answering(in))

Answer(action, reason, count) ==
  [action |-> action, reason |-> reason, both_standby_cycles |-> count]

\* The first rule that applies.
FirstRule(in) ==
  LET next == in.both_standby_cycles + 1 IN
  IF BothFaulted(in) THEN Answer("RENEGOTIATE", "BOTH_FAULTED", 0)
  ELSE IF PeerFaulted(in) THEN Answer("PROMOTE", "PEER_FAULTED", 0)
  ELSE IF Recovered(in) THEN Answer("DEMOTE", "RECOVERED", 0)
  ELSE IF DispatcherConfirmed(in) THEN Answer("PROMOTE", "DISPATCHER_CONFIRMED", 0)
  ELSE IF DualOnline(in) THEN
    IF in.lost_peer_while_online
    THEN Answer("DEMOTE", "YIELD_TO_TAKEOVER", 0)
    ELSE Answer("ALARM", "DUAL_ONLINE", 0)
  ELSE IF BothStandby(in) THEN
    IF both_standby_tiebreak(next, in.is_west, in.sibling_online)
    THEN Answer("PROMOTE",
                IF in.sibling_online THEN "BOTH_STANDBY_SIBLING" ELSE "BOTH_STANDBY_WEST", 0)
    ELSE Answer("NONE", "NONE", next)
  ELSE IF FollowSibling(in) THEN
    IF next >= SIBLING_FOLLOW_CYCLES
    THEN Answer("PROMOTE", "BOTH_STANDBY_SIBLING", 0)
    ELSE Answer("NONE", "NONE", next)
  ELSE Answer("NONE", "NONE", 0)

\* rte_site_role_decide(): a promotion the pair is not ready for becomes WAIT.
decide(in) ==
  IF FirstRule(in).action = "PROMOTE" /\ ~pair_ready_to_promote(in)
  THEN Answer("WAIT", "WAITING_READY", in.both_standby_cycles + 1)
  ELSE FirstRule(in)
=============================================================================
