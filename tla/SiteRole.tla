------------------------------ MODULE SiteRole ------------------------------
(***************************************************************************)
(* One channel of the site role service (rte_site_role.c): the state it    *)
(* keeps and what each step of a cycle does to it.  Every operator takes   *)
(* the channel's state s and returns the next one, as the C functions      *)
(* update *rs.  SiteRolePair composes two channels over an unreliable      *)
(* link.  The field app_cycle is not part of rs: it is the application's   *)
(* own cycle counter, the number it passes to every call, which its        *)
(* on_change callback renumbers; cycle is rs->cycle, the number of the     *)
(* last execute or service_link call.                                      *)
(***************************************************************************)
EXTENDS SiteRolePolicy

CONSTANTS
  SEND_MISS_THRESHOLD,   \* cfg.send_miss_threshold
  STANDBY_SYNC           \* cfg.standby_sync: warm or hot standby

ASSUME SiteRoleAssumption ==
  /\ SEND_MISS_THRESHOLD \in 1..255
  /\ STANDBY_SYNC \in BOOLEAN

\* A negotiation frame; the application state it carries is abstracted away.
Frame == [faulted: BOOLEAN, cycle: Nat, valid: BOOLEAN]

ReceiveStatus == {"OK", "TIMEOUT", "HARDWARE_FAULT"}

\* rte_site_role_local_t: what the application supplies with each call.
Local == [faulted: BOOLEAN, own_ready: BOOLEAN, sibling_online: BOOLEAN,
          sibling_ready: BOOLEAN, sibling_reachable: BOOLEAN]

\* rte_site_role_t without configuration, buffers, logging state and the
\* negotiator, whose states are diagnostic once the channel has started.
ChannelState ==
  [app_cycle: Nat, cycle: Nat, online: BOOLEAN, local_faulted: BOOLEAN,
   link: BOOLEAN, send_miss: Nat, peer_faulted: BOOLEAN, peer_online_now: BOOLEAN, peer_last_rx_cycle: Nat,
   peer_snapshot_valid: BOOLEAN, peer_snapshot_cycle: Nat,
   peer_unresponsive: BOOLEAN, lost_peer_while_online: BOOLEAN,
   takeover_confirmed: BOOLEAN, takeover_confirm_cycle: Nat,
   both_standby_cycles: Nat, standby_healthy: BOOLEAN,
   standby_last_try_cycle: Nat, standby_rx_cycle: Nat]

\* rte_site_role_init().
InitChannel ==
  [app_cycle |-> 0, cycle |-> 0, online |-> FALSE, local_faulted |-> FALSE,
   link |-> FALSE, send_miss |-> 0, peer_faulted |-> FALSE, peer_online_now |-> FALSE, peer_last_rx_cycle |-> 0,
   peer_snapshot_valid |-> FALSE, peer_snapshot_cycle |-> 0,
   peer_unresponsive |-> FALSE, lost_peer_while_online |-> FALSE,
   takeover_confirmed |-> FALSE, takeover_confirm_cycle |-> 0,
   both_standby_cycles |-> 0, standby_healthy |-> TRUE,
   standby_last_try_cycle |-> 0, standby_rx_cycle |-> 0]

-----------------------------------------------------------------------------
(* Frames and role changes *)

\* Only an ONLINE channel offers its cycle and a valid snapshot.
encode_frame(faulted, cycle, live) ==
  [faulted |-> faulted, cycle |-> IF live THEN cycle ELSE 0, valid |-> live]

\* With a snapshot to take over, the application's on_change renumbers its
\* cycles from it, so the stamps taken under the old numbering are reset.
report_change(s, apply_state) ==
  IF apply_state /\ s.peer_snapshot_valid
  THEN [s EXCEPT !.app_cycle = s.peer_snapshot_cycle, !.peer_last_rx_cycle = 0,
                 !.standby_rx_cycle = 0, !.standby_last_try_cycle = 0]
  ELSE s

promote_to_online(s) ==
  report_change([s EXCEPT !.online = TRUE, !.peer_unresponsive = FALSE,
                          !.takeover_confirmed = FALSE], TRUE)

demote_to_standby(s) ==
  report_change([s EXCEPT !.online = FALSE, !.lost_peer_while_online = FALSE], FALSE)

renegotiate_from_deadlock(s, is_west) ==
  report_change([s EXCEPT !.online = is_west], is_west)

-----------------------------------------------------------------------------
(* Link *)

\* open_link_once() succeeded and the dual channel is initialised over it.
init_channel_and_negotiator(s) == [s EXCEPT !.link = TRUE, !.send_miss = 0]

close_link(s) == [s EXCEPT !.link = FALSE]

-----------------------------------------------------------------------------
(* The steps of a cycle *)

take_local(s, local) == [s EXCEPT !.local_faulted = local.faulted]

\* A decoded frame: the counterpart is talking, so a confirmation is void.
receive_frame(s, f) ==
  [s EXCEPT !.peer_faulted = f.faulted,
            !.peer_unresponsive = FALSE,
            !.takeover_confirmed = FALSE,
            !.peer_last_rx_cycle = s.cycle,
            !.peer_online_now = f.valid /\ ~f.faulted,
            !.peer_snapshot_cycle = IF f.valid THEN f.cycle ELSE @,
            !.peer_snapshot_valid = f.valid \/ @,
            !.standby_rx_cycle = IF f.valid THEN s.cycle ELSE @]

\* Mutant: a silent snapshot never goes cold.
update_standby_warmth_never_cold(s) == s

update_standby_warmth(s) ==
  [s EXCEPT !.peer_snapshot_valid =
     @ /\ ~standby_data_stale(STANDBY_SYNC, s.online, @, s.cycle, s.standby_rx_cycle)]

build_decision_input(s, local, is_west) ==
  [is_online |-> s.online, own_faulted |-> s.local_faulted, is_west |-> is_west,
   link_up |-> s.link, peer_unresponsive |-> s.peer_unresponsive, cycle |-> s.cycle,
   peer_last_rx_cycle |-> s.peer_last_rx_cycle,
   peer_online_now |-> s.peer_online_now, peer_faulted |-> s.peer_faulted,
   peer_snapshot_valid |-> s.peer_snapshot_valid,
   sibling_online |-> local.sibling_online,
   takeover_confirmed |-> s.takeover_confirmed,
   takeover_confirm_cycle |-> s.takeover_confirm_cycle,
   lost_peer_while_online |-> s.lost_peer_while_online,
   both_standby_cycles |-> s.both_standby_cycles, own_ready |-> local.own_ready,
   sibling_ready |-> local.sibling_ready,
   sibling_reachable |-> local.sibling_reachable]

\* ALARM and WAIT are only logged.
apply_decision(s, d, is_west) ==
  LET t == [s EXCEPT !.both_standby_cycles = d.both_standby_cycles] IN
  CASE d.action = "PROMOTE"     -> promote_to_online(t)
    [] d.action = "DEMOTE"      -> demote_to_standby(t)
    [] d.action = "RENEGOTIATE" -> renegotiate_from_deadlock(t, is_west)
    [] OTHER                    -> t

run_site_role_decision(s, local, is_west) ==
  apply_decision(s, decide(build_decision_input(s, local, is_west)), is_west)

\* Mutant: an acknowledged send takes one miss back instead of all of them.
send_miss_counts_down(s, send_ok, receive_status) ==
  [s EXCEPT !.send_miss = IF send_ok THEN @ - 1 ELSE @ + 1]

\* The link is closed after enough unacknowledged sends or on a receive
\* failure other than a timeout; a STANDBY channel then waits for the
\* dispatcher, an ONLINE one remembers that it was cut off.
handle_send_miss_and_link_teardown(s, send_ok, receive_status) ==
  LET miss == IF send_ok THEN 0 ELSE IF s.send_miss < 255 THEN s.send_miss + 1 ELSE 255
      dead == miss >= SEND_MISS_THRESHOLD \/ receive_status = "HARDWARE_FAULT"
      silent == ~s.online /\ ~s.local_faulted
  IN IF dead
     THEN close_link([s EXCEPT !.send_miss = 0,
                               !.lost_peer_while_online = @ \/ s.online,
                               !.peer_unresponsive = @ \/ silent])
     ELSE [s EXCEPT !.send_miss = miss]

-----------------------------------------------------------------------------
(* The calls of the application *)

\* What every rte_site_role_execute() starts with.
begin_cycle(s, cycle, local) ==
  take_local([s EXCEPT !.app_cycle = cycle, !.cycle = cycle], local)

\* rte_site_role_execute() when the link is down and the reconnect fails.
execute_without_link(s, cycle, local, is_west) ==
  run_site_role_decision(begin_cycle(s, cycle, local), local, is_west)

\* rte_site_role_execute() over an open link; rx is what the receive returned.
execute_with_link(s, cycle, local, is_west, send_ok, rx) ==
  LET s1 == begin_cycle(s, cycle, local)
      s2 == IF rx.status = "OK" THEN receive_frame(s1, rx.frame) ELSE s1
      s3 == update_standby_warmth(s2)
      s4 == run_site_role_decision(s3, local, is_west)
  IN handle_send_miss_and_link_teardown(s4, send_ok, rx.status)

\* rte_site_role_service_link() takes the number of the running cycle, then
\* every frame that has arrived.
service_link(s, frames) ==
  LET t == [s EXCEPT !.cycle = s.app_cycle] IN
  IF frames = {} THEN t ELSE receive_frame(t, CHOOSE f \in frames : TRUE)

\* The frame that cycle sends: built before anything is received.
frame_of_cycle(s, cycle, local) == encode_frame(local.faulted, cycle, s.online)

\* rte_site_role_sync_standby(): whether a snapshot goes out, and what the
\* acknowledgement (or its absence) leaves behind.
sync_prepare(s, local) ==
  [take_local(s, local) EXCEPT !.standby_healthy =
     @ /\ ~(STANDBY_SYNC /\ s.online /\ ~s.link)]

sync_is_due(s) ==
  standby_sync_due(STANDBY_SYNC, s.online, s.link, s.standby_healthy, s.app_cycle,
                   s.standby_last_try_cycle)

sync_sent(s, ok) ==
  [s EXCEPT !.standby_healthy = ok,
            !.standby_last_try_cycle = IF ok THEN @ ELSE s.app_cycle]

\* record_takeover_confirmation(), reached only by a channel that is not ONLINE.
on_takeover_confirm(s) ==
  [s EXCEPT !.takeover_confirmed = TRUE, !.takeover_confirm_cycle = s.app_cycle]

note_lost_contact(s) == [s EXCEPT !.lost_peer_while_online = TRUE]
=============================================================================
