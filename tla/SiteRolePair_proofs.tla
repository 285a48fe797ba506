------------------------ MODULE SiteRolePair_proofs ------------------------
(***************************************************************************)
(* Proofs about the site role service for every value of the constants:    *)
(* the types are kept, no step promotes on silence, yields to a silent     *)
(* counterpart or takes over a snapshot that has gone cold, and two sites  *)
(* are never both ONLINE without a fault or a confirmation.                *)
(***************************************************************************)
EXTENDS SiteRolePair, TLAPS

-----------------------------------------------------------------------------
(* The policy *)

\* decide() answers with one of the actions and a count.
LEMMA DecideType ==
  ASSUME NEW in \in Input
  PROVE  decide(in) \in Decision
<1>1. FirstRule(in) \in Decision
  BY DEF FirstRule, Answer, Input, Decision, Decisions, Reasons
<1> QED BY <1>1 DEF decide, Answer, Input, Decision, Decisions, Reasons

\* Without an A/B sibling a promotion rests on a FAULTED notice, on a valid
\* confirmation, or on the tie-break WEST has waited for.
LEMMA PromoteRule ==
  ASSUME NEW in \in Input, ~in.sibling_online, decide(in).action = "PROMOTE"
  PROVE  /\ ~in.is_online
         /\ \/ in.peer_faulted
            \/ DispatcherConfirmed(in)
            \/ BothStandby(in) /\ in.both_standby_cycles + 1 >= BOTH_STANDBY_CYCLES
BY DEF decide, FirstRule, Answer, Input, PeerFaulted, DispatcherConfirmed,
       takeover_allowed, BothStandby, both_standby_tiebreak, FollowSibling

\* decide() demotes a FAULTED channel, or a healthy ONLINE one that hears an
\* ONLINE counterpart.
LEMMA DemoteRule ==
  ASSUME NEW in \in Input, decide(in).action = "DEMOTE"
  PROVE  ~in.peer_faulted /\ (in.own_faulted \/ DualOnline(in))
BY DEF decide, FirstRule, Answer, Input, Recovered, DualOnline

\* decide() renegotiates only when both sites are FAULTED.
LEMMA RenegotiateRule ==
  ASSUME NEW in \in Input, decide(in).action = "RENEGOTIATE"
  PROVE  in.own_faulted /\ in.peer_faulted
BY DEF decide, FirstRule, Answer, Input, BothFaulted

\* The both-STANDBY count grows by one a cycle and restarts with a role change.
LEMMA CountRule ==
  ASSUME NEW in \in Input
  PROVE  /\ decide(in).both_standby_cycles <= in.both_standby_cycles + 1
         /\ decide(in).action \in {"PROMOTE", "DEMOTE", "RENEGOTIATE"} =>
              decide(in).both_standby_cycles = 0
BY DEF decide, FirstRule, Answer, Input

-----------------------------------------------------------------------------
(* The inductive invariant, for the state s of a channel and its history h *)

\* A confirmation that is held was given and nothing was heard since; a channel
\* that holds one while ONLINE is WEST after both sites were FAULTED, and its
\* counterpart has not recovered.
ConfirmationHeld(s, h, is_west) ==
  s.takeover_confirmed =>
    h.confirmed /\ (s.online => s.peer_faulted /\ is_west)

\* The stamps tell at least the age of what they stamp, unless they are the
\* zero of a fresh or taken-over numbering; then the tie-break count has not
\* outrun the cycle number.
ConfirmationAge(s, h) ==
  s.takeover_confirmed /\ ~s.online =>
    h.conf + s.takeover_confirm_cycle <= s.app_cycle

\* The same for the last frame heard from the counterpart.
SilenceAge(s, h) ==
  \/ h.silent + s.peer_last_rx_cycle <= s.app_cycle
  \/ s.peer_last_rx_cycle = 0 /\ s.both_standby_cycles <= s.app_cycle

\* The same for the last snapshot taken in.
SnapshotAge(s, h) ==
  s.peer_snapshot_valid =>
    h.snap + s.standby_rx_cycle <= s.app_cycle \/ s.standby_rx_cycle = 0

\* The three ages, while the application has not restarted its numbering.
StampsTell(s, h) ==
  ~h.renumbered => ConfirmationAge(s, h) /\ SilenceAge(s, h) /\ SnapshotAge(s, h)

\* The inductive invariant of the action properties, beside the types.
StampInv ==
  /\ ~stable
  /\ \A c \in Chan : /\ ConfirmationHeld(rs[c], hist[c], IsWest(c))
                     /\ StampsTell(rs[c], hist[c])
                     /\ proc[c] # "running" => ~rs[c].takeover_confirmed

-----------------------------------------------------------------------------
(* The steps of a cycle *)

\* promote, demote and renegotiate keep the type of the channel.
LEMMA RoleChangeTypes ==
  ASSUME NEW s \in ChannelState, NEW is_west \in BOOLEAN
  PROVE  /\ promote_to_online(s) \in ChannelState
         /\ demote_to_standby(s) \in ChannelState
         /\ renegotiate_from_deadlock(s, is_west) \in ChannelState
BY DEF promote_to_online, demote_to_standby, renegotiate_from_deadlock,
       report_change, ChannelState

\* build_decision_input() fills every field of the decision input.
LEMMA DecisionInputType ==
  ASSUME NEW s \in ChannelState, NEW local \in Local, NEW is_west \in BOOLEAN
  PROVE  build_decision_input(s, local, is_west) \in Input
BY DEF build_decision_input, Input, ChannelState, Local

\* run_site_role_decision() keeps the type of the channel.
LEMMA DecisionStepType ==
  ASSUME NEW s \in ChannelState, NEW local \in Local, NEW is_west \in BOOLEAN
  PROVE  run_site_role_decision(s, local, is_west) \in ChannelState
<1> DEFINE in == build_decision_input(s, local, is_west)
           d == decide(in)
           t == [s EXCEPT !.both_standby_cycles = d.both_standby_cycles]
<1>1. d \in Decision
  BY DecisionInputType, DecideType
<1>2. t \in ChannelState
  BY <1>1 DEF ChannelState, Decision
<1>3. run_site_role_decision(s, local, is_west) \in
        {t, promote_to_online(t), demote_to_standby(t), renegotiate_from_deadlock(t, is_west)}
  BY DEF run_site_role_decision, apply_decision
<1> QED BY <1>2, <1>3, RoleChangeTypes

\* So does the start of rte_site_role_execute().
LEMMA BeginCycleType ==
  ASSUME NEW s \in ChannelState, NEW cycle \in Nat, NEW local \in Local
  PROVE  begin_cycle(s, cycle, local) \in ChannelState
BY DEF begin_cycle, take_local, ChannelState, Local

\* So does a decoded frame.
LEMMA ReceiveFrameType ==
  ASSUME NEW s \in ChannelState, NEW f \in Frame
  PROVE  receive_frame(s, f) \in ChannelState
<1> DEFINE seen == f.valid /\ ~f.faulted
           valid == f.valid \/ s.peer_snapshot_valid
           snap == IF f.valid THEN f.cycle ELSE s.peer_snapshot_cycle
           stamp == IF f.valid THEN s.cycle ELSE s.standby_rx_cycle
           t == [s EXCEPT !.peer_faulted = f.faulted, !.peer_unresponsive = FALSE,
                          !.takeover_confirmed = FALSE, !.peer_last_rx_cycle = s.cycle]
<1>1. receive_frame(s, f) =
        [t EXCEPT !.peer_online_now = seen, !.peer_snapshot_cycle = snap,
                  !.peer_snapshot_valid = valid, !.standby_rx_cycle = stamp]
  BY DEF receive_frame, ChannelState
<1>2. seen \in BOOLEAN /\ valid \in BOOLEAN /\ snap \in Nat /\ stamp \in Nat
  BY DEF ChannelState, Frame
<1>3. t \in ChannelState
  BY DEF ChannelState, Frame
<1> HIDE DEF seen, valid, snap, stamp, t
<1> QED BY <1>1, <1>2, <1>3 DEF ChannelState

\* So do the warmth update, the teardown, and opening and closing the link.
LEMMA CycleStepTypes ==
  ASSUME NEW s \in ChannelState, NEW cycle \in Nat, NEW local \in Local,
         NEW f \in Frame, NEW send_ok \in BOOLEAN, NEW status \in ReceiveStatus
  PROVE  /\ begin_cycle(s, cycle, local) \in ChannelState
         /\ receive_frame(s, f) \in ChannelState
         /\ update_standby_warmth(s) \in ChannelState
         /\ handle_send_miss_and_link_teardown(s, send_ok, status) \in ChannelState
<1>1. begin_cycle(s, cycle, local) \in ChannelState
  BY BeginCycleType
<1>2. receive_frame(s, f) \in ChannelState
  BY ReceiveFrameType
<1>3. update_standby_warmth(s) \in ChannelState
  BY DEF update_standby_warmth, ChannelState
<1>4. handle_send_miss_and_link_teardown(s, send_ok, status) \in ChannelState
  <2> DEFINE miss == IF send_ok THEN 0
                     ELSE IF s.send_miss < 255 THEN s.send_miss + 1 ELSE 255
             lost == s.lost_peer_while_online \/ s.online
             mute == s.peer_unresponsive \/ (~s.online /\ ~s.local_faulted)
  <2>1. handle_send_miss_and_link_teardown(s, send_ok, status) \in
          {[s EXCEPT !.send_miss = 0, !.lost_peer_while_online = lost,
                     !.peer_unresponsive = mute, !.link = FALSE],
           [s EXCEPT !.send_miss = miss]}
    BY DEF handle_send_miss_and_link_teardown, close_link, ChannelState
  <2>2. miss \in Nat /\ lost \in BOOLEAN /\ mute \in BOOLEAN
    BY DEF ChannelState
  <2> HIDE DEF miss, lost, mute
  <2>3. [s EXCEPT !.send_miss = miss] \in ChannelState
    BY <2>2 DEF ChannelState
  <2>4. [s EXCEPT !.send_miss = 0, !.lost_peer_while_online = lost,
                  !.peer_unresponsive = mute, !.link = FALSE] \in ChannelState
    BY <2>2 DEF ChannelState
  <2> QED BY <2>1, <2>3, <2>4
<1> QED BY <1>1, <1>2, <1>3, <1>4

\* So does a whole rte_site_role_execute(), with or without a link.
LEMMA CycleTypes ==
  ASSUME NEW s \in ChannelState, NEW cycle \in Nat, NEW local \in Local,
         NEW is_west \in BOOLEAN, NEW send_ok \in BOOLEAN,
         NEW rx \in [status: ReceiveStatus, frame: Frame]
  PROVE  /\ execute_with_link(s, cycle, local, is_west, send_ok, rx) \in ChannelState
         /\ execute_without_link(s, cycle, local, is_west) \in ChannelState
<1> DEFINE s1 == begin_cycle(s, cycle, local)
           s2 == IF rx.status = "OK" THEN receive_frame(s1, rx.frame) ELSE s1
           s3 == update_standby_warmth(s2)
           s4 == run_site_role_decision(s3, local, is_west)
<1>0. rx.status \in ReceiveStatus /\ rx.frame \in Frame
  OBVIOUS
<1>1. s1 \in ChannelState
  BY <1>0, CycleStepTypes
<1> HIDE DEF s1
<1>2. s2 \in ChannelState
  BY <1>0, <1>1, CycleStepTypes
<1> HIDE DEF s2
<1>3. s3 \in ChannelState
  BY <1>0, <1>2, CycleStepTypes
<1> HIDE DEF s3
<1>4. s4 \in ChannelState
  BY <1>3, DecisionStepType
<1> HIDE DEF s4
<1>5. handle_send_miss_and_link_teardown(s4, send_ok, rx.status) \in ChannelState
  BY <1>0, <1>4, CycleStepTypes
<1>6. run_site_role_decision(s1, local, is_west) \in ChannelState
  BY <1>1, DecisionStepType
<1> QED BY <1>5, <1>6 DEF s1, s2, s3, s4, execute_with_link, execute_without_link

\* So do the other calls of the application.
LEMMA CallTypes ==
  ASSUME NEW s \in ChannelState, NEW frames \in SUBSET Frame, NEW ok \in BOOLEAN
  PROVE  /\ init_channel_and_negotiator(s) \in ChannelState
         /\ service_link(s, frames) \in ChannelState
         /\ sync_prepare(s, [faulted |-> s.local_faulted]) \in ChannelState
         /\ sync_sent(s, ok) \in ChannelState
         /\ on_takeover_confirm(s) \in ChannelState
         /\ note_lost_contact(s) \in ChannelState
<1>1. init_channel_and_negotiator(s) \in ChannelState
  BY DEF init_channel_and_negotiator, ChannelState
<1>2. service_link(s, frames) \in ChannelState
  <2> DEFINE t == [s EXCEPT !.cycle = s.app_cycle]
  <2>1. t \in ChannelState
    BY DEF ChannelState
  <2> HIDE DEF t
  <2>2. frames # {} => receive_frame(t, CHOOSE f \in frames : TRUE) \in ChannelState
    BY <2>1, ReceiveFrameType
  <2> QED BY <2>1, <2>2 DEF service_link, t
<1>3. sync_prepare(s, [faulted |-> s.local_faulted]) \in ChannelState
  BY DEF sync_prepare, take_local, ChannelState
<1>4. sync_sent(s, ok) \in ChannelState
  BY DEF sync_sent, ChannelState
<1>5. on_takeover_confirm(s) \in ChannelState
  BY DEF on_takeover_confirm, ChannelState
<1>6. note_lost_contact(s) \in ChannelState
  BY DEF note_lost_contact, ChannelState
<1> QED BY <1>1, <1>2, <1>3, <1>4, <1>5, <1>6

\* encode_frame() builds a frame.
LEMMA FrameType ==
  ASSUME NEW faulted \in BOOLEAN, NEW cycle \in Nat, NEW live \in BOOLEAN
  PROVE  encode_frame(faulted, cycle, live) \in Frame
BY DEF encode_frame, Frame

\* The history keeps its type.
LEMMA HistoryTypes ==
  ASSUME NEW h \in History, NEW f \in Frame
  PROVE  /\ OneCycleOlder(h) \in History
         /\ Heard(h, f) \in History
<1>1. \A a \in 0..AgeCap : Older(a) \in 0..AgeCap /\ Older(a) <= a + 1
  BY PairAssumption DEF Older
<1>2. OneCycleOlder(h) \in History
  BY <1>1 DEF OneCycleOlder, History
<1>3. Heard(h, f) \in History
  <2> DEFINE snap == IF f.valid THEN 0 ELSE h.snap
             again == h.renumbered /\ ~f.valid
  <2>1. Heard(h, f) = [h EXCEPT !.silent = 0, !.snap = snap, !.conf = AgeCap,
                                !.confirmed = FALSE, !.renumbered = again]
    BY DEF Heard, History
  <2>2. snap \in 0..AgeCap /\ again \in BOOLEAN /\ 0 \in 0..AgeCap /\ AgeCap \in 0..AgeCap
    BY PairAssumption DEF History, Frame
  <2> HIDE DEF snap, again
  <2> QED BY <2>1, <2>2 DEF History
<1> QED BY <1>2, <1>3

-----------------------------------------------------------------------------
(* Type correctness *)

\* rte_site_role_init() leaves a channel of the right type.
LEMMA InitChannelType == InitChannel \in ChannelState
BY DEF InitChannel, ChannelState

\* The empty history has the right type.
LEMMA NoHistoryType == NoHistory \in History
BY PairAssumption DEF NoHistory, History

\* The link delivers and stores frames only.
LEMMA LinkTypes ==
  ASSUME TypeOK, NEW c \in Chan, NEW f \in Frame, NEW emptied \in BOOLEAN,
         NEW delivered \in BOOLEAN, NEW got \in BOOLEAN
  PROVE  /\ Peer(c) \in Chan
         /\ Exchange(c, emptied, f, delivered) \in [Chan -> SUBSET Frame]
         /\ BeaconTo(c, got) \in [Chan -> Nat]
         /\ ReceiveOutcomes(c) \subseteq [status: ReceiveStatus, frame: Frame]
         /\ \A o \in SendOutcomes(c) : o.acked \in BOOLEAN /\ o.delivered \in BOOLEAN
<1>1. Peer(c) \in Chan
  BY DEF Peer, Chan
<1>2. Exchange(c, emptied, f, delivered) \in [Chan -> SUBSET Frame]
  BY <1>1 DEF Exchange, TypeOK
<1>3. BeaconTo(c, got) \in [Chan -> Nat]
  BY <1>1 DEF BeaconTo, TypeOK
<1>4. ReceiveOutcomes(c) \subseteq [status: ReceiveStatus, frame: Frame]
  <2>1. encode_frame(FALSE, 0, FALSE) \in Frame
    BY FrameType
  <2>2. inbox[c] \subseteq Frame
    BY DEF TypeOK
  <2>3. [status: {"OK"}, frame: inbox[c]] \subseteq [status: ReceiveStatus, frame: Frame]
    BY <2>2 DEF ReceiveStatus
  <2>4. /\ Nothing("TIMEOUT") \in [status: ReceiveStatus, frame: Frame]
        /\ Nothing("HARDWARE_FAULT") \in [status: ReceiveStatus, frame: Frame]
    BY <2>1 DEF Nothing, ReceiveStatus
  <2> QED BY <2>3, <2>4 DEF ReceiveOutcomes
<1>5. \A o \in SendOutcomes(c) : o.acked \in BOOLEAN /\ o.delivered \in BOOLEAN
  BY DEF SendOutcomes
<1> QED BY <1>1, <1>2, <1>3, <1>4, <1>5

\* The disturbance budgets stay natural numbers.
LEMMA DisturbTypes ==
  ASSUME TypeOK, NEW kind \in Kinds, Disturb(kind)
  PROVE  left' \in [Kinds -> Nat] /\ budget' \in Nat
BY DEF TypeOK, Disturb

\* A cycle over an open link keeps the type of everything it touches.
LEMMA LinkedTypes ==
  ASSUME TypeOK, NEW c \in Chan, NEW start \in ChannelState,
         start.app_cycle = rs[c].app_cycle, ExecuteLinked(c, start)
  PROVE  /\ rs' \in [Chan -> ChannelState]
         /\ inbox' \in [Chan -> SUBSET Frame]
         /\ beacon' \in [Chan -> Nat]
         /\ left' \in [Kinds -> Nat] /\ budget' \in Nat
         /\ hist' \in [Chan -> History]
<1> DEFINE cycle == NextCycle(rs[c].app_cycle)
<1>1. cycle \in Nat
  BY DEF NextCycle, TypeOK, ChannelState
<1>2. PICK local \in LocalFacts(c), o \in SendOutcomes(c), rx \in ReceiveOutcomes(c),
           heard \in BOOLEAN :
        LET next == execute_with_link(start, cycle, local, IsWest(c), o.acked, rx) IN
        /\ rs' = [rs EXCEPT ![c] = next]
        /\ inbox' = Exchange(c, rx.status = "OK" \/ ~next.link,
                             frame_of_cycle(start, cycle, local), o.delivered)
        /\ beacon' = BeaconTo(Peer(c), heard)
        /\ UseFault(c, local)
        /\ hist' = [hist EXCEPT ![c] = IF rx.status = "OK"
                                       THEN Heard(OneCycleOlder(@), rx.frame)
                                       ELSE OneCycleOlder(@)]
  BY DEF ExecuteLinked
<1> HIDE DEF cycle
<1>3. local \in Local /\ IsWest(c) \in BOOLEAN /\ start.online \in BOOLEAN
  BY DEF LocalFacts, IsWest, ChannelState
<1>4. rx \in [status: ReceiveStatus, frame: Frame] /\ rx.frame \in Frame
  BY LinkTypes, FrameType DEF ReceiveOutcomes
<1>5. o.acked \in BOOLEAN /\ o.delivered \in BOOLEAN
  BY DEF SendOutcomes
<1>6. execute_with_link(start, cycle, local, IsWest(c), o.acked, rx) \in ChannelState
  BY <1>1, <1>3, <1>4, <1>5, CycleTypes
<1>7. rs' \in [Chan -> ChannelState]
  BY <1>2, <1>6 DEF TypeOK
<1>8. frame_of_cycle(start, cycle, local) \in Frame
  BY <1>1, <1>3, FrameType DEF frame_of_cycle, Local
<1>9. inbox' \in [Chan -> SUBSET Frame]
  BY <1>2, <1>5, <1>8, LinkTypes
<1>10. beacon' \in [Chan -> Nat]
  BY <1>2, <1>8, LinkTypes
<1>11. left' \in [Kinds -> Nat] /\ budget' \in Nat
  BY <1>2, DisturbTypes DEF UseFault, Kinds, TypeOK
<1>12. hist' \in [Chan -> History]
  BY <1>2, <1>4, HistoryTypes DEF TypeOK
<1> QED BY <1>7, <1>9, <1>10, <1>11, <1>12

\* Every step keeps TypeOK: one case per action.
LEMMA TypeStep == TypeOK /\ [Next]_vars => TypeOK'
<1> SUFFICES ASSUME TypeOK, [Next]_vars
             PROVE  TypeOK'
  OBVIOUS
<1> USE DEF TypeOK
<1>1. CASE UNCHANGED vars
  BY <1>1 DEF vars
<1>2. ASSUME NEW c \in Chan, Boot(c)
      PROVE  TypeOK'
  <2>1. init_channel_and_negotiator(InitChannel) \in ChannelState
    BY InitChannelType DEF init_channel_and_negotiator, ChannelState
  <2>2. rs' \in [Chan -> ChannelState] /\ hist' \in [Chan -> History]
    BY <1>2, <2>1, NoHistoryType DEF Boot
  <2>3. PICK ts \in Stamps[c] : /\ startup_ts' = [startup_ts EXCEPT ![c] = ts]
                                /\ in_order' = (in_order /\ DrawnInOrder(c, ts))
    BY <1>2 DEF Boot
  <2>4. startup_ts' \in [Chan -> Nat] /\ in_order' \in BOOLEAN
    BY <2>3, PairAssumption
  <2> QED BY <1>2, <2>2, <2>4 DEF Boot
<1>3. ASSUME NEW c \in Chan, StartBeacon(c)
      PROVE  TypeOK'
  BY <1>3 DEF StartBeacon, BeaconTo, Peer, Chan
<1>4. ASSUME NEW c \in Chan, StartSettle(c)
      PROVE  TypeOK'
  <2> DEFINE won == decide_online(c, startup_ts[c], beacon[c])
  <2>1. won \in BOOLEAN
    BY DEF decide_online, IsWest
  <2>2. rs' = [rs EXCEPT ![c].online = won]
    BY <1>4 DEF StartSettle
  <2> HIDE DEF won
  <2>3. [rs[c] EXCEPT !.online = won] \in ChannelState
    BY <2>1 DEF ChannelState
  <2>4. rs' \in [Chan -> ChannelState]
    BY <2>2, <2>3
  <2> QED BY <1>4, <2>4 DEF StartSettle
<1>5. ASSUME NEW c \in Chan, Stopped(c)
      PROVE  /\ proc' \in [Chan -> {"down", "starting", "running"}]
             /\ rs' \in [Chan -> ChannelState]
             /\ startup_ts' \in [Chan -> Nat] /\ beacon' \in [Chan -> Nat]
             /\ boots' \in Nat /\ left' \in [Kinds -> Nat] /\ budget' \in Nat
             /\ stable' \in BOOLEAN /\ turn' \in Chan /\ in_order' \in BOOLEAN
             /\ hist' \in [Chan -> History]
  BY <1>5, InitChannelType, NoHistoryType, DisturbTypes DEF Stopped, Kinds
<1>6. ASSUME NEW c \in Chan, Crash(c)
      PROVE  TypeOK'
  BY <1>5, <1>6 DEF Crash
<1>7. ASSUME NEW c \in Chan, FlushFaulted(c)
      PROVE  TypeOK'
  <2>1. encode_frame(TRUE, 0, FALSE) \in Frame
    BY FrameType
  <2>2. inbox' \in [Chan -> SUBSET Frame]
    <3>1. PICK o \in SendOutcomes(c) :
            inbox' = Exchange(c, TRUE, encode_frame(TRUE, 0, FALSE),
                              o.delivered /\ rs[c].link)
      BY <1>7 DEF FlushFaulted
    <3>2. (o.delivered /\ rs[c].link) \in BOOLEAN
      OBVIOUS
    <3> QED BY <2>1, <3>1, <3>2, LinkTypes
  <2> QED BY <1>5, <1>7, <2>2 DEF FlushFaulted
<1>8. ASSUME NEW c \in Chan, Execute(c)
      PROVE  TypeOK'
  BY <1>8, LinkedTypes DEF Execute, Peer, Chan
<1>9. ASSUME NEW c \in Chan, ExecuteReconnect(c)
      PROVE  TypeOK'
  <2>1. /\ init_channel_and_negotiator(rs[c]) \in ChannelState
        /\ init_channel_and_negotiator(rs[c]).app_cycle = rs[c].app_cycle
    <3>1. rs[c] \in ChannelState
      OBVIOUS
    <3> QED BY <3>1 DEF init_channel_and_negotiator, ChannelState
  <2> QED BY <1>9, <2>1, LinkedTypes DEF ExecuteReconnect, Peer, Chan
<1>10. ASSUME NEW c \in Chan, ExecuteNoLink(c)
       PROVE  TypeOK'
  <2> DEFINE cycle == NextCycle(rs[c].app_cycle)
  <2>1. cycle \in Nat
    BY DEF NextCycle, ChannelState
  <2>2. PICK local \in LocalFacts(c) :
          /\ rs' = [rs EXCEPT ![c] = execute_without_link(rs[c], cycle, local, IsWest(c))]
          /\ UseFault(c, local)
    BY <1>10 DEF ExecuteNoLink
  <2> HIDE DEF cycle
  <2>3. execute_without_link(rs[c], cycle, local, IsWest(c)) \in ChannelState
    <3>1. local \in Local /\ IsWest(c) \in BOOLEAN /\ rs[c] \in ChannelState
      BY DEF LocalFacts, IsWest
    <3>2. [status |-> "OK", frame |-> encode_frame(FALSE, 0, FALSE)]
            \in [status: ReceiveStatus, frame: Frame]
      BY FrameType DEF ReceiveStatus
    <3> QED BY <2>1, <3>1, <3>2, CycleTypes
  <2>4. rs' \in [Chan -> ChannelState]
    BY <2>2, <2>3
  <2>5. left' \in [Kinds -> Nat] /\ budget' \in Nat
    BY <2>2, DisturbTypes DEF UseFault, Kinds
  <2>6. hist' \in [Chan -> History]
    <3>1. OneCycleOlder(hist[c]) \in History
      BY HistoryTypes, FrameType
    <3> QED BY <1>10, <3>1 DEF ExecuteNoLink
  <2> QED BY <1>10, <2>4, <2>5, <2>6 DEF ExecuteNoLink, Peer, Chan
<1>11. ASSUME NEW c \in Chan, ServiceLink(c)
       PROVE  TypeOK'
  <2>1. PICK frames \in {{}, inbox[c]} :
          /\ rs' = [rs EXCEPT ![c] = service_link(@, frames)]
          /\ inbox' = [inbox EXCEPT ![c] = @ \ frames]
          /\ hist' = [hist EXCEPT ![c] = IF frames = {} THEN @
                                         ELSE Heard(@, CHOOSE f \in frames : TRUE)]
    BY <1>11 DEF ServiceLink
  <2>2. frames \in SUBSET Frame
    BY <2>1
  <2>3. rs' \in [Chan -> ChannelState]
    BY <2>1, <2>2, CallTypes
  <2>4. hist' \in [Chan -> History]
    BY <2>1, <2>2, HistoryTypes
  <2> QED BY <1>11, <2>1, <2>3, <2>4 DEF ServiceLink
<1>12. ASSUME NEW c \in Chan, SyncStandby(c)
       PROVE  TypeOK'
  <2> DEFINE s == sync_prepare(rs[c], [faulted |-> rs[c].local_faulted])
  <2>1. s \in ChannelState
    BY CallTypes
  <2>2. left' \in [Kinds -> Nat] /\ budget' \in Nat
    BY <1>12, DisturbTypes DEF SyncStandby, Kinds
  <2>3. \/ /\ rs' = [rs EXCEPT ![c] = s]
           /\ inbox' = inbox
        \/ \E o \in SendOutcomes(c) :
             /\ rs' = [rs EXCEPT ![c] = sync_sent(s, o.acked)]
             /\ inbox' = Exchange(c, FALSE,
                           encode_frame(s.local_faulted, s.cycle, s.online), o.delivered)
    BY <1>12 DEF SyncStandby
  <2> HIDE DEF s
  <2>4. encode_frame(s.local_faulted, s.cycle, s.online) \in Frame
    BY <2>1, FrameType DEF ChannelState
  <2>5. \A o \in SendOutcomes(c) : sync_sent(s, o.acked) \in ChannelState
    BY <2>1, CallTypes DEF SendOutcomes
  <2>6. rs' \in [Chan -> ChannelState] /\ inbox' \in [Chan -> SUBSET Frame]
    BY <2>1, <2>3, <2>4, <2>5 DEF Exchange, Peer, Chan
  <2> QED BY <1>12, <2>2, <2>6 DEF SyncStandby
<1>13. ASSUME NEW c \in Chan, TakeoverConfirm(c)
       PROVE  TypeOK'
  <2>1. left' \in [Kinds -> Nat] /\ budget' \in Nat
    BY <1>13, DisturbTypes DEF TakeoverConfirm, Kinds
  <2>2. on_takeover_confirm(rs[c]) \in ChannelState
    BY CallTypes
  <2>3. [hist[c] EXCEPT !.conf = 0, !.confirmed = TRUE] \in History
    <3>1. hist[c] \in History /\ 0 \in 0..AgeCap /\ AgeCap \in 0..AgeCap
      BY PairAssumption
    <3> QED BY <3>1 DEF History
  <2>4. rs' \in [Chan -> ChannelState] /\ hist' \in [Chan -> History]
    BY <1>13, <2>2, <2>3 DEF TakeoverConfirm
  <2> QED BY <1>13, <2>1, <2>4 DEF TakeoverConfirm
<1>14. ASSUME NEW c \in Chan, Renumber(c)
       PROVE  TypeOK'
  <2>1. left' \in [Kinds -> Nat] /\ budget' \in Nat
    BY <1>14, DisturbTypes DEF Renumber, Kinds
  <2>2. \A n \in Nat : [rs[c] EXCEPT !.app_cycle = n] \in ChannelState
    BY DEF ChannelState
  <2>3. [hist[c] EXCEPT !.renumbered = TRUE, !.conf = AgeCap] \in History
    <3>1. hist[c] \in History /\ 0 \in 0..AgeCap /\ AgeCap \in 0..AgeCap
      BY PairAssumption
    <3> QED BY <3>1 DEF History
  <2>4. rs' \in [Chan -> ChannelState] /\ hist' \in [Chan -> History]
    BY <1>14, <2>2, <2>3 DEF Renumber
  <2> QED BY <1>14, <2>1, <2>4 DEF Renumber
<1>15. ASSUME NEW c \in Chan, NoteLostContact(c)
       PROVE  TypeOK'
  <2>1. left' \in [Kinds -> Nat] /\ budget' \in Nat
    BY <1>15, DisturbTypes DEF NoteLostContact, Kinds
  <2>2. note_lost_contact(rs[c]) \in ChannelState
    BY CallTypes
  <2> QED BY <1>15, <2>1, <2>2 DEF NoteLostContact
<1> QED BY <1>1, <1>2, <1>3, <1>4, <1>6, <1>7, <1>8, <1>9, <1>10, <1>11,
           <1>12, <1>13, <1>14, <1>15 DEF Next

\* The type invariant holds in every reachable state: every call leaves each
\* channel in a state its C structure can hold, whatever frame it received.
THEOREM TypeCorrect == Spec => []TypeOK
<1>1. Init => TypeOK
  <2>1. Init => rs \in [Chan -> ChannelState] /\ hist \in [Chan -> History]
    BY InitChannelType, NoHistoryType DEF Init
  <2>2. Init => left \in [Kinds -> Nat] /\ budget \in Nat
    BY PairAssumption DEF Init
  <2>3. "WEST" \in Chan
    BY DEF Chan
  <2>4. Init => /\ proc \in [Chan -> {"down", "starting", "running"}]
                /\ inbox \in [Chan -> SUBSET Frame]
    BY DEF Init
  <2>5. Init => startup_ts \in [Chan -> Nat] /\ beacon \in [Chan -> Nat] /\ boots \in Nat
    BY DEF Init
  <2>6. Init => stable \in BOOLEAN /\ turn \in Chan /\ in_order \in BOOLEAN
    BY <2>3 DEF Init
  <2> QED BY <2>1, <2>2, <2>4, <2>5, <2>6 DEF TypeOK
<1>2. TypeOK /\ [Next]_vars => TypeOK'
  BY TypeStep
<1> QED BY <1>1, <1>2, PTL DEF Spec

-----------------------------------------------------------------------------
(* What the steps of a cycle do to the stamps *)

\* Between the start of a cycle and its decision the tie-break count is still
\* that of the previous cycle.
StampsTellNow(s, h) ==
  ~h.renumbered =>
    /\ ConfirmationAge(s, h)
    /\ \/ h.silent + s.peer_last_rx_cycle <= s.app_cycle
       \/ s.peer_last_rx_cycle = 0 /\ s.both_standby_cycles < s.app_cycle
    /\ SnapshotAge(s, h)

\* A cycle makes what happened at most one cycle older.
LEMMA Ageing ==
  ASSUME NEW h \in History
  PROVE  /\ OneCycleOlder(h).silent <= h.silent + 1
         /\ OneCycleOlder(h).snap <= h.snap + 1
         /\ OneCycleOlder(h).conf <= h.conf + 1
         /\ OneCycleOlder(h).confirmed = h.confirmed
         /\ OneCycleOlder(h).renumbered = h.renumbered
<1>1. \A a \in 0..AgeCap : Older(a) <= a + 1
  BY PairAssumption DEF Older
<1> QED BY <1>1 DEF OneCycleOlder, History

\* The start of a cycle: the counter moves on by one and the ages with it.
LEMMA BeginStep ==
  ASSUME NEW s \in ChannelState, NEW h \in History, NEW local \in Local,
         NEW is_west \in BOOLEAN,
         ConfirmationHeld(s, h, is_west), StampsTell(s, h)
  PROVE  LET t == begin_cycle(s, s.app_cycle + 1, local) IN
         /\ t.cycle = t.app_cycle /\ t.online = s.online
         /\ ConfirmationHeld(t, OneCycleOlder(h), is_west)
         /\ StampsTellNow(t, OneCycleOlder(h))
<1> DEFINE t == begin_cycle(s, s.app_cycle + 1, local)
           g == OneCycleOlder(h)
<1>1. /\ t.app_cycle = s.app_cycle + 1 /\ t.cycle = s.app_cycle + 1
      /\ t.online = s.online /\ t.peer_faulted = s.peer_faulted
      /\ t.takeover_confirmed = s.takeover_confirmed
      /\ t.takeover_confirm_cycle = s.takeover_confirm_cycle
      /\ t.peer_last_rx_cycle = s.peer_last_rx_cycle
      /\ t.both_standby_cycles = s.both_standby_cycles
      /\ t.peer_snapshot_valid = s.peer_snapshot_valid
      /\ t.standby_rx_cycle = s.standby_rx_cycle
  BY DEF begin_cycle, take_local, ChannelState
<1>2. g \in History
  BY HistoryTypes, FrameType
<1>3. /\ g.silent <= h.silent + 1 /\ g.snap <= h.snap + 1 /\ g.conf <= h.conf + 1
      /\ g.confirmed = h.confirmed /\ g.renumbered = h.renumbered
  BY Ageing
<1> HIDE DEF t, g
<1>4. ConfirmationHeld(t, g, is_west)
  BY <1>1, <1>3 DEF ConfirmationHeld
<1>5. ASSUME ~h.renumbered
      PROVE  ConfirmationAge(t, g) /\ SnapshotAge(t, g)
  BY <1>1, <1>2, <1>3, <1>5
     DEF StampsTell, ConfirmationAge, SnapshotAge, ChannelState, History
<1>6. ASSUME ~h.renumbered
      PROVE  \/ g.silent + t.peer_last_rx_cycle <= t.app_cycle
             \/ t.peer_last_rx_cycle = 0 /\ t.both_standby_cycles < t.app_cycle
  BY <1>1, <1>2, <1>3, <1>6 DEF StampsTell, SilenceAge, ChannelState, History
<1>7. StampsTellNow(t, g)
  BY <1>3, <1>5, <1>6 DEF StampsTellNow
<1> QED BY <1>1, <1>4, <1>7 DEF t, g

\* A frame sets every stamp it concerns to the running cycle and voids a
\* confirmation, whatever the stamps were before.
LEMMA ReceiveStep ==
  ASSUME NEW s \in ChannelState, NEW h \in History, NEW f \in Frame,
         NEW is_west \in BOOLEAN, s.cycle = s.app_cycle,
         ~h.renumbered => SnapshotAge(s, h)
  PROVE  LET t == receive_frame(s, f) IN
         /\ t.cycle = t.app_cycle /\ t.online = s.online /\ t.link = s.link
         /\ ConfirmationHeld(t, Heard(h, f), is_west)
         /\ StampsTellNow(t, Heard(h, f)) /\ StampsTell(t, Heard(h, f))
<1> DEFINE t == receive_frame(s, f)
           g == Heard(h, f)
<1>1. /\ t.app_cycle = s.app_cycle /\ t.cycle = s.cycle
      /\ t.online = s.online /\ t.link = s.link
      /\ t.takeover_confirmed = FALSE
      /\ t.peer_last_rx_cycle = s.cycle
      /\ t.peer_snapshot_valid = (f.valid \/ s.peer_snapshot_valid)
      /\ t.standby_rx_cycle = IF f.valid THEN s.cycle ELSE s.standby_rx_cycle
  BY DEF receive_frame, ChannelState
<1>2. /\ g.silent = 0 /\ g.snap = IF f.valid THEN 0 ELSE h.snap
      /\ g.renumbered = (h.renumbered /\ ~f.valid)
  BY DEF Heard, History
<1> HIDE DEF t, g
<1>3. ConfirmationHeld(t, g, is_west) /\ ConfirmationAge(t, g)
  BY <1>1 DEF ConfirmationHeld, ConfirmationAge
<1>4. g.silent + t.peer_last_rx_cycle <= t.app_cycle
  BY <1>1, <1>2 DEF ChannelState
<1>5. ~g.renumbered => SnapshotAge(t, g)
  <2>1. CASE f.valid
    BY <1>1, <1>2, <2>1 DEF SnapshotAge, ChannelState
  <2>2. CASE ~f.valid
    BY <1>1, <1>2, <2>2 DEF SnapshotAge, ChannelState
  <2> QED BY <2>1, <2>2
<1> QED BY <1>1, <1>3, <1>4, <1>5 DEF t, g, StampsTell, StampsTellNow, SilenceAge

\* update_standby_warmth() leaves no stale snapshot behind.
LEMMA WarmthStep ==
  ASSUME NEW s \in ChannelState, NEW h \in History, NEW is_west \in BOOLEAN,
         s.cycle = s.app_cycle, ConfirmationHeld(s, h, is_west), StampsTellNow(s, h)
  PROVE  LET t == update_standby_warmth(s) IN
         /\ t.cycle = t.app_cycle /\ t.online = s.online
         /\ ConfirmationHeld(t, h, is_west)
         /\ StampsTellNow(t, h)
         /\ STANDBY_SYNC /\ ~t.online /\ t.peer_snapshot_valid =>
              Within(t.cycle, t.standby_rx_cycle, STANDBY_DATA_TIMEOUT_CYCLES)
<1> DEFINE t == update_standby_warmth(s)
           stale == standby_data_stale(STANDBY_SYNC, s.online, s.peer_snapshot_valid,
                                       s.cycle, s.standby_rx_cycle)
<1>1. /\ t.app_cycle = s.app_cycle /\ t.cycle = s.cycle
      /\ t.online = s.online /\ t.peer_faulted = s.peer_faulted
      /\ t.takeover_confirmed = s.takeover_confirmed
      /\ t.takeover_confirm_cycle = s.takeover_confirm_cycle
      /\ t.peer_last_rx_cycle = s.peer_last_rx_cycle
      /\ t.both_standby_cycles = s.both_standby_cycles
      /\ t.standby_rx_cycle = s.standby_rx_cycle
      /\ t.peer_snapshot_valid = (s.peer_snapshot_valid /\ ~stale)
  BY DEF update_standby_warmth, ChannelState
<1>2. ~stale /\ s.peer_snapshot_valid /\ STANDBY_SYNC /\ ~s.online =>
        Within(s.cycle, s.standby_rx_cycle, STANDBY_DATA_TIMEOUT_CYCLES)
  BY DEF standby_data_stale
<1> HIDE DEF t, stale
<1>3. ConfirmationHeld(t, h, is_west)
  BY <1>1 DEF ConfirmationHeld
<1>4. StampsTellNow(t, h)
  BY <1>1 DEF StampsTellNow, ConfirmationAge, SnapshotAge
<1> QED BY <1>1, <1>2, <1>3, <1>4 DEF t

\* The decision of a cycle: it keeps the invariant, a promotion is justified
\* and a healthy channel yields only to a counterpart that answers.
LEMMA DecisionStep ==
  ASSUME NEW s \in ChannelState, NEW h \in History, NEW is_west \in BOOLEAN,
         NEW local \in Local, ~local.sibling_online,
         s.cycle = s.app_cycle, ConfirmationHeld(s, h, is_west), StampsTellNow(s, h)
  PROVE  LET t == run_site_role_decision(s, local, is_west) IN
         /\ ConfirmationHeld(t, h, is_west)
         /\ StampsTell(t, h)
         /\ t.cycle = s.cycle /\ t.peer_faulted = s.peer_faulted
         /\ t.peer_snapshot_valid = s.peer_snapshot_valid
         /\ t.local_faulted = s.local_faulted
         /\ ~s.online /\ t.online =>
              \/ h.silent <= ANSWER_WINDOW
              \/ s.peer_faulted
              \/ h.confirmed /\ h.conf <= TAKEOVER_CONFIRM_VALID_CYCLES
              \/ h.renumbered
         /\ s.online /\ ~t.online /\ ~s.local_faulted =>
              \/ h.silent <= ANSWER_WINDOW
              \/ s.cycle <= ANSWER_WINDOW
              \/ h.renumbered
<1> DEFINE in == build_decision_input(s, local, is_west)
           d == decide(in)
           u == [s EXCEPT !.both_standby_cycles = d.both_standby_cycles]
           t == run_site_role_decision(s, local, is_west)
<1>1. in \in Input /\ d \in Decision
  BY DecisionInputType, DecideType
<1>2. /\ in.is_online = s.online /\ in.own_faulted = s.local_faulted
      /\ in.cycle = s.cycle /\ in.peer_last_rx_cycle = s.peer_last_rx_cycle
      /\ in.peer_faulted = s.peer_faulted /\ in.sibling_online = local.sibling_online
      /\ in.takeover_confirmed = s.takeover_confirmed
      /\ in.takeover_confirm_cycle = s.takeover_confirm_cycle
      /\ in.both_standby_cycles = s.both_standby_cycles
  BY DEF build_decision_input
<1>3. /\ d.both_standby_cycles <= s.both_standby_cycles + 1
      /\ d.action \in {"PROMOTE", "DEMOTE", "RENEGOTIATE"} => d.both_standby_cycles = 0
  BY <1>1, <1>2, CountRule
<1>4. /\ d.action = "PROMOTE" => t = promote_to_online(u)
      /\ d.action = "DEMOTE" => t = demote_to_standby(u)
      /\ d.action = "RENEGOTIATE" => t = renegotiate_from_deadlock(u, is_west)
      /\ d.action \notin {"PROMOTE", "DEMOTE", "RENEGOTIATE"} => t = u
  BY DEF run_site_role_decision, apply_decision
<1>5. d.action = "PROMOTE" =>
        /\ ~s.online
        /\ \/ s.peer_faulted
           \/ DispatcherConfirmed(in)
           \/ BothStandby(in) /\ s.both_standby_cycles + 1 >= BOTH_STANDBY_CYCLES
  BY <1>1, <1>2, PromoteRule
<1>6. d.action = "DEMOTE" => ~s.peer_faulted /\ (s.local_faulted \/ DualOnline(in))
  BY <1>1, <1>2, DemoteRule
<1>7. d.action = "RENEGOTIATE" => s.local_faulted /\ s.peer_faulted
  BY <1>1, <1>2, RenegotiateRule
<1>8. d.both_standby_cycles \in Nat
  BY <1>1 DEF Decision
<1>9. peer_answering(in) /\ ~h.renumbered =>
        \/ h.silent <= ANSWER_WINDOW
        \/ s.cycle <= ANSWER_WINDOW /\ s.both_standby_cycles < s.cycle
  BY <1>2, PolicyAssumption
     DEF peer_answering, Within, StampsTellNow, ChannelState, History
<1>10. DispatcherConfirmed(in) /\ ~h.renumbered =>
         h.confirmed /\ h.conf <= TAKEOVER_CONFIRM_VALID_CYCLES
  BY <1>2, PolicyAssumption
     DEF DispatcherConfirmed, takeover_allowed, Within, StampsTellNow,
         ConfirmationHeld, ConfirmationAge, ChannelState, History
<1> HIDE DEF in, d, t
<1>11. CASE d.action = "PROMOTE"
  <2>1. /\ t.online /\ ~t.takeover_confirmed
        /\ t.cycle = s.cycle /\ t.peer_faulted = s.peer_faulted
        /\ t.peer_snapshot_valid = s.peer_snapshot_valid
        /\ t.local_faulted = s.local_faulted
        /\ t.both_standby_cycles = 0
    <3> DEFINE v == [u EXCEPT !.online = TRUE, !.peer_unresponsive = FALSE,
                              !.takeover_confirmed = FALSE]
    <3>0. v \in ChannelState
      BY <1>8 DEF ChannelState
    <3>1. /\ v.online /\ ~v.takeover_confirmed
          /\ v.cycle = s.cycle /\ v.peer_faulted = s.peer_faulted
          /\ v.peer_snapshot_valid = s.peer_snapshot_valid
          /\ v.local_faulted = s.local_faulted
          /\ v.both_standby_cycles = 0
      BY <1>3, <1>11 DEF ChannelState
    <3>2. t = report_change(v, TRUE)
      BY <1>4, <1>11 DEF promote_to_online
    <3> HIDE DEF v
    <3> QED BY <3>0, <3>1, <3>2 DEF report_change, ChannelState
  <2>2. \/ t.app_cycle \in Nat /\ t.peer_last_rx_cycle = 0 /\ t.standby_rx_cycle = 0
        \/ /\ t.app_cycle = s.app_cycle /\ ~t.peer_snapshot_valid
           /\ t.peer_last_rx_cycle = s.peer_last_rx_cycle
    BY <1>3, <1>4, <1>11 DEF promote_to_online, report_change, ChannelState
  <2>3. ConfirmationHeld(t, h, is_west) /\ ConfirmationAge(t, h)
    BY <2>1 DEF ConfirmationHeld, ConfirmationAge
  <2>4. ~h.renumbered => SilenceAge(t, h) /\ SnapshotAge(t, h)
    BY <2>1, <2>2 DEF StampsTellNow, SilenceAge, SnapshotAge, ChannelState, History
  <2>5. \/ h.silent <= ANSWER_WINDOW
        \/ s.peer_faulted
        \/ h.confirmed /\ h.conf <= TAKEOVER_CONFIRM_VALID_CYCLES
        \/ h.renumbered
    <3>1. CASE DispatcherConfirmed(in)
      BY <1>10, <3>1
    <3>2. CASE BothStandby(in) /\ s.both_standby_cycles + 1 >= BOTH_STANDBY_CYCLES
      BY <1>9, <3>2, PolicyAssumption DEF BothStandby, ChannelState
    <3> QED BY <1>5, <1>11, <3>1, <3>2
  <2> QED BY <1>5, <1>11, <2>1, <2>3, <2>4, <2>5 DEF StampsTell, t
<1>12. CASE d.action = "DEMOTE"
  <2>1. /\ ~t.online /\ t.takeover_confirmed = s.takeover_confirmed
        /\ t.cycle = s.cycle /\ t.app_cycle = s.app_cycle
        /\ t.takeover_confirm_cycle = s.takeover_confirm_cycle
        /\ t.peer_faulted = s.peer_faulted /\ t.local_faulted = s.local_faulted
        /\ t.peer_snapshot_valid = s.peer_snapshot_valid
        /\ t.standby_rx_cycle = s.standby_rx_cycle
        /\ t.peer_last_rx_cycle = s.peer_last_rx_cycle
        /\ t.both_standby_cycles = 0
    BY <1>3, <1>4, <1>12 DEF demote_to_standby, report_change, ChannelState
  <2>2. ConfirmationHeld(t, h, is_west)
    BY <2>1 DEF ConfirmationHeld
  <2>3. ~h.renumbered => ConfirmationAge(t, h)
    BY <1>6, <1>12, <2>1 DEF ConfirmationHeld, ConfirmationAge, StampsTellNow
  <2>4. ~h.renumbered => SilenceAge(t, h) /\ SnapshotAge(t, h)
    BY <2>1 DEF StampsTellNow, SilenceAge, SnapshotAge, ChannelState, History
  <2>5. DualOnline(in) => h.silent <= ANSWER_WINDOW \/ s.cycle <= ANSWER_WINDOW \/ h.renumbered
    BY <1>9 DEF DualOnline
  <2> QED BY <1>6, <1>12, <2>1, <2>2, <2>3, <2>4, <2>5 DEF StampsTell, t
<1>13. CASE d.action = "RENEGOTIATE"
  <2>1. /\ t.online = is_west /\ t.takeover_confirmed = s.takeover_confirmed
        /\ t.takeover_confirm_cycle = s.takeover_confirm_cycle
        /\ t.cycle = s.cycle
        /\ t.peer_faulted = s.peer_faulted /\ t.local_faulted = s.local_faulted
        /\ t.peer_snapshot_valid = s.peer_snapshot_valid
        /\ t.both_standby_cycles = 0
    BY <1>3, <1>4, <1>13 DEF renegotiate_from_deadlock, report_change, ChannelState
  <2>2. \/ /\ is_west
           /\ t.app_cycle \in Nat /\ t.peer_last_rx_cycle = 0 /\ t.standby_rx_cycle = 0
        \/ /\ t.app_cycle = s.app_cycle
           /\ t.peer_last_rx_cycle = s.peer_last_rx_cycle
           /\ t.standby_rx_cycle = s.standby_rx_cycle
    BY <1>3, <1>4, <1>13 DEF renegotiate_from_deadlock, report_change, ChannelState
  <2>3. ConfirmationHeld(t, h, is_west)
    BY <1>7, <1>13, <2>1 DEF ConfirmationHeld
  <2>4. ~h.renumbered => ConfirmationAge(t, h)
    BY <2>1, <2>2 DEF ConfirmationHeld, ConfirmationAge, StampsTellNow
  <2>5. ~h.renumbered => SilenceAge(t, h) /\ SnapshotAge(t, h)
    BY <2>1, <2>2 DEF StampsTellNow, SilenceAge, SnapshotAge, ChannelState, History
  <2> QED BY <1>7, <1>13, <2>1, <2>3, <2>4, <2>5 DEF StampsTell, t
<1>14. CASE d.action \notin {"PROMOTE", "DEMOTE", "RENEGOTIATE"}
  <2>1. /\ t.online = s.online /\ t.takeover_confirmed = s.takeover_confirmed
        /\ t.takeover_confirm_cycle = s.takeover_confirm_cycle
        /\ t.cycle = s.cycle /\ t.app_cycle = s.app_cycle
        /\ t.peer_faulted = s.peer_faulted /\ t.local_faulted = s.local_faulted
        /\ t.peer_snapshot_valid = s.peer_snapshot_valid
        /\ t.standby_rx_cycle = s.standby_rx_cycle
        /\ t.peer_last_rx_cycle = s.peer_last_rx_cycle
        /\ t.both_standby_cycles = d.both_standby_cycles
    BY <1>4, <1>14 DEF ChannelState
  <2>2. ConfirmationHeld(t, h, is_west)
    BY <2>1 DEF ConfirmationHeld
  <2>3. ~h.renumbered => ConfirmationAge(t, h) /\ SnapshotAge(t, h)
    BY <2>1 DEF StampsTellNow, ConfirmationAge, SnapshotAge
  <2>4. ~h.renumbered => SilenceAge(t, h)
    BY <1>3, <1>8, <2>1 DEF StampsTellNow, SilenceAge, ChannelState, History
  <2> QED BY <2>1, <2>2, <2>3, <2>4 DEF StampsTell, t
<1> QED BY <1>11, <1>12, <1>13, <1>14

\* Closing the link touches neither the role nor a stamp.
LEMMA TeardownStep ==
  ASSUME NEW s \in ChannelState, NEW h \in History, NEW is_west \in BOOLEAN,
         NEW send_ok \in BOOLEAN, NEW status \in ReceiveStatus,
         ConfirmationHeld(s, h, is_west), StampsTell(s, h)
  PROVE  LET t == handle_send_miss_and_link_teardown(s, send_ok, status) IN
         /\ ConfirmationHeld(t, h, is_west) /\ StampsTell(t, h)
         /\ t.online = s.online /\ t.cycle = s.cycle
         /\ t.peer_faulted = s.peer_faulted /\ t.local_faulted = s.local_faulted
         /\ t.peer_snapshot_valid = s.peer_snapshot_valid
<1> DEFINE t == handle_send_miss_and_link_teardown(s, send_ok, status)
<1>1. /\ t.online = s.online /\ t.cycle = s.cycle /\ t.app_cycle = s.app_cycle
      /\ t.peer_faulted = s.peer_faulted /\ t.local_faulted = s.local_faulted
      /\ t.peer_snapshot_valid = s.peer_snapshot_valid
      /\ t.takeover_confirmed = s.takeover_confirmed
      /\ t.takeover_confirm_cycle = s.takeover_confirm_cycle
      /\ t.peer_last_rx_cycle = s.peer_last_rx_cycle
      /\ t.both_standby_cycles = s.both_standby_cycles
      /\ t.standby_rx_cycle = s.standby_rx_cycle
  BY DEF handle_send_miss_and_link_teardown, close_link, ChannelState
<1> HIDE DEF t
<1>2. ConfirmationHeld(t, h, is_west)
  BY <1>1 DEF ConfirmationHeld
<1>3. StampsTell(t, h)
  BY <1>1 DEF StampsTell, ConfirmationAge, SilenceAge, SnapshotAge
<1> QED BY <1>1, <1>2, <1>3 DEF t

-----------------------------------------------------------------------------
(* What a cycle may do to the role of a channel *)

\* From s to t, with the history h of t.
RoleStep(s, t, h) ==
  /\ ~s.online /\ t.online =>
       \/ h.silent <= ANSWER_WINDOW
       \/ t.peer_faulted
       \/ h.confirmed /\ h.conf <= TAKEOVER_CONFIRM_VALID_CYCLES
       \/ h.renumbered
  /\ s.online /\ ~t.online /\ ~t.local_faulted =>
       \/ h.silent <= ANSWER_WINDOW
       \/ t.cycle <= ANSWER_WINDOW
       \/ h.renumbered

\* What LinkedTakeoverIsFresh says of a step of one channel.
FreshStep(s, t, h) ==
  STANDBY_SYNC /\ ~s.online /\ t.online /\ t.peer_snapshot_valid =>
    \/ h.snap <= STANDBY_DATA_TIMEOUT_CYCLES
    \/ t.cycle <= STANDBY_DATA_TIMEOUT_CYCLES
    \/ h.renumbered

\* A cycle whose reconnect failed keeps the invariant; its role change is
\* justified.
LEMMA UnlinkedCycle ==
  ASSUME NEW s \in ChannelState, NEW h \in History, NEW is_west \in BOOLEAN,
         NEW local \in Local, ~local.sibling_online,
         ConfirmationHeld(s, h, is_west), StampsTell(s, h)
  PROVE  LET t == execute_without_link(s, s.app_cycle + 1, local, is_west)
             g == OneCycleOlder(h)
         IN  ConfirmationHeld(t, g, is_west) /\ StampsTell(t, g) /\ RoleStep(s, t, g)
<1> DEFINE s1 == begin_cycle(s, s.app_cycle + 1, local)
           g == OneCycleOlder(h)
           t == run_site_role_decision(s1, local, is_west)
<1>1. g \in History
  BY HistoryTypes, FrameType
<1>2. s1 \in ChannelState
  <2>1. s.app_cycle + 1 \in Nat
    BY DEF ChannelState
  <2> QED BY <2>1, BeginCycleType
<1>3. /\ s1.cycle = s1.app_cycle /\ s1.online = s.online
      /\ ConfirmationHeld(s1, g, is_west) /\ StampsTellNow(s1, g)
  BY BeginStep
<1> HIDE DEF s1, g
<1>4. /\ ConfirmationHeld(t, g, is_west) /\ StampsTell(t, g)
      /\ RoleStep(s, t, g)
  BY <1>1, <1>2, <1>3, DecisionStep DEF RoleStep
<1> QED BY <1>4 DEF s1, g, t, execute_without_link

\* A cycle over an open link keeps the invariant; its role change is justified
\* and takes over no stale snapshot.
LEMMA LinkedCycle ==
  ASSUME NEW s \in ChannelState, NEW h \in History, NEW is_west \in BOOLEAN,
         NEW local \in Local, ~local.sibling_online, NEW send_ok \in BOOLEAN,
         NEW rx \in [status: ReceiveStatus, frame: Frame],
         ConfirmationHeld(s, h, is_west), StampsTell(s, h)
  PROVE  LET t == execute_with_link(s, s.app_cycle + 1, local, is_west, send_ok, rx)
             g == IF rx.status = "OK" THEN Heard(OneCycleOlder(h), rx.frame)
                                      ELSE OneCycleOlder(h)
         IN  /\ ConfirmationHeld(t, g, is_west) /\ StampsTell(t, g)
             /\ RoleStep(s, t, g) /\ FreshStep(s, t, g)
<1> DEFINE h1 == OneCycleOlder(h)
           g == IF rx.status = "OK" THEN Heard(h1, rx.frame) ELSE h1
           s1 == begin_cycle(s, s.app_cycle + 1, local)
           s2 == IF rx.status = "OK" THEN receive_frame(s1, rx.frame) ELSE s1
           s3 == update_standby_warmth(s2)
           s4 == run_site_role_decision(s3, local, is_west)
           t == handle_send_miss_and_link_teardown(s4, send_ok, rx.status)
<1>0. rx.status \in ReceiveStatus /\ rx.frame \in Frame
  OBVIOUS
<1>1. h1 \in History /\ g \in History
  BY <1>0, HistoryTypes
<1>2. s1 \in ChannelState
  <2>1. s.app_cycle + 1 \in Nat
    BY DEF ChannelState
  <2> QED BY <2>1, BeginCycleType
<1>3. /\ s1.cycle = s1.app_cycle /\ s1.online = s.online
      /\ ConfirmationHeld(s1, h1, is_west) /\ StampsTellNow(s1, h1)
  BY BeginStep
<1> HIDE DEF s1, h1
<1>4. s2 \in ChannelState
  BY <1>0, <1>2, ReceiveFrameType
<1>5. /\ s2.cycle = s2.app_cycle /\ s2.online = s.online
      /\ ConfirmationHeld(s2, g, is_west) /\ StampsTellNow(s2, g)
  <2>1. ~h1.renumbered => SnapshotAge(s1, h1)
    BY <1>3 DEF StampsTellNow
  <2>2. CASE rx.status = "OK"
    <3>1. s2 = receive_frame(s1, rx.frame) /\ g = Heard(h1, rx.frame)
      BY <2>2
    <3> QED BY <1>0, <1>1, <1>2, <1>3, <2>1, <3>1, ReceiveStep
  <2>3. CASE rx.status # "OK"
    BY <1>3, <2>3
  <2> QED BY <2>2, <2>3
<1> HIDE DEF s2, g
<1>6. s3 \in ChannelState
  BY <1>4 DEF update_standby_warmth, ChannelState
<1>7. /\ s3.cycle = s3.app_cycle /\ s3.online = s.online
      /\ ConfirmationHeld(s3, g, is_west) /\ StampsTellNow(s3, g)
      /\ STANDBY_SYNC /\ ~s3.online /\ s3.peer_snapshot_valid =>
           Within(s3.cycle, s3.standby_rx_cycle, STANDBY_DATA_TIMEOUT_CYCLES)
  BY <1>1, <1>4, <1>5, WarmthStep
<1> HIDE DEF s3
<1>8. /\ ConfirmationHeld(s4, g, is_west) /\ StampsTell(s4, g)
      /\ s4.cycle = s3.cycle /\ s4.peer_snapshot_valid = s3.peer_snapshot_valid
      /\ RoleStep(s, s4, g)
  BY <1>1, <1>6, <1>7, DecisionStep DEF RoleStep
<1>9. s4 \in ChannelState
  BY <1>6, DecisionStepType
<1> HIDE DEF s4
<1>10. FreshStep(s, s4, g)
  BY <1>1, <1>6, <1>7, <1>8, PolicyAssumption
     DEF FreshStep, Within, StampsTellNow, SnapshotAge, ChannelState, History
<1>11. /\ ConfirmationHeld(t, g, is_west) /\ StampsTell(t, g)
       /\ t.online = s4.online /\ t.cycle = s4.cycle
       /\ t.peer_faulted = s4.peer_faulted /\ t.local_faulted = s4.local_faulted
       /\ t.peer_snapshot_valid = s4.peer_snapshot_valid
  BY <1>0, <1>1, <1>8, <1>9, TeardownStep
<1> HIDE DEF t
<1>12. RoleStep(s, t, g) /\ FreshStep(s, t, g)
  BY <1>8, <1>10, <1>11 DEF RoleStep, FreshStep
<1> QED BY <1>11, <1>12 DEF h1, g, s1, s2, s3, s4, t, execute_with_link

-----------------------------------------------------------------------------
(* The system *)

RoleChangesAreJustified ==
  \A c \in Chan :
    PromotionIsJustified(c) /\ YieldIsToLivePeer(c) /\ LinkedPromotionIsFresh(c)

\* A step of channel c that leaves the other one alone.
LEMMA ChannelStep ==
  ASSUME TypeOK, StampInv, NEW c \in Chan, NEW t, NEW g,
         rs' = [rs EXCEPT ![c] = t], hist' = [hist EXCEPT ![c] = g],
         UNCHANGED stable,
         ConfirmationHeld(t, g, IsWest(c)), StampsTell(t, g),
         \A d \in Chan \ {c} : proc'[d] = proc[d],
         proc'[c] # "running" => ~t.takeover_confirmed,
         proc[c] = "running" /\ proc'[c] = "running" => RoleStep(rs[c], t, g),
         proc[c] = "running" /\ proc'[c] = "running" /\ (rs[c].link \/ t.link) =>
           FreshStep(rs[c], t, g)
  PROVE  StampInv' /\ RoleChangesAreJustified
<1>1. /\ rs'[c] = t /\ hist'[c] = g
      /\ \A d \in Chan \ {c} : rs'[d] = rs[d] /\ hist'[d] = hist[d]
  BY DEF TypeOK
<1>2. StampInv'
  BY <1>1 DEF StampInv, IsWest
<1>3. \A d \in Chan \ {c} : ~Promoted(d) /\ ~Demoted(d)
  BY <1>1 DEF Promoted, Demoted
<1>4. PromotionIsJustified(c) /\ YieldIsToLivePeer(c)
  BY <1>1 DEF PromotionIsJustified, YieldIsToLivePeer, Promoted, Demoted, RoleStep
<1>5. LinkedPromotionIsFresh(c)
  BY <1>1 DEF LinkedPromotionIsFresh, Promoted, FreshStep
<1> QED BY <1>2, <1>3, <1>4, <1>5
        DEF RoleChangesAreJustified, PromotionIsJustified, YieldIsToLivePeer,
            LinkedPromotionIsFresh

\* A step that touches neither role, stamps nor history.
LEMMA QuietStep ==
  ASSUME TypeOK, StampInv, NEW c \in Chan, NEW t \in ChannelState,
         rs' = [rs EXCEPT ![c] = t], UNCHANGED <<hist, stable, proc>>,
         t.online = rs[c].online, t.app_cycle = rs[c].app_cycle,
         t.peer_faulted = rs[c].peer_faulted,
         t.takeover_confirmed = rs[c].takeover_confirmed,
         t.takeover_confirm_cycle = rs[c].takeover_confirm_cycle,
         t.peer_last_rx_cycle = rs[c].peer_last_rx_cycle,
         t.both_standby_cycles = rs[c].both_standby_cycles,
         t.peer_snapshot_valid = rs[c].peer_snapshot_valid,
         t.standby_rx_cycle = rs[c].standby_rx_cycle
  PROVE  StampInv' /\ RoleChangesAreJustified
<1>1. hist' = [hist EXCEPT ![c] = hist[c]]
  BY DEF TypeOK
<1>2. ConfirmationHeld(t, hist[c], IsWest(c)) /\ StampsTell(t, hist[c])
  BY DEF StampInv, ConfirmationHeld, StampsTell, ConfirmationAge, SilenceAge, SnapshotAge
<1>3. RoleStep(rs[c], t, hist[c]) /\ FreshStep(rs[c], t, hist[c])
  BY DEF RoleStep, FreshStep
<1>4. proc'[c] # "running" => ~t.takeover_confirmed
  BY DEF StampInv
<1> QED BY <1>1, <1>2, <1>3, <1>4, ChannelStep

\* The same, as a step of the system.
LEMMA LinkedStep ==
  ASSUME TypeOK, StampInv, NEW c \in Chan, NEW start \in ChannelState,
         UNCHANGED <<stable, proc>>, CanRun(c), ExecuteLinked(c, start),
         start.online = rs[c].online, start.app_cycle = rs[c].app_cycle,
         ConfirmationHeld(start, hist[c], IsWest(c)), StampsTell(start, hist[c])
  PROVE  StampInv' /\ RoleChangesAreJustified
<1>1. /\ NextCycle(rs[c].app_cycle) = start.app_cycle + 1
      /\ hist[c] \in History /\ IsWest(c) \in BOOLEAN
  BY PairAssumption DEF CanRun, StampInv, NextCycle, TypeOK, ChannelState, IsWest
<1>2. PICK local \in LocalFacts(c), o \in SendOutcomes(c), rx \in ReceiveOutcomes(c) :
        /\ rs' = [rs EXCEPT ![c] =
                    execute_with_link(start, NextCycle(rs[c].app_cycle), local, IsWest(c),
                                      o.acked, rx)]
        /\ hist' = [hist EXCEPT ![c] = IF rx.status = "OK"
                                       THEN Heard(OneCycleOlder(hist[c]), rx.frame)
                                       ELSE OneCycleOlder(hist[c])]
  BY Zenon DEF ExecuteLinked
<1> DEFINE t == execute_with_link(start, start.app_cycle + 1, local, IsWest(c), o.acked, rx)
           g == IF rx.status = "OK" THEN Heard(OneCycleOlder(hist[c]), rx.frame)
                                    ELSE OneCycleOlder(hist[c])
<1>3. local \in Local /\ ~local.sibling_online
  BY DEF LocalFacts
<1>4. o.acked \in BOOLEAN
  BY DEF SendOutcomes
<1>5. rx \in [status: ReceiveStatus, frame: Frame]
  BY LinkTypes, FrameType
<1>6. /\ ConfirmationHeld(t, g, IsWest(c)) /\ StampsTell(t, g)
      /\ RoleStep(start, t, g) /\ FreshStep(start, t, g)
  BY <1>1, <1>3, <1>4, <1>5, LinkedCycle
<1>7. rs' = [rs EXCEPT ![c] = t] /\ hist' = [hist EXCEPT ![c] = g]
  BY <1>1, <1>2
<1> HIDE DEF t, g
<1>8. RoleStep(rs[c], t, g) /\ FreshStep(rs[c], t, g)
  BY <1>6 DEF RoleStep, FreshStep
<1>9. proc'[c] = "running"
  BY DEF CanRun
<1> QED BY <1>6, <1>7, <1>8, <1>9, ChannelStep

\* A freshly initialised channel, its link open or not, satisfies the invariant.
LEMMA FreshChannel ==
  ASSUME NEW is_west \in BOOLEAN,
         NEW s, s = InitChannel \/ s = init_channel_and_negotiator(InitChannel)
  PROVE  /\ ConfirmationHeld(s, NoHistory, is_west) /\ StampsTell(s, NoHistory)
         /\ ~s.takeover_confirmed
<1>1. /\ s.takeover_confirmed = FALSE /\ s.peer_snapshot_valid = FALSE
      /\ s.peer_last_rx_cycle = 0 /\ s.both_standby_cycles = 0 /\ s.app_cycle = 0
  <2>1. CASE s = InitChannel
    BY <2>1 DEF InitChannel
  <2>2. CASE s = init_channel_and_negotiator(InitChannel)
    <3>1. /\ s.takeover_confirmed = InitChannel.takeover_confirmed
          /\ s.peer_snapshot_valid = InitChannel.peer_snapshot_valid
          /\ s.peer_last_rx_cycle = InitChannel.peer_last_rx_cycle
          /\ s.both_standby_cycles = InitChannel.both_standby_cycles
          /\ s.app_cycle = InitChannel.app_cycle
      BY <2>2, InitChannelType DEF init_channel_and_negotiator, ChannelState
    <3> QED BY <3>1 DEF InitChannel
  <2> QED BY <2>1, <2>2
<1> QED BY <1>1 DEF ConfirmationHeld, StampsTell, ConfirmationAge, SilenceAge, SnapshotAge

\* What the invariant and the properties look at in a channel.
SameRoleAndStamps(t, s) ==
  /\ t.online = s.online /\ t.app_cycle = s.app_cycle
  /\ t.local_faulted = s.local_faulted
  /\ t.peer_faulted = s.peer_faulted /\ t.peer_online_now = s.peer_online_now
  /\ t.takeover_confirmed = s.takeover_confirmed
  /\ t.takeover_confirm_cycle = s.takeover_confirm_cycle
  /\ t.peer_last_rx_cycle = s.peer_last_rx_cycle
  /\ t.both_standby_cycles = s.both_standby_cycles
  /\ t.peer_snapshot_valid = s.peer_snapshot_valid
  /\ t.standby_rx_cycle = s.standby_rx_cycle

\* The standby sync touches only its own bookkeeping.
LEMMA SyncKeeps ==
  ASSUME NEW r \in ChannelState
  PROVE  LET s == sync_prepare(r, [faulted |-> r.local_faulted]) IN
         /\ s \in ChannelState /\ SameRoleAndStamps(s, r)
         /\ \A ok \in BOOLEAN : /\ sync_sent(s, ok) \in ChannelState
                               /\ SameRoleAndStamps(sync_sent(s, ok), r)
<1> DEFINE s == sync_prepare(r, [faulted |-> r.local_faulted])
<1>1. s \in ChannelState /\ SameRoleAndStamps(s, r)
  BY DEF sync_prepare, take_local, ChannelState, SameRoleAndStamps
<1> HIDE DEF s
<1>2. ASSUME NEW ok \in BOOLEAN
      PROVE  sync_sent(s, ok) \in ChannelState /\ SameRoleAndStamps(sync_sent(s, ok), r)
  BY <1>1 DEF sync_sent, ChannelState, SameRoleAndStamps
<1> QED BY <1>1, <1>2 DEF s

\* A cycle without a link does not open one.
LEMMA UnlinkedKeepsLink ==
  ASSUME NEW s \in ChannelState, NEW local \in Local, NEW is_west \in BOOLEAN
  PROVE  execute_without_link(s, s.app_cycle + 1, local, is_west).link = s.link
<1> DEFINE s1 == begin_cycle(s, s.app_cycle + 1, local)
           d == decide(build_decision_input(s1, local, is_west))
           u == [s1 EXCEPT !.both_standby_cycles = d.both_standby_cycles]
<1>1. s1 \in ChannelState /\ s1.link = s.link
  <2>1. s.app_cycle + 1 \in Nat
    BY DEF ChannelState
  <2> QED BY <2>1, BeginCycleType DEF begin_cycle, take_local, ChannelState
<1> HIDE DEF s1
<1>2. d \in Decision
  BY <1>1, DecisionInputType, DecideType
<1> HIDE DEF d
<1>3. u \in ChannelState /\ u.link = s.link
  BY <1>1, <1>2 DEF Decision, ChannelState
<1> HIDE DEF u
<1>4. /\ promote_to_online(u).link = s.link /\ demote_to_standby(u).link = s.link
      /\ renegotiate_from_deadlock(u, is_west).link = s.link
  BY <1>3 DEF promote_to_online, demote_to_standby, renegotiate_from_deadlock,
              report_change, ChannelState
<1>5. apply_decision(s1, d, is_west) \in
        {u, promote_to_online(u), demote_to_standby(u), renegotiate_from_deadlock(u, is_west)}
  BY DEF apply_decision, u
<1> QED BY <1>3, <1>4, <1>5 DEF execute_without_link, run_site_role_decision, s1, d

\* Every step keeps StampInv and changes roles only for a reason.
LEMMA StampStep ==
  ASSUME TypeOK, StampInv, [Next]_vars
  PROVE  StampInv' /\ RoleChangesAreJustified
<1>1. ASSUME NEW c \in Chan, Boot(c)
      PROVE  StampInv' /\ RoleChangesAreJustified
  <2> DEFINE t == init_channel_and_negotiator(InitChannel)
  <2>1. ConfirmationHeld(t, NoHistory, IsWest(c)) /\ StampsTell(t, NoHistory)
        /\ ~t.takeover_confirmed
    BY FreshChannel DEF IsWest
  <2>2. /\ rs' = [rs EXCEPT ![c] = t] /\ hist' = [hist EXCEPT ![c] = NoHistory]
        /\ UNCHANGED stable /\ proc[c] # "running"
        /\ \A d \in Chan \ {c} : proc'[d] = proc[d]
    BY <1>1 DEF Boot, TypeOK
  <2> HIDE DEF t
  <2> QED BY <2>1, <2>2, ChannelStep
<1>2. ASSUME NEW c \in Chan, StartBeacon(c)
      PROVE  StampInv' /\ RoleChangesAreJustified
  <2>1. UNCHANGED <<rs, hist, proc, stable>>
    BY <1>2 DEF StartBeacon
  <2> QED BY <2>1 DEF StampInv, RoleChangesAreJustified, PromotionIsJustified,
                      YieldIsToLivePeer, LinkedPromotionIsFresh, Promoted, Demoted
<1>3. ASSUME NEW c \in Chan, StartSettle(c)
      PROVE  StampInv' /\ RoleChangesAreJustified
  <2> DEFINE t == [rs[c] EXCEPT !.online = decide_online(c, startup_ts[c], beacon[c])]
  <2>1. rs[c] \in ChannelState
    BY DEF TypeOK
  <2>2. /\ t.takeover_confirmed = rs[c].takeover_confirmed
        /\ t.app_cycle = rs[c].app_cycle
        /\ t.peer_last_rx_cycle = rs[c].peer_last_rx_cycle
        /\ t.both_standby_cycles = rs[c].both_standby_cycles
        /\ t.peer_snapshot_valid = rs[c].peer_snapshot_valid
        /\ t.standby_rx_cycle = rs[c].standby_rx_cycle
    BY <2>1 DEF ChannelState
  <2>3. /\ rs' = [rs EXCEPT ![c] = t] /\ UNCHANGED <<hist, stable>>
        /\ proc[c] = "starting" /\ \A d \in Chan \ {c} : proc'[d] = proc[d]
    BY <1>3 DEF StartSettle, TypeOK
  <2>4. hist' = [hist EXCEPT ![c] = hist[c]]
    BY <2>3 DEF TypeOK
  <2> HIDE DEF t
  <2>5. ~rs[c].takeover_confirmed /\ StampsTell(rs[c], hist[c])
    BY <2>3 DEF StampInv
  <2>6. /\ ConfirmationHeld(t, hist[c], IsWest(c)) /\ StampsTell(t, hist[c])
        /\ ~t.takeover_confirmed
    BY <2>2, <2>5 DEF ConfirmationHeld, StampsTell, ConfirmationAge, SilenceAge, SnapshotAge
  <2> QED BY <2>3, <2>4, <2>6, ChannelStep
<1>4. ASSUME NEW c \in Chan, Stopped(c)
      PROVE  StampInv' /\ RoleChangesAreJustified
  <2>1. /\ ConfirmationHeld(InitChannel, NoHistory, IsWest(c))
        /\ StampsTell(InitChannel, NoHistory) /\ ~InitChannel.takeover_confirmed
    BY FreshChannel DEF IsWest
  <2>2. /\ rs' = [rs EXCEPT ![c] = InitChannel] /\ hist' = [hist EXCEPT ![c] = NoHistory]
        /\ UNCHANGED stable /\ proc'[c] # "running"
        /\ \A d \in Chan \ {c} : proc'[d] = proc[d]
    BY <1>4 DEF Stopped, TypeOK
  <2> QED BY <2>1, <2>2, ChannelStep
<1>5. ASSUME NEW c \in Chan, Crash(c) \/ FlushFaulted(c)
      PROVE  StampInv' /\ RoleChangesAreJustified
  BY <1>4, <1>5 DEF Crash, FlushFaulted
<1>6. ASSUME NEW c \in Chan, Execute(c)
      PROVE  StampInv' /\ RoleChangesAreJustified
  <2>1. /\ CanRun(c) /\ ExecuteLinked(c, rs[c]) /\ UNCHANGED <<stable, proc>>
        /\ rs[c] \in ChannelState
    BY <1>6 DEF Execute, TypeOK
  <2>2. ConfirmationHeld(rs[c], hist[c], IsWest(c)) /\ StampsTell(rs[c], hist[c])
    BY DEF StampInv
  <2> QED BY <2>1, <2>2, LinkedStep
<1>7. ASSUME NEW c \in Chan, ExecuteReconnect(c)
      PROVE  StampInv' /\ RoleChangesAreJustified
  <2> DEFINE s == init_channel_and_negotiator(rs[c])
  <2>1. /\ CanRun(c) /\ ExecuteLinked(c, s) /\ UNCHANGED <<stable, proc>>
        /\ rs[c] \in ChannelState
    BY <1>7 DEF ExecuteReconnect, TypeOK
  <2>2. /\ s \in ChannelState
        /\ s.online = rs[c].online /\ s.app_cycle = rs[c].app_cycle
        /\ s.takeover_confirmed = rs[c].takeover_confirmed
        /\ s.takeover_confirm_cycle = rs[c].takeover_confirm_cycle
        /\ s.peer_faulted = rs[c].peer_faulted
        /\ s.peer_last_rx_cycle = rs[c].peer_last_rx_cycle
        /\ s.both_standby_cycles = rs[c].both_standby_cycles
        /\ s.peer_snapshot_valid = rs[c].peer_snapshot_valid
        /\ s.standby_rx_cycle = rs[c].standby_rx_cycle
    BY <2>1 DEF init_channel_and_negotiator, ChannelState
  <2> HIDE DEF s
  <2>3. ConfirmationHeld(rs[c], hist[c], IsWest(c)) /\ StampsTell(rs[c], hist[c])
    BY DEF StampInv
  <2>4. ConfirmationHeld(s, hist[c], IsWest(c)) /\ StampsTell(s, hist[c])
    BY <2>2, <2>3 DEF ConfirmationHeld, StampsTell, ConfirmationAge, SilenceAge, SnapshotAge
  <2> QED BY <2>1, <2>2, <2>4, LinkedStep
<1>8. ASSUME NEW c \in Chan, ExecuteNoLink(c)
      PROVE  StampInv' /\ RoleChangesAreJustified
  <2>1. /\ NextCycle(rs[c].app_cycle) = rs[c].app_cycle + 1
        /\ rs[c] \in ChannelState /\ hist[c] \in History /\ IsWest(c) \in BOOLEAN
    <3>1. /\ rs[c] \in ChannelState /\ hist[c] \in History /\ IsWest(c) \in BOOLEAN
          /\ CanRun(c)
      BY <1>8 DEF ExecuteNoLink, TypeOK, IsWest
    <3> QED BY <3>1, PairAssumption DEF CanRun, StampInv, NextCycle, ChannelState
  <2>2. PICK local \in LocalFacts(c) :
          rs' = [rs EXCEPT ![c] = execute_without_link(rs[c], NextCycle(rs[c].app_cycle),
                                                      local, IsWest(c))]
    BY <1>8, Zenon DEF ExecuteNoLink
  <2> DEFINE t == execute_without_link(rs[c], rs[c].app_cycle + 1, local, IsWest(c))
             g == OneCycleOlder(hist[c])
  <2>3. local \in Local /\ ~local.sibling_online
    BY DEF LocalFacts
  <2>4. ConfirmationHeld(rs[c], hist[c], IsWest(c)) /\ StampsTell(rs[c], hist[c])
    BY DEF StampInv
  <2>5. ConfirmationHeld(t, g, IsWest(c)) /\ StampsTell(t, g) /\ RoleStep(rs[c], t, g)
    BY <2>1, <2>3, <2>4, UnlinkedCycle
  <2>6. t.link = rs[c].link
    BY <2>1, <2>3, UnlinkedKeepsLink
  <2>7. /\ rs' = [rs EXCEPT ![c] = t] /\ hist' = [hist EXCEPT ![c] = g]
        /\ UNCHANGED <<stable, proc>> /\ ~rs[c].link /\ proc[c] = "running"
    BY <1>8, <2>1, <2>2 DEF ExecuteNoLink, CanRun
  <2> HIDE DEF t, g
  <2> QED BY <2>5, <2>6, <2>7, ChannelStep
<1>9. ASSUME NEW c \in Chan, ServiceLink(c)
      PROVE  StampInv' /\ RoleChangesAreJustified
  <2>1. /\ rs[c] \in ChannelState /\ hist[c] \in History /\ IsWest(c) \in BOOLEAN
        /\ proc[c] = "running" /\ UNCHANGED <<stable, proc>> /\ inbox[c] \subseteq Frame
    BY <1>9 DEF ServiceLink, TypeOK, IsWest
  <2>2. PICK frames \in {{}, inbox[c]} :
          /\ rs' = [rs EXCEPT ![c] = service_link(rs[c], frames)]
          /\ hist' = [hist EXCEPT ![c] = IF frames = {} THEN hist[c]
                                         ELSE Heard(hist[c], CHOOSE f \in frames : TRUE)]
    BY <1>9 DEF ServiceLink
  <2> DEFINE s == [rs[c] EXCEPT !.cycle = rs[c].app_cycle]
  <2>3. /\ s \in ChannelState /\ s.cycle = s.app_cycle
        /\ s.online = rs[c].online /\ s.app_cycle = rs[c].app_cycle
        /\ s.takeover_confirmed = rs[c].takeover_confirmed
        /\ s.takeover_confirm_cycle = rs[c].takeover_confirm_cycle
        /\ s.peer_faulted = rs[c].peer_faulted
        /\ s.peer_last_rx_cycle = rs[c].peer_last_rx_cycle
        /\ s.both_standby_cycles = rs[c].both_standby_cycles
        /\ s.peer_snapshot_valid = rs[c].peer_snapshot_valid
        /\ s.standby_rx_cycle = rs[c].standby_rx_cycle
    BY <2>1 DEF ChannelState
  <2>4. service_link(rs[c], frames) =
          IF frames = {} THEN s ELSE receive_frame(s, CHOOSE f \in frames : TRUE)
    BY DEF service_link
  <2> HIDE DEF s
  <2>5. ConfirmationHeld(rs[c], hist[c], IsWest(c)) /\ StampsTell(rs[c], hist[c])
    BY DEF StampInv
  <2>6. CASE frames = {}
    <3>1. rs' = [rs EXCEPT ![c] = s] /\ UNCHANGED hist
      BY <2>1, <2>2, <2>4, <2>6 DEF TypeOK
    <3> QED BY <2>1, <2>3, <3>1, QuietStep
  <2>7. CASE frames # {}
    <3> DEFINE f == CHOOSE f \in frames : TRUE
               t == receive_frame(s, f)
               g == Heard(hist[c], f)
    <3>1. f \in Frame
      BY <2>1, <2>7
    <3>2. rs' = [rs EXCEPT ![c] = t] /\ hist' = [hist EXCEPT ![c] = g]
      BY <2>2, <2>4, <2>7
    <3> HIDE DEF f
    <3>3. ~hist[c].renumbered => SnapshotAge(s, hist[c])
      BY <2>3, <2>5 DEF StampsTell, SnapshotAge
    <3>4. /\ ConfirmationHeld(t, g, IsWest(c)) /\ StampsTell(t, g)
          /\ t.online = rs[c].online
      BY <2>1, <2>3, <3>1, <3>3, ReceiveStep
    <3> HIDE DEF t, g
    <3>5. RoleStep(rs[c], t, g) /\ FreshStep(rs[c], t, g)
      BY <3>4 DEF RoleStep, FreshStep
    <3> QED BY <2>1, <3>2, <3>4, <3>5, ChannelStep
  <2> QED BY <2>6, <2>7
<1>10. ASSUME NEW c \in Chan, SyncStandby(c)
       PROVE  StampInv' /\ RoleChangesAreJustified
  <2> DEFINE s == sync_prepare(rs[c], [faulted |-> rs[c].local_faulted])
  <2>1. rs[c] \in ChannelState /\ UNCHANGED <<hist, stable, proc>>
    BY <1>10 DEF SyncStandby, TypeOK
  <2>2. \E t : /\ rs' = [rs EXCEPT ![c] = t]
               /\ t = s \/ \E ok \in BOOLEAN : t = sync_sent(s, ok)
    BY <1>10 DEF SyncStandby, SendOutcomes
  <2>3. s \in ChannelState /\ SameRoleAndStamps(s, rs[c])
    BY <2>1, SyncKeeps
  <2>4. \A ok \in BOOLEAN : /\ sync_sent(s, ok) \in ChannelState
                           /\ SameRoleAndStamps(sync_sent(s, ok), rs[c])
    BY <2>1, SyncKeeps
  <2> HIDE DEF s
  <2>5. PICK t \in ChannelState : rs' = [rs EXCEPT ![c] = t] /\ SameRoleAndStamps(t, rs[c])
    BY <2>2, <2>3, <2>4
  <2> QED BY <2>1, <2>5, QuietStep DEF SameRoleAndStamps
<1>11. ASSUME NEW c \in Chan, TakeoverConfirm(c)
       PROVE  StampInv' /\ RoleChangesAreJustified
  <2> DEFINE t == on_takeover_confirm(rs[c])
             g == [hist[c] EXCEPT !.conf = 0, !.confirmed = TRUE]
  <2>1. /\ rs[c] \in ChannelState /\ hist[c] \in History
        /\ ~rs[c].online /\ proc[c] = "running" /\ UNCHANGED <<stable, proc>>
        /\ rs' = [rs EXCEPT ![c] = t] /\ hist' = [hist EXCEPT ![c] = g]
    BY <1>11 DEF TakeoverConfirm, TypeOK
  <2>2. /\ t.online = rs[c].online /\ t.app_cycle = rs[c].app_cycle
        /\ t.takeover_confirm_cycle = rs[c].app_cycle
        /\ t.peer_last_rx_cycle = rs[c].peer_last_rx_cycle
        /\ t.both_standby_cycles = rs[c].both_standby_cycles
        /\ t.peer_snapshot_valid = rs[c].peer_snapshot_valid
        /\ t.standby_rx_cycle = rs[c].standby_rx_cycle
    BY <2>1 DEF on_takeover_confirm, ChannelState
  <2>3. /\ g.conf = 0 /\ g.confirmed = TRUE /\ g.silent = hist[c].silent
        /\ g.snap = hist[c].snap /\ g.renumbered = hist[c].renumbered
    BY <2>1 DEF History
  <2> HIDE DEF t, g
  <2>4. StampsTell(rs[c], hist[c]) /\ rs[c].app_cycle \in Nat
    BY <2>1 DEF StampInv, ChannelState
  <2>5. ConfirmationHeld(t, g, IsWest(c)) /\ StampsTell(t, g)
    BY <2>1, <2>2, <2>3, <2>4
       DEF ConfirmationHeld, StampsTell, ConfirmationAge, SilenceAge, SnapshotAge
  <2>6. RoleStep(rs[c], t, g) /\ FreshStep(rs[c], t, g)
    BY <2>2 DEF RoleStep, FreshStep
  <2> QED BY <2>1, <2>5, <2>6, ChannelStep
<1>12. ASSUME NEW c \in Chan, Renumber(c)
       PROVE  StampInv' /\ RoleChangesAreJustified
  <2>1. /\ rs[c] \in ChannelState /\ hist[c] \in History
        /\ proc[c] = "running" /\ UNCHANGED <<stable, proc>>
    BY <1>12 DEF Renumber, TypeOK
  <2>2. PICK n \in 0..rs[c].app_cycle :
          rs' = [rs EXCEPT ![c] = [rs[c] EXCEPT !.app_cycle = n]]
    BY <1>12, Zenon DEF Renumber
  <2> DEFINE t == [rs[c] EXCEPT !.app_cycle = n]
             g == [hist[c] EXCEPT !.renumbered = TRUE, !.conf = AgeCap]
  <2>3. hist' = [hist EXCEPT ![c] = g]
    BY <1>12 DEF Renumber, TypeOK
  <2>4. /\ t.online = rs[c].online /\ t.peer_faulted = rs[c].peer_faulted
        /\ t.takeover_confirmed = rs[c].takeover_confirmed
        /\ g.renumbered = TRUE /\ g.confirmed = hist[c].confirmed
    BY <2>1 DEF ChannelState, History
  <2>5. rs' = [rs EXCEPT ![c] = t]
    BY <2>2
  <2> HIDE DEF t, g
  <2>6. ConfirmationHeld(rs[c], hist[c], IsWest(c))
    BY DEF StampInv
  <2>7. ConfirmationHeld(t, g, IsWest(c)) /\ StampsTell(t, g)
    BY <2>4, <2>6 DEF ConfirmationHeld, StampsTell
  <2>8. RoleStep(rs[c], t, g) /\ FreshStep(rs[c], t, g)
    BY <2>4 DEF RoleStep, FreshStep
  <2> QED BY <2>1, <2>3, <2>5, <2>7, <2>8, ChannelStep
<1>13. ASSUME NEW c \in Chan, NoteLostContact(c)
       PROVE  StampInv' /\ RoleChangesAreJustified
  <2> DEFINE t == note_lost_contact(rs[c])
  <2>1. /\ rs[c] \in ChannelState /\ UNCHANGED <<hist, stable, proc>>
        /\ rs' = [rs EXCEPT ![c] = t]
    BY <1>13 DEF NoteLostContact, TypeOK
  <2>2. t \in ChannelState /\ SameRoleAndStamps(t, rs[c])
    BY <2>1 DEF note_lost_contact, ChannelState, SameRoleAndStamps
  <2> HIDE DEF t
  <2> QED BY <2>1, <2>2, QuietStep DEF SameRoleAndStamps
<1>14. CASE UNCHANGED vars
  BY <1>14 DEF vars, StampInv, RoleChangesAreJustified, PromotionIsJustified,
               YieldIsToLivePeer, LinkedPromotionIsFresh, Promoted, Demoted
<1> QED BY <1>1, <1>2, <1>3, <1>5, <1>6, <1>7, <1>8, <1>9, <1>10, <1>11, <1>12,
           <1>13, <1>14 DEF Next

\* The reasons for a role change, as one action property of the specification.
LEMMA RoleChanges ==
  Spec => [][RoleChangesAreJustified]_vars
<1>1. Init => StampInv
  <2> SUFFICES ASSUME Init PROVE StampInv
    OBVIOUS
  <2>1. \A c \in Chan : rs[c] = InitChannel /\ hist[c] = NoHistory /\ IsWest(c) \in BOOLEAN
    BY DEF Init, IsWest
  <2>2. ~stable
    BY DEF Init
  <2> QED BY <2>1, <2>2, FreshChannel DEF StampInv
<1>2. TypeOK /\ StampInv /\ [Next]_vars => StampInv' /\ RoleChangesAreJustified
  BY StampStep
<1> QED BY <1>1, <1>2, TypeCorrect, PTL DEF Spec

\* REQ-SITEROLE-003, for every window, threshold and bound: silence alone never
\* makes a channel ONLINE.  decide() looks only at flags and stamps; the theorem
\* says that these flags and stamps mean what they are taken to mean, through
\* reconnects, fast-tick frames, takeovers that renumber the cycles, restarts.
THEOREM SilenceNeverPromotesHolds == Spec => SilenceNeverPromotes
<1>1. RoleChangesAreJustified => \A c \in Chan : PromotionIsJustified(c)
  BY DEF RoleChangesAreJustified
<1> QED BY <1>1, RoleChanges, PTL DEF SilenceNeverPromotes

\* Rule 5, for every window, threshold and bound: a healthy ONLINE channel steps
\* down only for a counterpart it has really heard from.
THEOREM YieldOnlyToLivePeerHolds == Spec => YieldOnlyToLivePeer
<1>1. RoleChangesAreJustified => \A c \in Chan : YieldIsToLivePeer(c)
  BY DEF RoleChangesAreJustified
<1> QED BY <1>1, RoleChanges, PTL DEF YieldOnlyToLivePeer

\* update_standby_warmth(), for every data timeout: a promotion over an open link
\* never takes over a snapshot that has gone stale.
THEOREM LinkedTakeoverIsFreshHolds == Spec => LinkedTakeoverIsFresh
<1>1. RoleChangesAreJustified => \A c \in Chan : LinkedPromotionIsFresh(c)
  BY DEF RoleChangesAreJustified
<1> QED BY <1>1, RoleChanges, PTL DEF LinkedTakeoverIsFresh

-----------------------------------------------------------------------------
(* One ONLINE site.  EAST becomes ONLINE only in its startup negotiation,  *)
(* and then WEST's timestamp is newer and WEST has heard nothing of EAST   *)
(* but snapshots.  All that could promote WEST is the tie-break, which counts  *)
(* cycles in which a counterpart answers that is not ONLINE; a WEST that   *)
(* has heard nothing counts in the first ANSWER_WINDOW cycles of a         *)
(* numbering, for which its zero stamp passes for a fresh one.             *)

\* Nobody was FAULTED, the dispatcher confirmed nothing, and no boot drew a
\* timestamp that wins against an engaged counterpart's.
Unprovoked == in_order /\ Undisturbed

\* How often the application has restarted its numbering, on either site.
Renumberings == Limit["renumber"] - left["renumber"]

\* The cycles a zero stamp passes for a fresh one in k numberings.
Slack(k) == k * ANSWER_WINDOW

\* The numberings of a run do not add up to the tie-break.  With the code's
\* windows of 2 and 6 cycles the application may restart its numbering once.
FewRenumberings == Slack(Limit["renumber"] + 1) < BOTH_STANDBY_CYCLES

\* The channel has no reason to take over.
Calm(s) == ~s.local_faulted /\ ~s.peer_faulted /\ ~s.takeover_confirmed

\* The channel is STANDBY and has heard nothing of its counterpart, or that it
\* is ONLINE; k renumberings have happened.
Untold(s, k) ==
  /\ ~s.online
  /\ \/ s.peer_online_now
     \/ /\ s.peer_last_rx_cycle = 0
        /\ s.both_standby_cycles <= Slack(k) + s.app_cycle
        /\ s.both_standby_cycles <= Slack(k) + ANSWER_WINDOW

\* The same in the middle of a cycle, before its decision has counted it.
UntoldYet(s, k) ==
  /\ ~s.online
  /\ \/ s.peer_online_now
     \/ /\ s.peer_last_rx_cycle = 0
        /\ s.both_standby_cycles + 1 <= Slack(k) + s.app_cycle
        /\ s.both_standby_cycles <= Slack(k) + ANSWER_WINDOW

\* Only a settled channel is ONLINE; one that still starts knows nothing.
StartInv ==
  \A c \in Chan :
    /\ rs[c].online => proc[c] = "running"
    /\ proc[c] = "starting" => rs[c] = init_channel_and_negotiator(InitChannel)

\* A channel that starts has heard the timestamp of its counterpart, or that of
\* an earlier process of it; then it is older than the present one.
BeaconInv ==
  \A c \in Chan :
    proc[c] = "starting" /\ beacon[c] # 0 /\ proc[Peer(c)] # "down" =>
      \/ beacon[c] = startup_ts[Peer(c)]
      \/ decide_online(c, startup_ts[c], startup_ts[Peer(c)])

\* Nobody holds or is about to receive a FAULTED notice or a confirmation.
CalmInv == \A c \in Chan : Calm(rs[c]) /\ \A f \in inbox[c] : ~f.faulted

\* An ONLINE EAST is older than WEST, and WEST has heard nothing else from an
\* EAST that is older and that is ONLINE or may still become so.
EastFirst ==
  proc["WEST"] # "down" =>
    /\ rs["EAST"].online => startup_ts["EAST"] < startup_ts["WEST"]
    /\ /\ proc["EAST"] = "starting" \/ rs["EAST"].online
       /\ startup_ts["EAST"] < startup_ts["WEST"]
       => Untold(rs["WEST"], Renumberings) /\ \A f \in inbox["WEST"] : f.valid

\* The inductive invariant.
OnlineInv ==
  /\ ~stable /\ \A k \in Kinds : left[k] <= Limit[k]
  /\ StartInv
  /\ Unprovoked => CalmInv /\ BeaconInv /\ EastFirst

\* The slack of one more numbering, and that it never reaches the tie-break.
LEMMA SlackFacts ==
  /\ \A k \in Nat : Slack(k) \in Nat /\ Slack(k + 1) = Slack(k) + ANSWER_WINDOW
  /\ \A k, m \in Nat : k <= m => Slack(k) <= Slack(m)
<1>1. ANSWER_WINDOW \in Nat
  BY PolicyAssumption
<1>2. \A k \in Nat : Slack(k) \in Nat /\ Slack(k + 1) = Slack(k) + ANSWER_WINDOW
  BY <1>1 DEF Slack
<1>3. ASSUME NEW k \in Nat, NEW m \in Nat, k <= m PROVE Slack(k) <= Slack(m)
  <2>1. PICK d \in Nat : m = k + d
    <3>1. m - k \in Nat /\ m = k + (m - k)
      BY <1>3
    <3> QED BY <3>1
  <2>2. d * ANSWER_WINDOW \in Nat /\ k * ANSWER_WINDOW \in Nat
    BY <1>1
  <2>3. (k + d) * ANSWER_WINDOW = k * ANSWER_WINDOW + d * ANSWER_WINDOW
    BY <1>1
  <2> QED BY <2>1, <2>2, <2>3 DEF Slack
<1> QED BY <1>2, <1>3

\* Without a FAULTED notice or a confirmation decide() counts only the cycles in
\* which both sites are STANDBY, and promotes only a WEST that has counted enough.
LEMMA CalmRule ==
  ASSUME NEW in \in Input, ~in.sibling_online, ~in.own_faulted, ~in.peer_faulted,
         ~in.takeover_confirmed
  PROVE  /\ decide(in).action # "RENEGOTIATE"
         /\ decide(in).action = "PROMOTE" =>
              in.is_west /\ BothStandby(in) /\ in.both_standby_cycles + 1 >= BOTH_STANDBY_CYCLES
         /\ decide(in).both_standby_cycles <= in.both_standby_cycles + 1
         /\ ~BothStandby(in) => decide(in).both_standby_cycles = 0
<1>1. /\ ~BothFaulted(in) /\ ~PeerFaulted(in) /\ ~Recovered(in) /\ ~DispatcherConfirmed(in)
      /\ ~FollowSibling(in)
  BY DEF BothFaulted, PeerFaulted, Recovered, DispatcherConfirmed, takeover_allowed, FollowSibling
<1>2. FirstRule(in) \in {Answer("DEMOTE", "YIELD_TO_TAKEOVER", 0), Answer("ALARM", "DUAL_ONLINE", 0),
                         Answer("NONE", "NONE", 0)}
      \/ BothStandby(in)
  BY <1>1 DEF FirstRule
<1>3. BothStandby(in) =>
        /\ ~DualOnline(in)
        /\ FirstRule(in) =
             IF both_standby_tiebreak(in.both_standby_cycles + 1, in.is_west, in.sibling_online)
             THEN Answer("PROMOTE", IF in.sibling_online THEN "BOTH_STANDBY_SIBLING"
                                    ELSE "BOTH_STANDBY_WEST", 0)
             ELSE Answer("NONE", "NONE", in.both_standby_cycles + 1)
  BY <1>1 DEF FirstRule, BothStandby, DualOnline
<1>4. both_standby_tiebreak(in.both_standby_cycles + 1, in.is_west, in.sibling_online) =>
        in.is_west /\ in.both_standby_cycles + 1 >= BOTH_STANDBY_CYCLES
  BY DEF both_standby_tiebreak
<1>5. in.both_standby_cycles \in Nat
  BY DEF Input
<1> QED BY <1>2, <1>3, <1>4, <1>5 DEF decide, Answer

\* A decision of a channel that has no reason to take over.
LEMMA CalmDecision ==
  ASSUME NEW s \in ChannelState, NEW is_west \in BOOLEAN, NEW local \in Local,
         ~local.sibling_online, s.cycle = s.app_cycle, Calm(s)
  PROVE  LET t == run_site_role_decision(s, local, is_west) IN
         /\ t \in ChannelState /\ Calm(t)
         /\ ~is_west /\ ~s.online => ~t.online
         /\ \A k \in Nat : UntoldYet(s, k) /\ Slack(k) + ANSWER_WINDOW < BOTH_STANDBY_CYCLES =>
              Untold(t, k)
<1> DEFINE in == build_decision_input(s, local, is_west)
           d == decide(in)
           u == [s EXCEPT !.both_standby_cycles = d.both_standby_cycles]
           t == run_site_role_decision(s, local, is_west)
<1>1. in \in Input /\ d \in Decision
  BY DecisionInputType, DecideType
<1>2. /\ in.is_online = s.online /\ in.own_faulted = s.local_faulted
      /\ in.cycle = s.cycle /\ in.peer_last_rx_cycle = s.peer_last_rx_cycle
      /\ in.peer_online_now = s.peer_online_now /\ in.is_west = is_west
      /\ in.peer_faulted = s.peer_faulted /\ in.sibling_online = local.sibling_online
      /\ in.takeover_confirmed = s.takeover_confirmed
      /\ in.both_standby_cycles = s.both_standby_cycles
  BY DEF build_decision_input
<1>3. /\ d.action # "RENEGOTIATE"
      /\ d.action = "PROMOTE" =>
           is_west /\ BothStandby(in) /\ s.both_standby_cycles + 1 >= BOTH_STANDBY_CYCLES
      /\ d.both_standby_cycles <= s.both_standby_cycles + 1
      /\ ~BothStandby(in) => d.both_standby_cycles = 0
  BY <1>1, <1>2, CalmRule DEF Calm
<1>4. /\ d.action = "PROMOTE" => t = promote_to_online(u)
      /\ d.action = "DEMOTE" => t = demote_to_standby(u)
      /\ d.action \notin {"PROMOTE", "DEMOTE", "RENEGOTIATE"} => t = u
  BY DEF run_site_role_decision, apply_decision
<1>5. d.both_standby_cycles \in Nat
  BY <1>1 DEF Decision
<1>6. BothStandby(in) => ~s.peer_online_now
        /\ (s.peer_last_rx_cycle = 0 => s.cycle <= ANSWER_WINDOW)
  BY <1>2, PolicyAssumption DEF BothStandby, peer_answering, Within, ChannelState
<1>7. t \in ChannelState
  BY DecisionStepType
<1> HIDE DEF in, d, t
<1>8. Calm(t)
  BY <1>3, <1>4, <1>5
     DEF Calm, promote_to_online, demote_to_standby, report_change, ChannelState
<1>9. d.action # "PROMOTE" =>
        /\ t.online => s.online
        /\ t.peer_online_now = s.peer_online_now /\ t.peer_last_rx_cycle = s.peer_last_rx_cycle
        /\ t.app_cycle = s.app_cycle /\ t.both_standby_cycles = d.both_standby_cycles
  BY <1>3, <1>4, <1>5 DEF demote_to_standby, report_change, ChannelState
<1>10. ASSUME NEW k \in Nat, UntoldYet(s, k), Slack(k) + ANSWER_WINDOW < BOTH_STANDBY_CYCLES
       PROVE  Untold(t, k)
  <2>1. /\ Slack(k) \in Nat /\ ANSWER_WINDOW \in Nat /\ BOTH_STANDBY_CYCLES \in Nat
        /\ s.app_cycle \in Nat /\ s.both_standby_cycles \in Nat
    BY SlackFacts, PolicyAssumption DEF ChannelState
  <2>2. d.action # "PROMOTE"
    BY <1>3, <1>6, <1>10, <2>1 DEF UntoldYet
  <2> QED BY <1>3, <1>5, <1>6, <1>9, <1>10, <2>1, <2>2 DEF Untold, UntoldYet
<1> QED BY <1>3, <1>7, <1>8, <1>9, <1>10 DEF t

\* A cycle begins: the number goes on by one.
LEMMA CalmBegin ==
  ASSUME NEW s \in ChannelState, NEW local \in Local, ~local.faulted, Calm(s)
  PROVE  LET t == begin_cycle(s, s.app_cycle + 1, local) IN
         /\ t \in ChannelState /\ Calm(t) /\ t.cycle = t.app_cycle /\ t.online = s.online
         /\ \A k \in Nat : Untold(s, k) => UntoldYet(t, k)
<1> DEFINE t == begin_cycle(s, s.app_cycle + 1, local)
<1>0. t \in ChannelState
  <2>1. s.app_cycle + 1 \in Nat
    BY DEF ChannelState
  <2> QED BY <2>1, BeginCycleType
<1>1. /\ t.cycle = s.app_cycle + 1 /\ t.app_cycle = s.app_cycle + 1 /\ t.online = s.online
      /\ ~t.local_faulted /\ t.peer_faulted = s.peer_faulted
      /\ t.takeover_confirmed = s.takeover_confirmed /\ t.peer_online_now = s.peer_online_now
      /\ t.peer_last_rx_cycle = s.peer_last_rx_cycle
      /\ t.both_standby_cycles = s.both_standby_cycles
  BY DEF begin_cycle, take_local, ChannelState
<1> HIDE DEF t
<1>2. s.app_cycle \in Nat /\ s.both_standby_cycles \in Nat
  BY DEF ChannelState
<1>3. ASSUME NEW k \in Nat, Untold(s, k) PROVE UntoldYet(t, k)
  <2>1. Slack(k) \in Nat
    BY SlackFacts
  <2> QED BY <1>1, <1>2, <1>3, <2>1 DEF Untold, UntoldYet
<1> QED BY <1>0, <1>1, <1>3 DEF Calm, t

\* A frame without a FAULTED notice leaves the channel calm; a snapshot tells it
\* that its counterpart is ONLINE.
LEMMA CalmReceive ==
  ASSUME NEW s \in ChannelState, NEW f \in Frame, ~f.faulted, Calm(s)
  PROVE  LET t == receive_frame(s, f) IN
         /\ t \in ChannelState /\ Calm(t) /\ t.online = s.online
         /\ t.cycle = s.cycle /\ t.app_cycle = s.app_cycle
         /\ f.valid => t.peer_online_now
<1> DEFINE t == receive_frame(s, f)
<1>0. t \in ChannelState
  BY ReceiveFrameType
<1>1. /\ t.online = s.online /\ t.cycle = s.cycle /\ t.app_cycle = s.app_cycle
      /\ t.local_faulted = s.local_faulted /\ ~t.peer_faulted
      /\ ~t.takeover_confirmed /\ (f.valid => t.peer_online_now)
  BY DEF receive_frame, ChannelState
<1> HIDE DEF t
<1> QED BY <1>0, <1>1 DEF Calm, t

\* A cycle without a link.
LEMMA CalmUnlinked ==
  ASSUME NEW s \in ChannelState, NEW is_west \in BOOLEAN, NEW local \in Local,
         ~local.sibling_online, ~local.faulted, Calm(s)
  PROVE  LET t == execute_without_link(s, s.app_cycle + 1, local, is_west) IN
         /\ Calm(t)
         /\ ~is_west /\ ~s.online => ~t.online
         /\ \A k \in Nat : Untold(s, k) /\ Slack(k) + ANSWER_WINDOW < BOTH_STANDBY_CYCLES =>
              Untold(t, k)
<1> DEFINE s1 == begin_cycle(s, s.app_cycle + 1, local)
<1>1. /\ s1 \in ChannelState /\ Calm(s1) /\ s1.cycle = s1.app_cycle /\ s1.online = s.online
      /\ \A k \in Nat : Untold(s, k) => UntoldYet(s1, k)
  BY CalmBegin
<1> HIDE DEF s1
<1>2. LET t == run_site_role_decision(s1, local, is_west) IN
      /\ Calm(t)
      /\ ~is_west /\ ~s1.online => ~t.online
      /\ \A k \in Nat : UntoldYet(s1, k) /\ Slack(k) + ANSWER_WINDOW < BOTH_STANDBY_CYCLES =>
           Untold(t, k)
  BY <1>1, CalmDecision
<1> QED BY <1>1, <1>2 DEF execute_without_link, s1

\* A cycle over an open link.
LEMMA CalmLinked ==
  ASSUME NEW s \in ChannelState, NEW is_west \in BOOLEAN, NEW local \in Local,
         ~local.sibling_online, ~local.faulted, NEW send_ok \in BOOLEAN,
         NEW rx \in [status: ReceiveStatus, frame: Frame],
         rx.status = "OK" => ~rx.frame.faulted, Calm(s)
  PROVE  LET t == execute_with_link(s, s.app_cycle + 1, local, is_west, send_ok, rx) IN
         /\ Calm(t)
         /\ ~is_west /\ ~s.online => ~t.online
         /\ \A k \in Nat :
              /\ Untold(s, k) /\ Slack(k) + ANSWER_WINDOW < BOTH_STANDBY_CYCLES
              /\ rx.status = "OK" => rx.frame.valid
              => Untold(t, k)
<1> DEFINE s1 == begin_cycle(s, s.app_cycle + 1, local)
           s2 == IF rx.status = "OK" THEN receive_frame(s1, rx.frame) ELSE s1
           s3 == update_standby_warmth(s2)
           s4 == run_site_role_decision(s3, local, is_west)
           t == handle_send_miss_and_link_teardown(s4, send_ok, rx.status)
           Hears(k) == Untold(s, k) /\ (rx.status = "OK" => rx.frame.valid)
<1>0. rx.frame \in Frame /\ rx.status \in ReceiveStatus
  OBVIOUS
<1>1. /\ s1 \in ChannelState /\ Calm(s1) /\ s1.cycle = s1.app_cycle /\ s1.online = s.online
      /\ \A k \in Nat : Untold(s, k) => UntoldYet(s1, k)
  BY CalmBegin
<1> HIDE DEF s1
<1>2. /\ s2 \in ChannelState /\ Calm(s2) /\ s2.cycle = s2.app_cycle /\ s2.online = s.online
      /\ \A k \in Nat : Hears(k) => UntoldYet(s2, k)
  <2>1. CASE rx.status = "OK"
    BY <1>0, <1>1, <2>1, CalmReceive DEF UntoldYet
  <2>2. CASE rx.status # "OK"
    BY <1>1, <2>2
  <2> QED BY <2>1, <2>2
<1> HIDE DEF s2, Hears
<1>3. /\ s3 \in ChannelState /\ Calm(s3) /\ s3.cycle = s3.app_cycle /\ s3.online = s.online
      /\ \A k \in Nat : Hears(k) => UntoldYet(s3, k)
  <2>1. /\ s3 \in ChannelState /\ s3.cycle = s2.cycle /\ s3.app_cycle = s2.app_cycle
        /\ s3.online = s2.online /\ s3.local_faulted = s2.local_faulted
        /\ s3.peer_faulted = s2.peer_faulted /\ s3.takeover_confirmed = s2.takeover_confirmed
        /\ s3.peer_online_now = s2.peer_online_now
        /\ s3.peer_last_rx_cycle = s2.peer_last_rx_cycle
        /\ s3.both_standby_cycles = s2.both_standby_cycles
    BY <1>2 DEF update_standby_warmth, ChannelState
  <2> HIDE DEF s3
  <2> QED BY <1>2, <2>1 DEF Calm, UntoldYet
<1> HIDE DEF s3
<1>4. /\ s4 \in ChannelState /\ Calm(s4)
      /\ ~is_west /\ ~s.online => ~s4.online
      /\ \A k \in Nat : Hears(k) /\ Slack(k) + ANSWER_WINDOW < BOTH_STANDBY_CYCLES => Untold(s4, k)
  BY <1>3, CalmDecision
<1> HIDE DEF s4
<1>5. /\ t.online = s4.online /\ t.local_faulted = s4.local_faulted
      /\ t.peer_faulted = s4.peer_faulted /\ t.takeover_confirmed = s4.takeover_confirmed
      /\ t.peer_online_now = s4.peer_online_now /\ t.app_cycle = s4.app_cycle
      /\ t.peer_last_rx_cycle = s4.peer_last_rx_cycle
      /\ t.both_standby_cycles = s4.both_standby_cycles
  BY <1>4 DEF handle_send_miss_and_link_teardown, close_link, ChannelState
<1>6. t = execute_with_link(s, s.app_cycle + 1, local, is_west, send_ok, rx)
  BY DEF execute_with_link, t, s4, s3, s2, s1
<1> HIDE DEF t
<1>7. /\ Calm(t)
      /\ ~is_west /\ ~s.online => ~t.online
      /\ \A k \in Nat : Hears(k) /\ Slack(k) + ANSWER_WINDOW < BOTH_STANDBY_CYCLES => Untold(t, k)
  BY <1>4, <1>5 DEF Calm, Untold
<1> QED BY <1>6, <1>7 DEF Hears

-----------------------------------------------------------------------------
(* The steps of the pair *)

\* The two sites.
LEMMA Sites ==
  /\ "WEST" \in Chan /\ "EAST" \in Chan
  /\ Peer("WEST") = "EAST" /\ Peer("EAST") = "WEST"
  /\ IsWest("WEST") /\ ~IsWest("EAST")
  /\ \A c \in Chan : Peer(c) \in Chan /\ (c = "WEST" \/ c = "EAST")
  BY DEF Chan, Peer, IsWest

\* What a disturbance takes from the bounds.
LEMMA DisturbFacts ==
  ASSUME TypeOK, NEW kind \in Kinds, Disturb(kind)
  PROVE  /\ left'[kind] = left[kind] - 1 /\ left[kind] >= 1
         /\ \A k \in Kinds \ {kind} : left'[k] = left[k]
         /\ \A k \in Kinds : left'[k] <= left[k]
<1>1. left \in [Kinds -> Nat]
  BY DEF TypeOK
<1>2. left' = [left EXCEPT ![kind] = @ - 1] /\ left[kind] > 0
  BY DEF Disturb
<1> QED BY <1>1, <1>2

\* The bounds only shrink: what is unprovoked was so before, and the
\* renumberings add up.
LEMMA LeftFacts ==
  ASSUME TypeOK, TypeOK', OnlineInv, \A k \in Kinds : left'[k] <= left[k],
         in_order' => in_order
  PROVE  /\ \A k \in Kinds : left'[k] <= Limit[k]
         /\ Unprovoked' => /\ Unprovoked
                           /\ left'["fault"] = left["fault"] /\ left'["confirm"] = left["confirm"]
         /\ Renumberings \in Nat /\ Renumberings' \in Nat /\ Renumberings <= Renumberings'
         /\ Renumberings' <= Limit["renumber"]
         /\ \A s \in ChannelState : Untold(s, Renumberings) => Untold(s, Renumberings')
<1>1. /\ \A k \in Kinds : left[k] \in Nat /\ left'[k] \in Nat /\ Limit[k] \in Nat /\ left[k] <= Limit[k]
      /\ "fault" \in Kinds /\ "confirm" \in Kinds /\ "renumber" \in Kinds
  BY PairAssumption DEF TypeOK, OnlineInv, Kinds
<1>2. \A k \in Kinds : left'[k] <= Limit[k]
  BY <1>1
<1>3. Unprovoked' => /\ Unprovoked
                     /\ left'["fault"] = left["fault"] /\ left'["confirm"] = left["confirm"]
  BY <1>1 DEF Unprovoked, Undisturbed
<1>4. /\ Renumberings \in Nat /\ Renumberings' \in Nat /\ Renumberings <= Renumberings'
      /\ Renumberings' <= Limit["renumber"]
  BY <1>1 DEF Renumberings
<1>5. /\ Slack(Renumberings) \in Nat /\ Slack(Renumberings') \in Nat
      /\ Slack(Renumberings) <= Slack(Renumberings')
  BY <1>4, SlackFacts
<1>6. ASSUME NEW s \in ChannelState, Untold(s, Renumberings) PROVE Untold(s, Renumberings')
  <2>1. s.app_cycle \in Nat /\ s.both_standby_cycles \in Nat /\ ANSWER_WINDOW \in Nat
    BY PolicyAssumption DEF ChannelState
  <2> QED BY <1>5, <1>6, <2>1 DEF Untold
<1> QED BY <1>2, <1>3, <1>4, <1>6

\* A call of a running channel c that leaves t behind: it reads its inbox, sends
\* frames of its own, and is heard by a counterpart that starts.
Runs(c, t) ==
  /\ proc[c] = "running" /\ UNCHANGED <<proc, startup_ts, in_order, stable>>
  /\ rs' = [rs EXCEPT ![c] = t]
  /\ \E heard \in BOOLEAN : beacon' = BeaconTo(Peer(c), heard)
  /\ \A k \in Kinds : left'[k] <= left[k]

\* The call gives nobody a reason to take over, and WEST no idea of a STANDBY EAST.
RunsCalmly(c, t) ==
  /\ Calm(t)
  /\ ~IsWest(c) /\ ~rs[c].online => ~t.online
  /\ IsWest(c) /\ Untold(rs[c], Renumberings) /\ (\A f \in inbox[c] : f.valid) =>
       Untold(t, Renumberings')
  /\ inbox'[c] \subseteq inbox[c]
  /\ \A f \in inbox'[Peer(c)] \ inbox[Peer(c)] : ~f.faulted /\ (rs[c].online => f.valid)

\* What is heard of a counterpart is its timestamp.
LEMMA BeaconKeeps ==
  ASSUME TypeOK, BeaconInv, NEW c \in Chan, NEW heard \in BOOLEAN, beacon' = BeaconTo(c, heard),
         UNCHANGED <<proc, startup_ts>>
  PROVE  BeaconInv'
<1>1. \A d \in Chan : beacon'[d] = beacon[d] \/ beacon'[d] = startup_ts[Peer(d)]
  BY DEF BeaconTo, TypeOK
<1> QED BY <1>1 DEF BeaconInv, decide_online

\* Such a call keeps the invariant.
LEMMA RunStep ==
  ASSUME TypeOK, TypeOK', OnlineInv, NEW c \in Chan, NEW t, Runs(c, t),
         Unprovoked' => RunsCalmly(c, t)
  PROVE  OnlineInv'
<1>1. /\ proc[c] = "running" /\ UNCHANGED <<proc, startup_ts, in_order, stable>>
      /\ \A k \in Kinds : left'[k] <= left[k]
  BY DEF Runs
<1>2. rs'[c] = t /\ \A d \in Chan \ {c} : rs'[d] = rs[d]
  BY DEF Runs, TypeOK
<1>3. PICK heard \in BOOLEAN : beacon' = BeaconTo(Peer(c), heard)
  BY DEF Runs
<1>4. ~stable' /\ \A k \in Kinds : left'[k] <= Limit[k]
  BY <1>1, LeftFacts DEF OnlineInv
<1>5. StartInv'
  BY <1>1, <1>2 DEF OnlineInv, StartInv
<1>6. ASSUME Unprovoked' PROVE CalmInv' /\ BeaconInv' /\ EastFirst'
  <2>1. CalmInv /\ BeaconInv /\ EastFirst /\ Peer(c) \in Chan
    BY <1>1, <1>6, LeftFacts, Sites DEF OnlineInv
  <2>2. \A s \in ChannelState : Untold(s, Renumberings) => Untold(s, Renumberings')
    BY <1>1, LeftFacts
  <2>3. CalmInv'
    <3>1. ASSUME NEW d \in Chan PROVE d = c \/ d = Peer(c)
      BY Sites DEF Chan, Peer
    <3> QED BY <1>2, <1>6, <2>1, <3>1 DEF CalmInv, RunsCalmly
  <2>4. BeaconInv'
    BY <1>1, <1>3, <2>1, BeaconKeeps
  <2>5. CASE c = "WEST"
    <3>1. rs'["EAST"] = rs["EAST"] /\ rs'["WEST"] = t
      BY <1>2, <2>5, Sites
    <3>2. /\ Untold(rs["WEST"], Renumberings) /\ (\A f \in inbox["WEST"] : f.valid) =>
               Untold(t, Renumberings')
          /\ inbox'["WEST"] \subseteq inbox["WEST"]
      BY <1>6, <2>5, Sites DEF RunsCalmly
    <3> QED BY <1>1, <2>1, <2>3, <2>4, <3>1, <3>2 DEF EastFirst
  <2>6. CASE c = "EAST"
    <3>1. rs'["WEST"] = rs["WEST"] /\ rs'["EAST"] = t /\ rs["WEST"] \in ChannelState
      BY <1>2, <2>6, Sites DEF TypeOK
    <3>2. /\ ~rs["EAST"].online => ~t.online
          /\ \A f \in inbox'["WEST"] \ inbox["WEST"] : rs["EAST"].online => f.valid
      BY <1>6, <2>6, Sites DEF RunsCalmly
    <3> QED BY <1>1, <2>1, <2>2, <2>3, <2>4, <2>6, <3>1, <3>2 DEF EastFirst
  <2> QED BY <2>3, <2>4, <2>5, <2>6, Sites
<1> QED BY <1>4, <1>5, <1>6 DEF OnlineInv

\* The bounds as a call that may turn FAULTED leaves them: an unprovoked one
\* has reported no fault.
LEMMA UseFaultFacts ==
  ASSUME TypeOK, TypeOK', OnlineInv, NEW c \in Chan, NEW local \in Local, UseFault(c, local),
         UNCHANGED in_order
  PROVE  /\ \A k \in Kinds : left'[k] <= left[k]
         /\ Unprovoked' => ~local.faulted /\ CalmInv /\ EastFirst
         /\ left'["renumber"] = left["renumber"]
<1>0. /\ \A k \in Kinds : left[k] \in Nat
      /\ "fault" \in Kinds /\ "renumber" \in Kinds /\ "renumber" # "fault"
  BY DEF TypeOK, Kinds
<1>1. CASE TurnsFaulted(c, local)
  <2>1. Disturb("fault")
    BY <1>1 DEF UseFault
  <2>2. /\ left'["fault"] = left["fault"] - 1 /\ left'["renumber"] = left["renumber"]
        /\ \A k \in Kinds : left'[k] <= left[k]
    BY <1>0, <2>1, DisturbFacts
  <2>3. ~Unprovoked'
    BY <1>0, <2>2, LeftFacts
  <2> QED BY <2>2, <2>3
<1>2. CASE ~TurnsFaulted(c, local)
  <2>1. UNCHANGED left
    BY <1>2 DEF UseFault
  <2>2. \A k \in Kinds : left'[k] <= left[k]
    BY <1>0, <2>1
  <2>3. Unprovoked' => CalmInv /\ EastFirst
    BY <2>2, LeftFacts DEF OnlineInv
  <2>4. CalmInv => ~local.faulted
    BY <1>2 DEF TurnsFaulted, CalmInv, Calm
  <2> QED BY <2>1, <2>2, <2>3, <2>4
<1> QED BY <1>1, <1>2

\* The room WEST has for its count, as the cycles need it.
LEMMA Room ==
  ASSUME FewRenumberings, NEW k \in Nat, k <= Limit["renumber"]
  PROVE  Slack(k) + ANSWER_WINDOW < BOTH_STANDBY_CYCLES
<1>1. Limit["renumber"] \in Nat /\ ANSWER_WINDOW \in Nat /\ BOTH_STANDBY_CYCLES \in Nat
  BY PairAssumption, PolicyAssumption DEF Kinds
<1>2. /\ Slack(k + 1) = Slack(k) + ANSWER_WINDOW /\ Slack(k) \in Nat
      /\ Slack(k + 1) <= Slack(Limit["renumber"] + 1) /\ Slack(Limit["renumber"] + 1) \in Nat
  <2>1. k + 1 \in Nat /\ Limit["renumber"] + 1 \in Nat /\ k + 1 <= Limit["renumber"] + 1
    BY <1>1
  <2> QED BY <2>1, SlackFacts
<1> QED BY <1>1, <1>2 DEF FewRenumberings

\* rte_site_role_execute() over a link, opened just before or not.
LEMMA LinkedRuns ==
  ASSUME TypeOK, TypeOK', OnlineInv, FewRenumberings, NEW c \in Chan,
         NEW start \in ChannelState, CanRun(c), ExecuteLinked(c, start),
         SameRoleAndStamps(start, rs[c]), UNCHANGED <<proc, startup_ts, in_order, stable>>
  PROVE  OnlineInv'
<1>1. PICK local \in LocalFacts(c), o \in SendOutcomes(c), rx \in ReceiveOutcomes(c),
           heard \in BOOLEAN :
        /\ rs' = [rs EXCEPT ![c] = execute_with_link(start, NextCycle(rs[c].app_cycle), local,
                                                     IsWest(c), o.acked, rx)]
        /\ \E emptied \in BOOLEAN :
             inbox' = Exchange(c, emptied, frame_of_cycle(start, NextCycle(rs[c].app_cycle), local),
                               o.delivered)
        /\ beacon' = BeaconTo(Peer(c), heard)
        /\ UseFault(c, local)
  BY Zenon DEF ExecuteLinked
<1> DEFINE t == execute_with_link(start, start.app_cycle + 1, local, IsWest(c), o.acked, rx)
           f == frame_of_cycle(start, NextCycle(rs[c].app_cycle), local)
<1>2. /\ NextCycle(rs[c].app_cycle) = start.app_cycle + 1 /\ proc[c] = "running"
      /\ rs' = [rs EXCEPT ![c] = t]
  <2>1. rs[c].app_cycle \in Nat /\ start.app_cycle = rs[c].app_cycle
    BY DEF SameRoleAndStamps, TypeOK, ChannelState
  <2>2. NextCycle(rs[c].app_cycle) = start.app_cycle + 1 /\ proc[c] = "running"
    BY <2>1, PairAssumption DEF CanRun, OnlineInv, NextCycle
  <2> QED BY <1>1, <2>2
<1>3. local \in Local /\ ~local.sibling_online
  BY DEF LocalFacts
<1>4. /\ o.acked \in BOOLEAN /\ o.delivered \in BOOLEAN /\ IsWest(c) \in BOOLEAN
      /\ rx \in [status: ReceiveStatus, frame: Frame]
      /\ rx.status = "OK" => rx.frame \in inbox[c]
  <2>1. rx \in [status: ReceiveStatus, frame: Frame] /\ o.acked \in BOOLEAN /\ o.delivered \in BOOLEAN
    BY LinkTypes, FrameType
  <2>2. rx.status = "OK" => rx.frame \in inbox[c]
    <3>1. Nothing("TIMEOUT").status # "OK" /\ Nothing("HARDWARE_FAULT").status # "OK"
      BY DEF Nothing
    <3>2. \/ rx \in [status: {"OK"}, frame: inbox[c]]
          \/ rx = Nothing("TIMEOUT") \/ rx = Nothing("HARDWARE_FAULT")
      BY DEF ReceiveOutcomes
    <3> QED BY <3>1, <3>2
  <2> QED BY <2>1, <2>2 DEF IsWest
<1>5. /\ \A k \in Kinds : left'[k] <= left[k]
      /\ Unprovoked' => ~local.faulted /\ CalmInv /\ EastFirst
      /\ left'["renumber"] = left["renumber"]
  BY <1>1, <1>3, UseFaultFacts
<1>6. /\ Renumberings \in Nat /\ Renumberings' = Renumberings
      /\ Slack(Renumberings) + ANSWER_WINDOW < BOTH_STANDBY_CYCLES
  <2>1. /\ Renumberings \in Nat /\ Renumberings' = Renumberings
        /\ Renumberings <= Limit["renumber"]
    <3>1. Renumberings' = Renumberings
      BY <1>5 DEF Renumberings
    <3> QED BY <1>5, <3>1, LeftFacts
  <2> QED BY <2>1, Room
<1>7. ASSUME Unprovoked' PROVE RunsCalmly(c, t)
  <2>1. ~local.faulted /\ Calm(rs[c]) /\ \A g \in inbox[c] \cup inbox[Peer(c)] : ~g.faulted
    BY <1>5, <1>7, Sites DEF CalmInv
  <2>2. Calm(start) /\ (Untold(rs[c], Renumberings) => Untold(start, Renumberings))
    BY <2>1 DEF Calm, Untold, SameRoleAndStamps
  <2>3. /\ Calm(t)
        /\ ~IsWest(c) /\ ~start.online => ~t.online
        /\ /\ Untold(start, Renumberings)
           /\ rx.status = "OK" => rx.frame.valid
           => Untold(t, Renumberings)
    <3>1. rx.status = "OK" => ~rx.frame.faulted
      BY <1>4, <2>1
    <3> QED BY <1>3, <1>4, <1>6, <2>1, <2>2, <3>1, CalmLinked
  <2>4. ~f.faulted /\ (rs[c].online => f.valid)
    BY <2>1 DEF frame_of_cycle, encode_frame, SameRoleAndStamps
  <2> HIDE DEF f, t
  <2>5. inbox'[c] \subseteq inbox[c] /\ \A g \in inbox'[Peer(c)] \ inbox[Peer(c)] : g = f
    <3>1. PICK emptied \in BOOLEAN : inbox' = Exchange(c, emptied, f, o.delivered)
      BY <1>1 DEF f
    <3>2. c # Peer(c) /\ Peer(c) \in Chan /\ inbox \in [Chan -> SUBSET Frame]
      BY DEF Peer, Chan, TypeOK
    <3> QED BY <3>1, <3>2 DEF Exchange
  <2> QED BY <1>4, <1>6, <2>2, <2>3, <2>4, <2>5 DEF RunsCalmly, SameRoleAndStamps
<1> HIDE DEF t
<1>8. Runs(c, t)
  BY <1>1, <1>2, <1>5 DEF Runs
<1> QED BY <1>7, <1>8, RunStep

\* rte_site_role_execute() whose reconnect fails.
LEMMA UnlinkedRuns ==
  ASSUME TypeOK, TypeOK', OnlineInv, FewRenumberings, NEW c \in Chan, ExecuteNoLink(c)
  PROVE  OnlineInv'
<1>1. PICK local \in LocalFacts(c) :
        /\ rs' = [rs EXCEPT ![c] = execute_without_link(rs[c], NextCycle(rs[c].app_cycle), local,
                                                        IsWest(c))]
        /\ UseFault(c, local)
  BY Zenon DEF ExecuteNoLink
<1> DEFINE t == execute_without_link(rs[c], rs[c].app_cycle + 1, local, IsWest(c))
<1>2. /\ CanRun(c) /\ UNCHANGED <<proc, inbox, startup_ts, beacon, in_order, stable>>
      /\ rs[c] \in ChannelState
  BY DEF ExecuteNoLink, TypeOK
<1>3. /\ NextCycle(rs[c].app_cycle) = rs[c].app_cycle + 1 /\ proc[c] = "running"
      /\ rs' = [rs EXCEPT ![c] = t]
  <2>1. NextCycle(rs[c].app_cycle) = rs[c].app_cycle + 1 /\ proc[c] = "running"
    BY <1>2, PairAssumption DEF CanRun, OnlineInv, NextCycle, ChannelState
  <2> QED BY <1>1, <2>1
<1>4. local \in Local /\ ~local.sibling_online /\ IsWest(c) \in BOOLEAN
  BY DEF LocalFacts, IsWest
<1>5. /\ \A k \in Kinds : left'[k] <= left[k]
      /\ Unprovoked' => ~local.faulted /\ CalmInv /\ EastFirst
      /\ left'["renumber"] = left["renumber"]
  BY <1>1, <1>2, <1>4, UseFaultFacts
<1>6. /\ Renumberings \in Nat /\ Renumberings' = Renumberings
      /\ Slack(Renumberings) + ANSWER_WINDOW < BOTH_STANDBY_CYCLES
  <2>1. Renumberings' = Renumberings
    BY <1>5 DEF Renumberings
  <2>2. Renumberings \in Nat /\ Renumberings <= Limit["renumber"]
    BY <1>2, <1>5, <2>1, LeftFacts
  <2> QED BY <2>1, <2>2, Room
<1>7. ASSUME Unprovoked' PROVE RunsCalmly(c, t)
  <2>1. ~local.faulted /\ Calm(rs[c])
    BY <1>5, <1>7 DEF CalmInv
  <2>2. /\ Calm(t)
        /\ ~IsWest(c) /\ ~rs[c].online => ~t.online
        /\ Untold(rs[c], Renumberings) => Untold(t, Renumberings)
    BY <1>2, <1>4, <1>6, <2>1, CalmUnlinked
  <2> HIDE DEF t
  <2> QED BY <1>2, <1>6, <2>2 DEF RunsCalmly
<1> HIDE DEF t
<1>8. Runs(c, t)
  BY <1>2, <1>3, <1>5 DEF Runs, BeaconTo
<1> QED BY <1>7, <1>8, RunStep

\* The calls that leave what EAST and WEST know of each other alone.
LEMMA SameRuns ==
  ASSUME TypeOK, TypeOK', OnlineInv, NEW c \in Chan, NEW t, proc[c] = "running",
         rs' = [rs EXCEPT ![c] = t], SameRoleAndStamps(t, rs[c]),
         \A k \in Kinds : left'[k] <= left[k],
         UNCHANGED <<proc, startup_ts, beacon, in_order, stable>>,
         Unprovoked' => /\ inbox'[c] \subseteq inbox[c]
                        /\ \A f \in inbox'[Peer(c)] \ inbox[Peer(c)] :
                             ~f.faulted /\ (rs[c].online => f.valid)
  PROVE  OnlineInv'
<1>1. Runs(c, t)
  BY DEF Runs, BeaconTo
<1>2. ASSUME Unprovoked' PROVE RunsCalmly(c, t)
  <2>1. Calm(rs[c]) /\ rs[c] \in ChannelState
    BY <1>2, LeftFacts DEF OnlineInv, CalmInv, TypeOK
  <2>2. Untold(rs[c], Renumberings) => Untold(rs[c], Renumberings')
    BY <2>1, LeftFacts
  <2>3. Calm(t) /\ (Untold(rs[c], Renumberings') => Untold(t, Renumberings'))
    BY <2>1 DEF Calm, Untold, SameRoleAndStamps
  <2> QED BY <1>2, <2>2, <2>3 DEF RunsCalmly, SameRoleAndStamps
<1> QED BY <1>1, <1>2, RunStep

\* A process that boots, or ends, starts over; its counterpart keeps what it knows.
LEMMA FreshStart ==
  ASSUME NEW s, s = InitChannel \/ s = init_channel_and_negotiator(InitChannel), NEW k \in Nat
  PROVE  ~s.online /\ Calm(s) /\ Untold(s, k)
<1>1. /\ ~s.online /\ ~s.local_faulted /\ ~s.peer_faulted /\ ~s.takeover_confirmed
      /\ s.peer_last_rx_cycle = 0 /\ s.both_standby_cycles = 0 /\ s.app_cycle = 0
  <2>1. CASE s = InitChannel
    BY <2>1 DEF InitChannel
  <2>2. CASE s = init_channel_and_negotiator(InitChannel)
    BY <2>2 DEF InitChannel, init_channel_and_negotiator
  <2> QED BY <2>1, <2>2
<1>2. Slack(k) \in Nat /\ ANSWER_WINDOW \in Nat
  BY SlackFacts, PolicyAssumption
<1> QED BY <1>1, <1>2 DEF Calm, Untold

\* Every step keeps the invariant.
LEMMA OnlineStep ==
  ASSUME TypeOK, TypeOK', OnlineInv, FewRenumberings, [Next]_vars
  PROVE  OnlineInv'
<1>0. /\ \A c \in Chan : /\ rs[c] \in ChannelState /\ startup_ts[c] \in Nat /\ beacon[c] \in Nat
                         /\ inbox[c] \subseteq Frame
      /\ \A k \in Kinds : left[k] \in Nat
      /\ StartInv /\ ~stable
      /\ Kinds = {"crash", "fault", "confirm", "renumber", "sync", "stall"}
  BY DEF TypeOK, OnlineInv, Kinds
<1>1. ASSUME NEW c \in Chan, Boot(c) PROVE OnlineInv'
  <2> DEFINE t == init_channel_and_negotiator(InitChannel)
             p == Peer(c)
  <2>0. PICK ts \in Stamps[c] : /\ startup_ts' = [startup_ts EXCEPT ![c] = ts]
                                /\ in_order' = (in_order /\ DrawnInOrder(c, ts))
    BY <1>1 DEF Boot
  <2>1. /\ UNCHANGED <<left, stable>> /\ proc[c] = "down"
        /\ proc'[c] = "starting" /\ rs'[c] = t /\ startup_ts'[c] = ts /\ beacon'[c] = 0
        /\ inbox'[c] = {} /\ ts \in Nat /\ (in_order' => in_order)
        /\ \A d \in Chan \ {c} : /\ proc'[d] = proc[d] /\ rs'[d] = rs[d]
                                 /\ startup_ts'[d] = startup_ts[d] /\ beacon'[d] = beacon[d]
                                 /\ inbox'[d] = inbox[d]
    BY <1>1, <2>0, PairAssumption DEF Boot, TypeOK
  <2>2. \A k \in Nat : ~t.online /\ Calm(t) /\ Untold(t, k)
    BY FreshStart
  <2>3. StartInv'
    BY <1>0, <2>1, <2>2 DEF StartInv
  <2> HIDE DEF t
  <2>4. ASSUME Unprovoked' PROVE CalmInv' /\ BeaconInv' /\ EastFirst'
    <3>1. /\ CalmInv /\ BeaconInv /\ EastFirst
          /\ Renumberings' = Renumberings /\ Renumberings \in Nat
      <4>1. \A k \in Kinds : left'[k] <= left[k]
        BY <1>0, <2>1
      <4> QED BY <2>1, <2>4, <4>1, LeftFacts DEF OnlineInv, Renumberings
    <3>2. CalmInv'
      BY <2>1, <2>2, <3>1 DEF CalmInv
    <3>3. Engaged(p) => ~decide_online(c, ts, startup_ts[p])
      BY <2>0, <2>4 DEF Unprovoked, DrawnInOrder
    <3>4. Engaged(p) => decide_online(p, startup_ts[p], ts)
      <4>1. startup_ts[p] \in Nat /\ (IsWest(p) <=> ~IsWest(c))
        BY <1>0, Sites
      <4> QED BY <2>1, <3>3, <4>1 DEF decide_online
    <3>5. BeaconInv'
      <4>1. /\ c # p /\ p \in Chan /\ Peer(p) = c /\ \A d \in Chan : d = c \/ d = p
            /\ proc'[p] = proc[p] /\ beacon'[p] = beacon[p] /\ startup_ts'[p] = startup_ts[p]
        BY <2>1, Sites
      <4>2. proc[p] = "starting" /\ beacon[p] # 0 => Engaged(p)
        BY DEF Engaged
      <4> HIDE DEF p
      <4> QED BY <2>1, <3>4, <4>1, <4>2 DEF BeaconInv, decide_online
    <3>6. CASE c = "WEST"
      <4>1. proc["EAST"] = "running" => startup_ts["EAST"] < ts
        BY <2>1, <3>4, <3>6, Sites DEF Engaged, decide_online
      <4> QED BY <1>0, <2>1, <2>2, <3>1, <3>2, <3>5, <3>6, <4>1, Sites DEF EastFirst, StartInv
    <3>7. CASE c = "EAST"
      <4>1. proc["WEST"] # "down" /\ ts < startup_ts["WEST"] => ~Engaged("WEST")
        BY <1>0, <2>1, <3>4, <3>7, Sites DEF decide_online
      <4>2. /\ proc["WEST"] # "down" /\ ~Engaged("WEST")
            => rs["WEST"] = t /\ inbox["WEST"] = {}
        BY <1>0, Sites DEF Engaged, StartInv, TypeOK, t
      <4>3. /\ ~rs'["EAST"].online /\ rs'["WEST"] = rs["WEST"] /\ inbox'["WEST"] = inbox["WEST"]
            /\ proc'["WEST"] = proc["WEST"] /\ startup_ts'["WEST"] = startup_ts["WEST"]
            /\ startup_ts'["EAST"] = ts
        BY <2>1, <2>2, <3>1, <3>7, Sites
      <4> QED BY <2>2, <3>1, <3>2, <3>5, <4>1, <4>2, <4>3 DEF EastFirst
    <3> QED BY <3>6, <3>7, Sites
  <2>5. \A k \in Kinds : left'[k] <= Limit[k]
    BY <2>1 DEF OnlineInv
  <2> QED BY <1>0, <2>1, <2>3, <2>4, <2>5 DEF OnlineInv
<1>2. ASSUME NEW c \in Chan, StartBeacon(c) PROVE OnlineInv'
  <2>1. /\ UNCHANGED <<proc, rs, inbox, startup_ts, in_order, left, stable>> /\ Peer(c) \in Chan
        /\ beacon' = BeaconTo(Peer(c), TRUE)
    BY <1>2, Sites DEF StartBeacon
  <2>2. BeaconInv => BeaconInv'
    BY <2>1, BeaconKeeps
  <2> QED BY <2>1, <2>2
          DEF OnlineInv, Unprovoked, Undisturbed, StartInv, CalmInv, EastFirst, Renumberings
<1>3. ASSUME NEW c \in Chan, StartSettle(c) PROVE OnlineInv'
  <2> DEFINE t == [rs[c] EXCEPT !.online = decide_online(c, startup_ts[c], beacon[c])]
  <2>1. /\ UNCHANGED <<inbox, startup_ts, in_order, left, stable>> /\ proc[c] = "starting"
        /\ proc'[c] = "running" /\ rs'[c] = t /\ beacon'[c] = 0 /\ beacon[c] # 0
        /\ \A d \in Chan \ {c} : /\ proc'[d] = proc[d] /\ rs'[d] = rs[d] /\ beacon'[d] = beacon[d]
    BY <1>3 DEF StartSettle, TypeOK
  <2>2. /\ t.online <=> decide_online(c, startup_ts[c], beacon[c])
        /\ Calm(rs[c]) => Calm(t)
        /\ \A k : Untold(rs[c], k) /\ ~t.online => Untold(t, k)
    BY <1>0 DEF Calm, Untold, ChannelState
  <2> HIDE DEF t
  <2>3. StartInv'
    BY <1>0, <2>1 DEF StartInv
  <2>4. ASSUME Unprovoked' PROVE CalmInv' /\ BeaconInv' /\ EastFirst'
    <3>1. CalmInv /\ BeaconInv /\ EastFirst /\ Renumberings' = Renumberings
      BY <2>1, <2>4 DEF OnlineInv, Unprovoked, Undisturbed, Renumberings
    <3>2. CalmInv'
      BY <2>1, <2>2, <3>1 DEF CalmInv
    <3>3. proc[Peer(c)] # "down" =>
            \/ beacon[c] = startup_ts[Peer(c)]
            \/ decide_online(c, startup_ts[c], startup_ts[Peer(c)])
      BY <2>1, <3>1 DEF BeaconInv
    <3>4. BeaconInv'
      <4>1. \A d \in Chan : d # c => Peer(d) = c
        BY Sites
      <4> QED BY <2>1, <3>1, <4>1 DEF BeaconInv, decide_online
    <3>5. CASE c = "WEST"
      <4>1. rs'["EAST"] = rs["EAST"] /\ proc'["EAST"] = proc["EAST"]
        BY <2>1, <3>5, Sites
      <4>2. proc["EAST"] # "down" /\ startup_ts["EAST"] < startup_ts["WEST"] => ~t.online
        BY <1>0, <2>2, <3>3, <3>5, Sites DEF decide_online
      <4>3. proc["EAST"] = "starting" \/ rs["EAST"].online => proc["EAST"] # "down"
        BY <1>0, Sites DEF StartInv
      <4> QED BY <2>1, <2>2, <3>1, <3>2, <3>4, <3>5, <4>1, <4>2, <4>3 DEF EastFirst
    <3>6. CASE c = "EAST"
      <4>1. rs'["WEST"] = rs["WEST"] /\ proc'["WEST"] = proc["WEST"]
        BY <2>1, <3>6, Sites
      <4>2. t.online /\ proc["WEST"] # "down" => startup_ts["EAST"] < startup_ts["WEST"]
        BY <1>0, <2>2, <3>3, <3>6, Sites DEF decide_online
      <4> QED BY <2>1, <3>1, <3>2, <3>4, <3>6, <4>1, <4>2 DEF EastFirst
    <3> QED BY <3>5, <3>6, Sites
  <2>5. \A k \in Kinds : left'[k] <= Limit[k]
    BY <2>1 DEF OnlineInv
  <2> QED BY <1>0, <2>1, <2>3, <2>4, <2>5 DEF OnlineInv
<1>4. ASSUME NEW c \in Chan, Crash(c) \/ FlushFaulted(c) PROVE OnlineInv'
  <2>1. /\ UNCHANGED <<in_order, stable>> /\ proc'[c] = "down" /\ rs'[c] = InitChannel
        /\ startup_ts'[c] = 0 /\ beacon'[c] = 0
        /\ \A d \in Chan \ {c} : /\ proc'[d] = proc[d] /\ rs'[d] = rs[d]
                                 /\ startup_ts'[d] = startup_ts[d] /\ beacon'[d] = beacon[d]
    BY <1>4 DEF Crash, FlushFaulted, Stopped, TypeOK
  <2>2. \A k \in Nat : ~InitChannel.online /\ Calm(InitChannel) /\ Untold(InitChannel, k)
    BY FreshStart
  <2>3. \A k \in Kinds : left'[k] <= left[k] /\ (k # "crash" => left'[k] = left[k])
    BY <1>0, <1>4, DisturbFacts DEF Crash, FlushFaulted, Stopped
  <2>4. StartInv'
    BY <1>0, <2>1, <2>2 DEF StartInv
  <2>5. ASSUME Unprovoked' PROVE CalmInv' /\ BeaconInv' /\ EastFirst'
    <3>1. CalmInv /\ BeaconInv /\ EastFirst /\ Renumberings' = Renumberings
      <4>1. Unprovoked
        BY <2>1, <2>3, <2>5, LeftFacts
      <4> QED BY <1>0, <2>3, <4>1 DEF OnlineInv, Renumberings
    <3>2. /\ inbox'[c] = {} /\ \A d \in Chan \ {c} : inbox'[d] = inbox[d]
      <4>1. ~FlushFaulted(c)
        BY <3>1 DEF FlushFaulted, CalmInv, Calm
      <4> QED BY <1>4, <4>1 DEF Crash, TypeOK
    <3>3. CalmInv'
      BY <2>1, <2>2, <3>1, <3>2 DEF CalmInv
    <3>4. BeaconInv'
      <4>1. \A d \in Chan : d # c => Peer(d) = c
        BY Sites
      <4> QED BY <2>1, <4>1 DEF BeaconInv
    <3>5. CASE c = "WEST"
      BY <2>1, <3>3, <3>4, <3>5 DEF EastFirst
    <3>6. CASE c = "EAST"
      BY <2>1, <2>2, <3>3, <3>4, <3>6, Sites DEF EastFirst
    <3> QED BY <3>5, <3>6, Sites
  <2>6. \A k \in Kinds : left'[k] <= Limit[k]
    BY <2>1, <2>3, LeftFacts
  <2> QED BY <1>0, <2>1, <2>4, <2>5, <2>6 DEF OnlineInv
<1>5. ASSUME NEW c \in Chan, Execute(c) PROVE OnlineInv'
  <2>1. CanRun(c) /\ ExecuteLinked(c, rs[c]) /\ UNCHANGED <<proc, startup_ts, in_order, stable>>
    BY <1>5 DEF Execute
  <2>2. SameRoleAndStamps(rs[c], rs[c])
    BY DEF SameRoleAndStamps
  <2> QED BY <1>0, <2>1, <2>2, LinkedRuns
<1>6. ASSUME NEW c \in Chan, ExecuteReconnect(c) PROVE OnlineInv'
  <2> DEFINE s == init_channel_and_negotiator(rs[c])
  <2>1. CanRun(c) /\ ExecuteLinked(c, s) /\ UNCHANGED <<proc, startup_ts, in_order, stable>>
    BY <1>6 DEF ExecuteReconnect
  <2>2. s \in ChannelState /\ SameRoleAndStamps(s, rs[c])
    BY <1>0 DEF init_channel_and_negotiator, ChannelState, SameRoleAndStamps
  <2> HIDE DEF s
  <2> QED BY <2>1, <2>2, LinkedRuns
<1>7. ASSUME NEW c \in Chan, ServiceLink(c) PROVE OnlineInv'
  <2>1. /\ proc[c] = "running" /\ UNCHANGED <<proc, startup_ts, beacon, in_order, left, stable>>
        /\ \A k \in Kinds : left'[k] <= left[k]
    BY <1>0, <1>7 DEF ServiceLink
  <2>2. PICK frames \in {{}, inbox[c]} :
          /\ rs' = [rs EXCEPT ![c] = service_link(rs[c], frames)]
          /\ inbox' = [inbox EXCEPT ![c] = inbox[c] \ frames]
    BY <1>7 DEF ServiceLink
  <2> DEFINE s == [rs[c] EXCEPT !.cycle = rs[c].app_cycle]
             t == service_link(rs[c], frames)
  <2>3. s \in ChannelState /\ SameRoleAndStamps(s, rs[c])
    BY <1>0 DEF ChannelState, SameRoleAndStamps
  <2>4. t = IF frames = {} THEN s ELSE receive_frame(s, CHOOSE f \in frames : TRUE)
    BY DEF service_link
  <2>5. inbox'[c] \subseteq inbox[c] /\ inbox'[Peer(c)] = inbox[Peer(c)]
    BY <2>2 DEF TypeOK, Peer
  <2>6. rs' = [rs EXCEPT ![c] = t]
    BY <2>2
  <2> HIDE DEF s, t
  <2>7. CASE frames = {}
    BY <2>1, <2>3, <2>4, <2>5, <2>6, <2>7, SameRuns
  <2>8. CASE frames # {}
    <3> DEFINE f == CHOOSE f \in frames : TRUE
    <3>1. f \in inbox[c] /\ f \in Frame
      BY <1>0, <2>8
    <3> HIDE DEF f
    <3>2. ASSUME Unprovoked' PROVE RunsCalmly(c, t)
      <4>1. Calm(rs[c]) /\ ~f.faulted
        BY <2>1, <3>1, <3>2, LeftFacts DEF OnlineInv, CalmInv
      <4>2. Calm(s)
        BY <2>3, <4>1 DEF Calm, SameRoleAndStamps
      <4>3. Calm(t) /\ t.online = s.online /\ (f.valid => t.peer_online_now)
        BY <2>3, <2>4, <2>8, <3>1, <4>1, <4>2, CalmReceive DEF f
      <4> QED BY <2>3, <2>5, <3>1, <4>3 DEF RunsCalmly, SameRoleAndStamps, Untold
    <3>3. Runs(c, t)
      BY <2>1, <2>6 DEF Runs, BeaconTo
    <3> QED BY <3>2, <3>3, RunStep
  <2> QED BY <2>7, <2>8
<1>8. ASSUME NEW c \in Chan, SyncStandby(c) PROVE OnlineInv'
  <2> DEFINE s == sync_prepare(rs[c], [faulted |-> rs[c].local_faulted])
             f == encode_frame(s.local_faulted, s.cycle, s.online)
  <2>1. /\ proc[c] = "running" /\ UNCHANGED <<proc, startup_ts, beacon, in_order, stable>>
        /\ Disturb("sync")
    BY <1>8 DEF SyncStandby
  <2>2. \A k \in Kinds : left'[k] <= left[k]
    BY <1>0, <2>1, DisturbFacts
  <2>3. /\ s \in ChannelState /\ SameRoleAndStamps(s, rs[c])
        /\ \A ok \in BOOLEAN : SameRoleAndStamps(sync_sent(s, ok), rs[c])
    BY <1>0, SyncKeeps
  <2>4. /\ \E t : /\ rs' = [rs EXCEPT ![c] = t]
                  /\ t = s \/ \E ok \in BOOLEAN : t = sync_sent(s, ok)
        /\ inbox' = inbox \/ \E delivered \in BOOLEAN : inbox' = Exchange(c, FALSE, f, delivered)
    BY <1>8 DEF SyncStandby, SendOutcomes
  <2>5. ~s.local_faulted => ~f.faulted /\ (s.online => f.valid)
    BY DEF encode_frame
  <2> HIDE DEF s, f
  <2>6. PICK t : rs' = [rs EXCEPT ![c] = t] /\ SameRoleAndStamps(t, rs[c])
    BY <2>3, <2>4
  <2>7. inbox'[c] \subseteq inbox[c] /\ \A g \in inbox'[Peer(c)] \ inbox[Peer(c)] : g = f
    <3>1. c # Peer(c) /\ Peer(c) \in Chan /\ inbox \in [Chan -> SUBSET Frame]
      BY DEF Peer, Chan, TypeOK
    <3> QED BY <2>4, <3>1 DEF Exchange
  <2>8. Unprovoked' => ~s.local_faulted
    BY <2>1, <2>2, <2>3, LeftFacts DEF OnlineInv, CalmInv, Calm, SameRoleAndStamps
  <2>9. s.online = rs[c].online
    BY <2>3 DEF SameRoleAndStamps
  <2> QED BY <2>1, <2>2, <2>5, <2>6, <2>7, <2>8, <2>9, SameRuns
<1>9. ASSUME NEW c \in Chan, TakeoverConfirm(c) PROVE OnlineInv'
  <2> DEFINE t == on_takeover_confirm(rs[c])
  <2>1. /\ proc[c] = "running" /\ UNCHANGED <<proc, startup_ts, beacon, in_order, stable>>
        /\ Disturb("confirm") /\ rs' = [rs EXCEPT ![c] = t]
    BY <1>9 DEF TakeoverConfirm
  <2>2. (\A k \in Kinds : left'[k] <= left[k]) /\ left'["confirm"] = left["confirm"] - 1
    BY <1>0, <2>1, DisturbFacts
  <2>3. ~Unprovoked'
    BY <1>0, <2>1, <2>2, LeftFacts
  <2> HIDE DEF t
  <2>4. Runs(c, t)
    BY <2>1, <2>2 DEF Runs, BeaconTo
  <2> QED BY <2>3, <2>4, RunStep
<1>10. ASSUME NEW c \in Chan, Renumber(c) PROVE OnlineInv'
  <2>1. /\ proc[c] = "running" /\ UNCHANGED <<proc, inbox, startup_ts, beacon, in_order, stable>>
        /\ Disturb("renumber")
    BY <1>10 DEF Renumber
  <2>2. PICK n \in 0..rs[c].app_cycle : rs' = [rs EXCEPT ![c] = [rs[c] EXCEPT !.app_cycle = n]]
    BY <1>10, Zenon DEF Renumber
  <2> DEFINE t == [rs[c] EXCEPT !.app_cycle = n]
  <2>3. (\A k \in Kinds : left'[k] <= left[k]) /\ left'["renumber"] = left["renumber"] - 1
    BY <1>0, <2>1, DisturbFacts
  <2>4. /\ t.app_cycle = n /\ t.online = rs[c].online /\ t.local_faulted = rs[c].local_faulted
        /\ t.peer_faulted = rs[c].peer_faulted /\ t.takeover_confirmed = rs[c].takeover_confirmed
        /\ t.peer_online_now = rs[c].peer_online_now
        /\ t.peer_last_rx_cycle = rs[c].peer_last_rx_cycle
        /\ t.both_standby_cycles = rs[c].both_standby_cycles
    BY <1>0 DEF ChannelState
  <2>5. rs' = [rs EXCEPT ![c] = t] /\ n \in Nat /\ rs[c].both_standby_cycles \in Nat
    BY <1>0, <2>2 DEF ChannelState
  <2> HIDE DEF t
  <2>6. Untold(rs[c], Renumberings) => Untold(t, Renumberings')
    <3>1. Renumberings \in Nat /\ Renumberings' = Renumberings + 1
      <4>1. Renumberings \in Nat
        BY <2>1, <2>3, LeftFacts
      <4> QED BY <1>0, <2>3, <4>1, PairAssumption DEF Renumberings
    <3>2. /\ Slack(Renumberings') = Slack(Renumberings) + ANSWER_WINDOW
          /\ Slack(Renumberings) \in Nat /\ ANSWER_WINDOW \in Nat
      BY <3>1, SlackFacts, PolicyAssumption
    <3> QED BY <2>4, <2>5, <3>2 DEF Untold
  <2>7. Unprovoked' => Calm(t)
    BY <2>1, <2>3, <2>4, LeftFacts DEF OnlineInv, CalmInv, Calm
  <2>8. Unprovoked' => RunsCalmly(c, t)
    BY <2>1, <2>4, <2>6, <2>7 DEF RunsCalmly
  <2>9. Runs(c, t)
    BY <2>1, <2>3, <2>5 DEF Runs, BeaconTo
  <2> QED BY <2>8, <2>9, RunStep
<1>11. ASSUME NEW c \in Chan, NoteLostContact(c) PROVE OnlineInv'
  <2> DEFINE t == note_lost_contact(rs[c])
  <2>1. /\ proc[c] = "running" /\ UNCHANGED <<proc, inbox, startup_ts, beacon, in_order, stable>>
        /\ Disturb("stall") /\ rs' = [rs EXCEPT ![c] = t]
    BY <1>11 DEF NoteLostContact
  <2>2. SameRoleAndStamps(t, rs[c])
    BY <1>0 DEF note_lost_contact, ChannelState, SameRoleAndStamps
  <2>3. \A k \in Kinds : left'[k] <= left[k]
    BY <1>0, <2>1, DisturbFacts
  <2> HIDE DEF t
  <2> QED BY <2>1, <2>2, <2>3, SameRuns
<1>12. CASE UNCHANGED vars
  BY <1>12 DEF vars, OnlineInv, StartInv, Unprovoked, Undisturbed, CalmInv, BeaconInv,
               decide_online, EastFirst, Renumberings
<1> QED BY <1>1, <1>2, <1>3, <1>4, <1>5, <1>6, <1>7, <1>8, <1>9, <1>10, <1>11, <1>12,
           UnlinkedRuns DEF Next

\* handle_send_miss_and_link_teardown(): "so a partition can never leave two
\* ONLINE sites".  For every window and threshold, and any number of crashes,
\* boots, lost or delayed frames and cycles, two sites are never both ONLINE
\* unless one was FAULTED, the dispatcher confirmed a takeover or a boot drew a
\* timestamp that wins against an engaged counterpart's, as long as the
\* applications restart their own numbering less often than the tie-break can
\* tell from an answering counterpart.
THEOREM NeverBothOnline == FewRenumberings => (Spec => []NeverBothOnlineUnprovoked)
<1>1. Init => OnlineInv
  <2> SUFFICES ASSUME Init PROVE OnlineInv
    OBVIOUS
  <2>1. /\ left = Limit /\ ~stable
        /\ \A c \in Chan : /\ rs[c] = InitChannel /\ inbox[c] = {} /\ proc[c] = "down"
                           /\ startup_ts[c] = 0 /\ beacon[c] = 0
    BY DEF Init
  <2>2. ~InitChannel.online /\ Calm(InitChannel)
    BY FreshStart
  <2>3. \A k \in Kinds : left[k] <= Limit[k]
    BY <2>1, PairAssumption
  <2>4. StartInv /\ CalmInv /\ BeaconInv /\ EastFirst
    BY <2>1, <2>2, Sites DEF StartInv, CalmInv, BeaconInv, EastFirst
  <2> QED BY <2>1, <2>3, <2>4 DEF OnlineInv
<1>2. FewRenumberings /\ TypeOK /\ TypeOK' /\ OnlineInv /\ [Next]_vars => OnlineInv'
  BY OnlineStep
<1>3. OnlineInv => NeverBothOnlineUnprovoked
  BY Sites DEF OnlineInv, StartInv, EastFirst, Untold, Unprovoked, NeverBothOnlineUnprovoked,
               AtMostOneOnline
<1> SUFFICES ASSUME FewRenumberings PROVE Spec => []NeverBothOnlineUnprovoked
  OBVIOUS
<1>4. TypeOK /\ TypeOK' /\ OnlineInv /\ [Next]_vars => OnlineInv'
  BY <1>2
<1> QED BY <1>1, <1>3, <1>4, TypeCorrect, PTL DEF Spec

=============================================================================
