---------------------------- MODULE SiteRolePair ----------------------------
(***************************************************************************)
(* Two sites, WEST and EAST, with one channel each, running the site role  *)
(* service over an unreliable inter-site link: boot and startup            *)
(* negotiation, the cycle, the fast tick, the standby sync, the FAULTED    *)
(* flush, the dispatcher's confirmation, crashes and a cycle counter the   *)
(* application renumbers.  The sites' cycles interleave freely.            *)
(*                                                                         *)
(* The link keeps at most one unread frame per direction, the single       *)
(* pending_data slot of rte_dual_channel: a newer frame replaces an older  *)
(* one, or is lost.  A send is acknowledged only if it was delivered.      *)
(***************************************************************************)
EXTENDS SiteRole

CONSTANTS
  MAX_CYCLE,      \* last cycle number, UINT32_MAX in the code; then comes 0
  DisturbedCycles,\* bound on the cycle numbers of a system that is not stable
  AgeCap,         \* bound on the ages kept in hist; above every window in the
                  \* runs whose properties look at them
  MaxBoots,       \* bound on boots
  Stamps,         \* the startup timestamps each host's clock or configuration
                  \* may give
  Limit,          \* bound on each kind of disturbance, see Kinds
  MaxDisturbances,\* bound on all of them together
  ReadyInputs     \* values of own_ready the application may report

VARIABLES
  proc,       \* "down", "starting" (inside rte_site_role_start) or "running"
  rs,         \* the service state of each channel
  inbox,      \* the unread frame at each channel: a set of at most one
  startup_ts, \* startup timestamp of each channel, 0 before the first boot
  beacon,     \* startup timestamp a starting channel has heard, 0 if none
  boots,      \* boots so far
  in_order,   \* no boot beside an engaged counterpart drew a timestamp that
              \* wins against it, see DrawnInOrder; for the properties only
  left,       \* disturbances left of each kind
  budget,     \* disturbances left in all
  stable,     \* the link and both hosts have stopped failing
  turn,       \* once stable, the channel whose cycle comes next
  hist        \* what really happened, for the properties only

vars == <<proc, rs, inbox, startup_ts, beacon, boots, in_order, left, budget, stable, turn, hist>>

Chan == {"WEST", "EAST"}
Peer(c) == IF c = "WEST" THEN "EAST" ELSE "WEST"
IsWest(c) == c = "WEST"

\* Crashes and fault reboots, faults, dispatcher confirmations, cycle restarts
\* outside a promotion, snapshots of sync_standby, note_lost_contact calls.
Kinds == {"crash", "fault", "confirm", "renumber", "sync", "stall"}

ASSUME PairAssumption ==
  /\ MAX_CYCLE \in Nat /\ DisturbedCycles \in 0..MAX_CYCLE /\ AgeCap \in Nat
  /\ MaxBoots \in Nat /\ MaxDisturbances \in Nat /\ Limit \in [Kinds -> Nat]
  /\ ReadyInputs \subseteq BOOLEAN /\ Stamps \in [Chan -> SUBSET (Nat \ {0})]

Older(a) == IF a < AgeCap THEN a + 1 ELSE a

\* silent, snap, conf: cycles executed since the last frame, the last valid
\* snapshot and the last confirmation, which a restarted counter ages at once;
\* confirmed: a confirmation was given and nothing was heard since; renumbered:
\* the application restarted its counter and no snapshot was heard since.
History == [silent: 0..AgeCap, snap: 0..AgeCap, conf: 0..AgeCap,
            confirmed: BOOLEAN, renumbered: BOOLEAN]

NoHistory == [silent |-> AgeCap, snap |-> AgeCap, conf |-> AgeCap,
              confirmed |-> FALSE, renumbered |-> FALSE]

Init ==
  /\ proc = [c \in Chan |-> "down"]
  /\ rs = [c \in Chan |-> InitChannel]
  /\ inbox = [c \in Chan |-> {}]
  /\ startup_ts = [c \in Chan |-> 0]
  /\ beacon = [c \in Chan |-> 0]
  /\ boots = 0
  /\ in_order = TRUE
  /\ left = Limit
  /\ budget = MaxDisturbances
  /\ stable = FALSE
  /\ turn = "WEST"
  /\ hist = [c \in Chan |-> NoHistory]

-----------------------------------------------------------------------------
(* Link *)

Listening(c) == proc[c] # "down" /\ rs[c].link

\* Outcomes of sending to the counterpart of c: unread there, acknowledged.
\* A stable link loses nothing.
SendOutcomes(c) ==
  {o \in [delivered: BOOLEAN, acked: BOOLEAN] :
     /\ o.acked => o.delivered
     /\ o.delivered => Listening(Peer(c))
     /\ stable => o.acked = Listening(Peer(c))}

\* A receive that returned no frame.
Nothing(status) == [status |-> status, frame |-> encode_frame(FALSE, 0, FALSE)]

\* What a non-blocking receive may return to c; a frame may still be on its way.
ReceiveOutcomes(c) ==
  {r \in [status: {"OK"}, frame: inbox[c]]
           \cup {Nothing("TIMEOUT"), Nothing("HARDWARE_FAULT")} :
     /\ r.status = "HARDWARE_FAULT" => inbox[c] = {} /\ ~stable
     /\ stable /\ inbox[c] # {} => r.status = "OK"}

\* The inboxes after c emptied (or kept) its own and sent f.
Exchange(c, emptied, f, delivered) ==
  [inbox EXCEPT ![c] = IF emptied THEN {} ELSE @,
                ![Peer(c)] = IF delivered THEN {f} ELSE @]

Heard(h, f) ==
  [h EXCEPT !.silent = 0, !.snap = IF f.valid THEN 0 ELSE @, !.conf = AgeCap,
            !.confirmed = FALSE, !.renumbered = @ /\ ~f.valid]

OneCycleOlder(h) ==
  [h EXCEPT !.silent = Older(@), !.snap = Older(@), !.conf = Older(@)]

-----------------------------------------------------------------------------
(* Start-up *)

\* One of the bounded disturbances happens.
Disturb(kind) ==
  /\ left[kind] > 0
  /\ budget > 0
  /\ left' = [left EXCEPT ![kind] = @ - 1]
  /\ budget' = budget - 1

\* decide_online(): the older timestamp wins, WEST's smaller id on a tie.
decide_online(c, own_ts, peer_ts) ==
  own_ts < peer_ts \/ (own_ts = peer_ts /\ IsWest(c))

\* The channel has left its start-up, or has heard from its counterpart in it.
Engaged(c) ==
  proc[c] # "down" /\ (proc[c] = "running" \/ beacon[c] # 0 \/ inbox[c] # {})

\* The negotiation does not let c, booting with ts, win against a counterpart
\* that is engaged already.
DrawnInOrder(c, ts) ==
  Engaged(Peer(c)) => ~decide_online(c, ts, startup_ts[Peer(c)])

\* The host (re)starts the process: rte_site_role_init(), the startup timestamp
\* and the link of rte_site_role_start().  The timestamp is configured or read
\* from the host's own clock, which no other host's clock is compared with.
Boot(c) ==
  /\ proc[c] = "down"
  /\ boots < MaxBoots
  /\ boots' = boots + 1
  /\ proc' = [proc EXCEPT ![c] = "starting"]
  /\ rs' = [rs EXCEPT ![c] = init_channel_and_negotiator(InitChannel)]
  /\ \E ts \in Stamps[c] :
       /\ startup_ts' = [startup_ts EXCEPT ![c] = ts]
       /\ in_order' = (in_order /\ DrawnInOrder(c, ts))
  /\ beacon' = [beacon EXCEPT ![c] = 0]
  /\ inbox' = [inbox EXCEPT ![c] = {}]
  /\ hist' = [hist EXCEPT ![c] = NoHistory]
  /\ UNCHANGED <<left, budget, stable, turn>>

\* A STATE frame of the negotiator, sent in every round of the start-up loop
\* and in every cycle; only a starting counterpart takes its role from it.
BeaconTo(c, got) ==
  IF got /\ proc[c] = "starting"
  THEN [beacon EXCEPT ![c] = startup_ts[Peer(c)]]
  ELSE beacon

StartBeacon(c) ==
  /\ proc[c] = "starting"
  /\ proc[Peer(c)] = "starting"
  /\ beacon' = BeaconTo(Peer(c), TRUE)
  /\ beacon' # beacon
  /\ UNCHANGED <<proc, rs, inbox, startup_ts, boots, in_order, left, budget, stable, turn, hist>>

\* The startup negotiation leaves IDLE on the counterpart's first beacon.
StartSettle(c) ==
  /\ proc[c] = "starting"
  /\ beacon[c] # 0
  /\ proc' = [proc EXCEPT ![c] = "running"]
  /\ rs' = [rs EXCEPT ![c].online = decide_online(c, startup_ts[c], beacon[c])]
  /\ beacon' = [beacon EXCEPT ![c] = 0]
  /\ UNCHANGED <<inbox, startup_ts, boots, in_order, left, budget, stable, turn, hist>>

\* The process ends: its link and whatever it had not read are gone.
Stopped(c) ==
  /\ Disturb("crash")
  /\ proc' = [proc EXCEPT ![c] = "down"]
  /\ rs' = [rs EXCEPT ![c] = InitChannel]
  /\ beacon' = [beacon EXCEPT ![c] = 0]
  /\ hist' = [hist EXCEPT ![c] = NoHistory]
  /\ startup_ts' = [startup_ts EXCEPT ![c] = 0]
  /\ UNCHANGED <<boots, in_order, stable, turn>>

\* A silent crash, or a start-up negotiation that timed out.
Crash(c) ==
  /\ proc[c] # "down"
  /\ ~stable
  /\ inbox' = [inbox EXCEPT ![c] = {}]
  /\ Stopped(c)

\* rte_site_role_flush_faulted() and rte_site_role_shutdown() before a fault
\* reboot: a last frame with the FAULTED notice and no snapshot.
FlushFaulted(c) ==
  /\ proc[c] = "running"
  /\ ~stable
  /\ rs[c].local_faulted
  /\ \E o \in SendOutcomes(c) :
       inbox' = Exchange(c, TRUE, encode_frame(TRUE, 0, FALSE),
                         o.delivered /\ rs[c].link)
  /\ Stopped(c)

-----------------------------------------------------------------------------
(* The cycle *)

NextCycle(n) == IF n = MAX_CYCLE THEN 0 ELSE n + 1

CanRun(c) ==
  /\ proc[c] = "running"
  /\ stable \/ rs[c].app_cycle < DisturbedCycles
  /\ stable => turn = c

\* The local facts of a cycle; a stable host is healthy and ready, and there is
\* no A/B sibling.
LocalFacts(c) ==
  {l \in Local :
     /\ l.own_ready \in ReadyInputs
     /\ ~l.sibling_online /\ ~l.sibling_ready /\ ~l.sibling_reachable
     /\ l.faulted => ~stable
     /\ stable => l.own_ready}

TurnsFaulted(c, local) == local.faulted /\ ~rs[c].local_faulted

UseFault(c, local) ==
  IF TurnsFaulted(c, local) THEN Disturb("fault") ELSE UNCHANGED <<left, budget>>

ExecuteLinked(c, start) ==
  LET cycle == NextCycle(rs[c].app_cycle) IN
  \E local \in LocalFacts(c), o \in SendOutcomes(c), rx \in ReceiveOutcomes(c),
     heard \in BOOLEAN :
    LET next == execute_with_link(start, cycle, local, IsWest(c), o.acked, rx) IN
    /\ heard => Listening(Peer(c)) /\ proc[Peer(c)] = "starting"
    /\ rs' = [rs EXCEPT ![c] = next]
    /\ inbox' = Exchange(c, rx.status = "OK" \/ ~next.link,
                         frame_of_cycle(start, cycle, local), o.delivered)
    /\ beacon' = BeaconTo(Peer(c), heard)
    /\ UseFault(c, local)
    /\ hist' = [hist EXCEPT ![c] = IF rx.status = "OK"
                                   THEN Heard(OneCycleOlder(@), rx.frame)
                                   ELSE OneCycleOlder(@)]

\* rte_site_role_execute() with the link open.
Execute(c) ==
  /\ CanRun(c)
  /\ rs[c].link
  /\ ExecuteLinked(c, rs[c])
  /\ turn' = IF stable THEN Peer(c) ELSE turn
  /\ UNCHANGED <<proc, startup_ts, boots, in_order, stable>>

\* rte_site_role_execute() that first reopens a closed link.
ExecuteReconnect(c) ==
  /\ CanRun(c)
  /\ ~rs[c].link
  /\ ExecuteLinked(c, init_channel_and_negotiator(rs[c]))
  /\ turn' = IF stable THEN Peer(c) ELSE turn
  /\ UNCHANGED <<proc, startup_ts, boots, in_order, stable>>

\* rte_site_role_execute() whose reconnect attempt fails.
ExecuteNoLink(c) ==
  LET cycle == NextCycle(rs[c].app_cycle) IN
  /\ CanRun(c)
  /\ ~rs[c].link
  /\ ~stable
  /\ \E local \in LocalFacts(c) :
       LET next == execute_without_link(rs[c], cycle, local, IsWest(c)) IN
       /\ rs' = [rs EXCEPT ![c] = next]
       /\ UseFault(c, local)
  /\ hist' = [hist EXCEPT ![c] = OneCycleOlder(@)]
  /\ turn' = IF stable THEN Peer(c) ELSE turn
  /\ UNCHANGED <<proc, inbox, startup_ts, beacon, boots, in_order, stable>>

\* rte_site_role_service_link() on the fast tick: the unread frame, if it has
\* arrived.
ServiceLink(c) ==
  /\ proc[c] = "running"
  /\ rs[c].link
  /\ \E frames \in {{}, inbox[c]} :
       /\ rs' = [rs EXCEPT ![c] = service_link(@, frames)]
       /\ inbox' = [inbox EXCEPT ![c] = @ \ frames]
       /\ hist' = [hist EXCEPT ![c] = IF frames = {} THEN @
                                      ELSE Heard(@, CHOOSE f \in frames : TRUE)]
  /\ UNCHANGED <<proc, startup_ts, beacon, boots, in_order, left, budget, stable, turn>>

\* rte_site_role_sync_standby() before the output commit, with the local facts
\* of the cycle.
SyncStandby(c) ==
  LET s == sync_prepare(rs[c], [faulted |-> rs[c].local_faulted]) IN
  /\ proc[c] = "running"
  /\ Disturb("sync")
  /\ IF sync_is_due(s)
     THEN \E o \in SendOutcomes(c) :
            /\ rs' = [rs EXCEPT ![c] = sync_sent(s, o.acked)]
            /\ inbox' = Exchange(c, FALSE,
                          encode_frame(s.local_faulted, s.cycle, s.online),
                          o.delivered)
     ELSE /\ rs' = [rs EXCEPT ![c] = s]
          /\ UNCHANGED inbox
  /\ UNCHANGED <<proc, startup_ts, beacon, boots, in_order, stable, turn, hist>>

-----------------------------------------------------------------------------
(* Environment *)

\* The dispatcher confirms that the other site is not ONLINE.
TakeoverConfirm(c) ==
  /\ proc[c] = "running"
  /\ Disturb("confirm")
  /\ ~rs[c].online
  /\ rs' = [rs EXCEPT ![c] = on_takeover_confirm(@)]
  /\ hist' = [hist EXCEPT ![c].conf = 0, ![c].confirmed = TRUE]
  /\ UNCHANGED <<proc, inbox, startup_ts, beacon, boots, in_order, stable, turn>>

\* The application renumbers its cycles from a state transfer of its own.
Renumber(c) ==
  /\ proc[c] = "running"
  /\ Disturb("renumber")
  /\ \E n \in 0..rs[c].app_cycle :
       /\ n # rs[c].app_cycle
       /\ rs' = [rs EXCEPT ![c].app_cycle = n]
  /\ hist' = [hist EXCEPT ![c].renumbered = TRUE, ![c].conf = AgeCap]
  /\ UNCHANGED <<proc, inbox, startup_ts, beacon, boots, in_order, stable, turn>>

\* The application stalled while ONLINE and says so.
NoteLostContact(c) ==
  /\ proc[c] = "running"
  /\ Disturb("stall")
  /\ rs[c].online
  /\ rs' = [rs EXCEPT ![c] = note_lost_contact(@)]
  /\ UNCHANGED <<proc, inbox, startup_ts, beacon, boots, in_order, stable, turn, hist>>

\* From here on both sites run with the same period over a working link.
Stabilise ==
  /\ ~stable
  /\ \A c \in Chan : proc[c] = "running"
  /\ stable' = TRUE
  /\ UNCHANGED <<proc, rs, inbox, startup_ts, beacon, boots, in_order, left, budget, turn, hist>>

Next ==
  \E c \in Chan :
    \/ Boot(c) \/ StartBeacon(c) \/ StartSettle(c) \/ Crash(c)
    \/ FlushFaulted(c) \/ Execute(c) \/ ExecuteReconnect(c)
    \/ ExecuteNoLink(c) \/ ServiceLink(c) \/ SyncStandby(c)
    \/ TakeoverConfirm(c) \/ Renumber(c) \/ NoteLostContact(c)

Spec == Init /\ [][Next]_vars

\* The step in which c's cycle runs once the system is stable: only Execute
\* and ExecuteReconnect pass the turn on, and one of them is then enabled.
CycleRuns(c) == stable /\ turn = c /\ turn' = Peer(c)

\* The cyclic executive keeps calling execute on both sites, and in the end the
\* disturbances are over.
LiveNext == Next \/ Stabilise

LiveSpec ==
  /\ Init /\ [][LiveNext]_vars
  /\ WF_vars(Stabilise)
  /\ \A c \in Chan : WF_turn(CycleRuns(c))

-----------------------------------------------------------------------------
(* Properties *)

\* Every variable keeps its type; the link holds what encode_frame() built and
\* every channel what its C structure can hold.
TypeOK ==
  /\ proc \in [Chan -> {"down", "starting", "running"}]
  /\ rs \in [Chan -> ChannelState]
  /\ inbox \in [Chan -> SUBSET Frame]
  /\ startup_ts \in [Chan -> Nat]
  /\ beacon \in [Chan -> Nat]
  /\ boots \in Nat /\ budget \in Nat /\ in_order \in BOOLEAN
  /\ left \in [Kinds -> Nat]
  /\ stable \in BOOLEAN
  /\ turn \in Chan
  /\ hist \in [Chan -> History]

Promoted(c) ==
  proc[c] = "running" /\ proc'[c] = "running" /\ ~rs[c].online /\ rs'[c].online

Demoted(c) ==
  proc[c] = "running" /\ proc'[c] = "running" /\ rs[c].online /\ ~rs'[c].online

\* Nobody was FAULTED and the dispatcher confirmed nothing.
Undisturbed ==
  left["fault"] = Limit["fault"] /\ left["confirm"] = Limit["confirm"]

AtMostOneOnline == ~(rs["WEST"].online /\ rs["EAST"].online)

\* handle_send_miss_and_link_teardown(): "so a partition can never leave two
\* ONLINE sites".  Whatever the link loses or delays, however often channels
\* crash and restart and whatever a boot hears, two sites are never both ONLINE
\* while nobody was FAULTED and the dispatcher confirmed nothing, provided that
\* the hosts' clocks are in order: no channel that boots beside a counterpart
\* which has run already, or has heard from it, draws a timestamp that wins
\* against the counterpart's.  Two channels that start afresh may draw any.
NeverBothOnlineUnprovoked == in_order /\ Undisturbed => AtMostOneOnline

\* ADR-040: "two ONLINE sites are excluded".  The same whatever the clocks say;
\* rte_site_role_start() takes the timestamp from rte_timer_now() of its host.
TwoOnlineExcluded == Undisturbed => AtMostOneOnline

\* REQ-SITEROLE-003: a channel whose counterpart has really been silent for
\* longer than the answer window becomes ONLINE only if the last thing it heard
\* was a FAULTED notice, or if the dispatcher confirmed after that, at most
\* TAKEOVER_CONFIRM_VALID_CYCLES executed cycles ago.  A counter that the
\* application restarted may make an old confirmation look young (renumbered).
PromotionIsJustified(c) ==
  Promoted(c) =>
    \/ hist'[c].silent <= ANSWER_WINDOW
    \/ rs'[c].peer_faulted
    \/ hist'[c].confirmed /\ hist'[c].conf <= TAKEOVER_CONFIRM_VALID_CYCLES
    \/ hist'[c].renumbered

\* Whatever rte_site_role_execute() decides, silence alone promotes nobody.
SilenceNeverPromotes == [][\A c \in Chan : PromotionIsJustified(c)]_vars

\* Rule 5: a healthy channel gives up ONLINE only to a counterpart it has really
\* heard from within the answer window, or in the first cycles of a numbering
\* it took over, when the reset stamp passes for a fresh one.
YieldIsToLivePeer(c) ==
  Demoted(c) /\ ~rs'[c].local_faulted =>
    \/ hist'[c].silent <= ANSWER_WINDOW
    \/ rs'[c].cycle <= ANSWER_WINDOW
    \/ hist'[c].renumbered

\* Whatever rte_site_role_execute() decides, ONLINE is given up only to a live
\* counterpart.
YieldOnlyToLivePeer == [][\A c \in Chan : YieldIsToLivePeer(c)]_vars

\* update_standby_warmth(): a cycle that runs over an open link never promotes
\* with a snapshot older than the data timeout, except in the first cycles of
\* a numbering it took over.
LinkedPromotionIsFresh(c) ==
  /\ Promoted(c) /\ STANDBY_SYNC
  /\ rs[c].link \/ rs'[c].link
  /\ rs'[c].peer_snapshot_valid
  => \/ hist'[c].snap <= STANDBY_DATA_TIMEOUT_CYCLES
     \/ rs'[c].cycle <= STANDBY_DATA_TIMEOUT_CYCLES
     \/ hist'[c].renumbered

\* Every takeover of rte_site_role_execute() over an open link is a fresh one.
LinkedTakeoverIsFresh == [][\A c \in Chan : LinkedPromotionIsFresh(c)]_vars

OneOnline == rs["WEST"].online # rs["EAST"].online

\* Rule 5 with no lost-contact history on either side: only an alarm is raised.
UnresolvedDualOnline ==
  \A c \in Chan : rs[c].online /\ ~rs[c].lost_peer_while_online

\* REQ-SITEROLE-011: whatever happened before (crashes, faults, takeovers, both
\* sites yielding to each other, a counter that wraps), once both sites run
\* their cycles over a working link exactly one of them is ONLINE for good; the
\* exception is the dual ONLINE that rule 5 reports and leaves to the operator.
SettlesOnOneOnline == stable ~> [](OneOnline \/ UnresolvedDualOnline)
=============================================================================
