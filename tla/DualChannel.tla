---------------------------- MODULE DualChannel ----------------------------
(***************************************************************************)
(* Two endpoints of a dual channel (rte_dual_channel.c) over LinkCount     *)
(* redundant links, each link one message channel with its own sequence    *)
(* counters (rte_dual_msgchannel.c).  A send transmits on one link after   *)
(* the other and waits on each for its acknowledgement, serving whatever   *)
(* else arrives there; a receive polls every link once.  The endpoints     *)
(* interleave at every frame.                                              *)
(*                                                                         *)
(* The network (external) keeps frames in order per link; it may lose,     *)
(* repeat, delay, misdirect or corrupt a frame, and an endpoint may        *)
(* restart, MaxDisturbances times in all.                                  *)
(***************************************************************************)
EXTENDS Naturals, Sequences, FiniteSets, SequencesExt

CONSTANTS
  LinkCount,        \* config->link_count, at most RTE_DUAL_CHANNEL_MAX_LINKS
  SEQ_MOD,          \* sequence numbers are uint32_t: 2^32 in the code
  RESYNC,           \* resync_on_sequence_error, the same at both ends
  MaxCalls,         \* bound on the calls of each endpoint before they are stable
  MaxDisturbances,  \* bound on disturbances
  Disturbances      \* the kinds that may happen, a subset of Kinds

\* A send that the netlink layer refuses, a fault reported by a receive, an
\* acknowledgement that comes too late, and what the network does to frames.
Kinds == {"refused", "fault", "late", "lose", "repeat", "delay", "corrupt",
          "misdirect", "restart"}

ASSUME DualAssumption ==
  /\ LinkCount \in 1..4
  /\ SEQ_MOD \in Nat \ {0}
  /\ RESYNC \in BOOLEAN
  /\ MaxCalls \in [{"A", "B"} -> Nat] /\ MaxDisturbances \in Nat
  /\ Disturbances \subseteq Kinds

VARIABLES
  ch,        \* rte_dual_channel_t of each endpoint
  call,      \* the call each endpoint is executing
  net,       \* frames on their way to each endpoint, per link
  calls,     \* calls made so far by each endpoint
  left,      \* disturbances left
  stable,    \* the network and the endpoints no longer fail
  due,       \* once stable, the call each endpoint makes next
  last,      \* number of the last DATA or HEARTBEAT send of each endpoint
  accepted   \* per link, the numbers of the sends each endpoint took in

vars == <<ch, call, net, calls, left, stable, due, last, accepted>>

End == {"A", "B"}
Peer(e) == IF e = "A" THEN "B" ELSE "A"
Link == 1..LinkCount
Sequence == 0..(SEQ_MOD - 1)

FrameKind == {"DATA", "ACK", "STATE", "HEARTBEAT"}

\* rte_vital_message_t with the frame it carries: no is the acknowledged
\* sequence number of an ACK, and else the number of the send.
Frame == [from: End \cup {"other"}, sequence: Sequence, kind: FrameKind, no: Nat,
          intact: BOOLEAN]

\* rte_dual_channel_t: pending_data holds at most one unread DATA frame.
Channel == [links: [Link -> [next_sequence: Sequence, expected_sequence: Sequence]],
            link_up: [Link -> BOOLEAN],
            last_status: {"DOWN", "DEGRADED", "FULL"},
            pending_data: SUBSET Nat,
            pending_state: BOOLEAN]

Ops == {"idle", "send", "heartbeat", "receive", "send_state", "receive_state"}

\* The call in progress: the link it has come to, whether it waits there for the
\* acknowledgement of sequence, and whether a link reported a hard fault; status
\* is what the last completed call returned.
Call == [op: Ops, link: Link, waiting: BOOLEAN, sequence: Sequence,
         fault: BOOLEAN, status: {"OK", "TIMEOUT", "HARDWARE_FAULT"}]

Returned(status) == [op |-> "idle", link |-> 1, waiting |-> FALSE, sequence |-> 0,
                     fault |-> FALSE, status |-> status]

dual_channel_init ==
  [links |-> [i \in Link |-> [next_sequence |-> 0, expected_sequence |-> 0]],
   link_up |-> [i \in Link |-> FALSE],
   last_status |-> "DOWN",
   pending_data |-> {},
   pending_state |-> FALSE]

Init ==
  /\ ch = [e \in End |-> dual_channel_init]
  /\ call = [e \in End |-> Returned("OK")]
  /\ net = [e \in End |-> [i \in Link |-> <<>>]]
  /\ calls = [e \in End |-> 0]
  /\ left = MaxDisturbances
  /\ stable = FALSE
  /\ due = [e \in End |-> "send_state"]
  /\ last = [e \in End |-> 0]
  /\ accepted = [e \in End |-> [i \in Link |-> <<>>]]

-----------------------------------------------------------------------------
(* The message channel *)

NextSequence(n) == (n + 1) % SEQ_MOD

msgchannel_frame(c, e, i, kind, no) ==
  [from |-> e, sequence |-> c.links[i].next_sequence, kind |-> kind, no |-> no,
   intact |-> TRUE]

\* The counter moves on only after a send that went out.
msgchannel_send(c, i) == [c EXCEPT !.links[i].next_sequence = NextSequence(@)]

\* Mutant: the CRC is checked, the sequence number is not.
vital_message_verify_crc_only(f, expected) == f.intact

\* rte_checksum_vital_message_verify()
vital_message_verify(f, expected) == f.intact /\ f.sequence = expected

msgchannel_receive_status(c, e, i, f) ==
  IF f.from # Peer(e) THEN "HARDWARE_FAULT"
  ELSE IF vital_message_verify(f, c.links[i].expected_sequence) THEN "OK"
  ELSE "DATA_CORRUPTION"

\* Mutant: the resynchronisation expects the rejected number itself.
msgchannel_receive_resync_same(c, e, i, f) ==
  [c EXCEPT !.links[i].expected_sequence =
     CASE msgchannel_receive_status(c, e, i, f) = "OK" -> NextSequence(f.sequence)
       [] msgchannel_receive_status(c, e, i, f) = "DATA_CORRUPTION"
            /\ RESYNC /\ f.intact                      -> f.sequence
       [] OTHER                                        -> @]

\* An intact frame with another number is rejected, but a resynchronising
\* channel expects its successor next.
msgchannel_receive(c, e, i, f) ==
  [c EXCEPT !.links[i].expected_sequence =
     CASE msgchannel_receive_status(c, e, i, f) = "OK" -> NextSequence(f.sequence)
       [] msgchannel_receive_status(c, e, i, f) = "DATA_CORRUPTION"
            /\ RESYNC /\ f.intact                      -> NextSequence(f.sequence)
       [] OTHER                                        -> @]

-----------------------------------------------------------------------------
(* The dual channel *)

compute_status(link_up) ==
  IF \A i \in Link : link_up[i] THEN "FULL"
  ELSE IF \E i \in Link : link_up[i] THEN "DEGRADED" ELSE "DOWN"

\* Mutant: unread DATA is kept beside the newer frame.
poll_link_once_keeps(c, f) ==
  IF f.kind = "DATA" THEN [c EXCEPT !.pending_data = @ \cup {f.no}] ELSE c

\* Where a frame that was accepted goes; ACK is only reported to the sender.
poll_link_once(c, f) ==
  CASE f.kind = "DATA"  -> [c EXCEPT !.pending_data = {f.no}]
    [] f.kind = "STATE" -> [c EXCEPT !.pending_state = TRUE]
    [] OTHER            -> c

Acknowledged(f) == f.kind \in {"DATA", "HEARTBEAT"}

\* What the send returns: ACKs count for more than hard faults.
send_status(link_up, fault) ==
  IF \E i \in Link : link_up[i] THEN "OK"
  ELSE IF fault THEN "HARDWARE_FAULT" ELSE "TIMEOUT"

\* The send is through with link i: c is the channel, fault what it has seen.
LinkDone(e, c, i, up, fault) ==
  LET c1 == [c EXCEPT !.link_up[i] = up] IN
  IF i < LinkCount
  THEN /\ ch' = [ch EXCEPT ![e] = c1]
       /\ call' = [call EXCEPT ![e].link = i + 1, ![e].waiting = FALSE, ![e].fault = fault]
  ELSE /\ ch' = [ch EXCEPT ![e] = [c1 EXCEPT !.last_status = compute_status(c1.link_up)]]
       /\ call' = [call EXCEPT ![e] = Returned(send_status(c1.link_up, fault))]

\* The receive has polled link i; after the last one it hands over what is
\* pending.
LinkPolled(e, c, i, fault) ==
  IF i < LinkCount
  THEN /\ ch' = [ch EXCEPT ![e] = c]
       /\ call' = [call EXCEPT ![e].link = i + 1, ![e].fault = fault]
  ELSE IF call[e].op = "receive"
  THEN /\ ch' = [ch EXCEPT ![e] = [c EXCEPT !.pending_data = {}]]
       /\ call' = [call EXCEPT ![e] =
            Returned(IF c.pending_data # {} THEN "OK"
                     ELSE IF fault THEN "HARDWARE_FAULT" ELSE "TIMEOUT")]
  ELSE /\ ch' = [ch EXCEPT ![e] = [c EXCEPT !.pending_state = FALSE]]
       /\ call' = [call EXCEPT ![e] = Returned(IF c.pending_state THEN "OK" ELSE "TIMEOUT")]

-----------------------------------------------------------------------------
(* Calls *)

Disturb(kind) ==
  /\ kind \in Disturbances
  /\ ~stable
  /\ left > 0
  /\ left' = left - 1

\* The calls of one cycle of rte_site_role_execute(), in its order.
After(op) == CASE op = "send_state" -> "receive_state" [] op = "receive_state" -> "send"
               [] op = "send" -> "receive" [] OTHER -> "send_state"

CanCall(e, op) ==
  /\ call[e].op = "idle"
  /\ IF stable THEN due[e] = op ELSE calls[e] < MaxCalls[e]

CountCall(e, op) ==
  /\ calls' = IF stable THEN calls ELSE [calls EXCEPT ![e] = @ + 1]
  /\ due' = IF stable THEN [due EXCEPT ![e] = After(op)] ELSE due

\* rte_dual_channel_send() and rte_dual_channel_send_heartbeat() begin.
StartSend(e, op) ==
  /\ CanCall(e, op)
  /\ call' = [call EXCEPT ![e] = [Returned("OK") EXCEPT !.op = op]]
  /\ last' = [last EXCEPT ![e] = IF stable THEN 0 ELSE calls[e] + 1]
  /\ CountCall(e, op)
  /\ UNCHANGED <<ch, net, left, stable, accepted>>

\* rte_dual_channel_receive() and rte_dual_channel_receive_state_frame() begin;
\* what is already pending is returned at once.
StartReceive(e, op) ==
  /\ CanCall(e, op)
  /\ IF op = "receive" /\ ch[e].pending_data # {}
     THEN /\ ch' = [ch EXCEPT ![e].pending_data = {}]
          /\ call' = [call EXCEPT ![e] = Returned("OK")]
     ELSE IF op = "receive_state" /\ ch[e].pending_state
     THEN /\ ch' = [ch EXCEPT ![e].pending_state = FALSE]
          /\ call' = [call EXCEPT ![e] = Returned("OK")]
     ELSE /\ call' = [call EXCEPT ![e] = [Returned("OK") EXCEPT !.op = op]]
          /\ UNCHANGED ch
  /\ CountCall(e, op)
  /\ UNCHANGED <<net, left, stable, last, accepted>>

\* Some sends may be refused by the netlink layer.
Refuse(refused) == IF refused THEN Disturb("refused") ELSE UNCHANGED left

\* rte_dual_channel_send_state_frame(): every link, no acknowledgement.
SendState(e) ==
  /\ CanCall(e, "send_state")
  /\ \E out \in SUBSET Link :
       /\ Refuse(out # Link)
       /\ ch' = [ch EXCEPT ![e].links =
                   [i \in Link |-> IF i \in out THEN msgchannel_send(ch[e], i).links[i]
                                                ELSE @[i]]]
       /\ net' = [net EXCEPT ![Peer(e)] =
                   [i \in Link |-> IF i \in out
                      THEN Append(@[i], msgchannel_frame(ch[e], e, i, "STATE", 0))
                      ELSE @[i]]]
       /\ call' = [call EXCEPT ![e] = Returned(IF out # {} THEN "OK" ELSE "TIMEOUT")]
  /\ CountCall(e, "send_state")
  /\ UNCHANGED <<stable, last, accepted>>

Transmitting(e) == call[e].op \in {"send", "heartbeat"} /\ ~call[e].waiting

SendOnLink(e) ==
  LET i == call[e].link
      kind == IF call[e].op = "send" THEN "DATA" ELSE "HEARTBEAT" IN
  /\ Transmitting(e)
  /\ net' = [net EXCEPT ![Peer(e)][i] =
               Append(@, msgchannel_frame(ch[e], e, i, kind, last[e]))]
  /\ ch' = [ch EXCEPT ![e] = msgchannel_send(@, i)]
  /\ call' = [call EXCEPT ![e].waiting = TRUE,
                          ![e].sequence = ch[e].links[i].next_sequence]
  /\ UNCHANGED <<calls, left, stable, due, last, accepted>>

\* The netlink layer does not take the frame: the link is down for this round.
SendRefused(e) ==
  /\ Transmitting(e)
  /\ Disturb("refused")
  /\ \E hard \in BOOLEAN : LinkDone(e, ch[e], call[e].link, FALSE, call[e].fault \/ hard)
  /\ UNCHANGED <<net, calls, stable, due, last, accepted>>

Waiting(e) == call[e].op \in {"send", "heartbeat"} /\ call[e].waiting
Polling(e) == call[e].op \in {"receive", "receive_state"}

\* Mutant: any ACK will do.
MatchesAnyAck(e, f) == f.kind = "ACK"

\* ACK of this send on this link.
Matches(e, f) == f.kind = "ACK" /\ f.no = call[e].sequence

\* One frame is read from the link the call has come to; DATA and HEARTBEAT are
\* acknowledged at once, and nobody looks at the outcome of that send.
Poll(e) ==
  LET i == call[e].link
      f == Head(net[e][i])
      status == msgchannel_receive_status(ch[e], e, i, f)
      c1 == msgchannel_receive(ch[e], e, i, f)
      taken == status = "OK"
      c2 == IF taken THEN poll_link_once(c1, f) ELSE c1
      answered == taken /\ Acknowledged(f)
  IN
  /\ Waiting(e) \/ Polling(e)
  /\ net[e][i] # <<>>
  /\ \E ack \in {answered, FALSE} :
       LET c3 == IF ack THEN msgchannel_send(c2, i) ELSE c2 IN
       /\ Refuse(answered /\ ~ack)
       /\ net' = [net EXCEPT ![e][i] = Tail(@),
                             ![Peer(e)][i] = IF ack
                               THEN Append(@, msgchannel_frame(c2, e, i, "ACK", f.sequence))
                               ELSE @]
       /\ IF Polling(e) THEN LinkPolled(e, c3, i, call[e].fault \/ status = "HARDWARE_FAULT")
          ELSE IF taken /\ Matches(e, f) THEN LinkDone(e, c3, i, TRUE, call[e].fault)
          ELSE IF status = "HARDWARE_FAULT" THEN LinkDone(e, c3, i, FALSE, TRUE)
          ELSE ch' = [ch EXCEPT ![e] = c3] /\ UNCHANGED call
  /\ accepted' = IF answered /\ f.no # 0
                 THEN [accepted EXCEPT ![e][i] = Append(@, f.no)] ELSE accepted
  /\ UNCHANGED <<calls, stable, due, last>>

\* Nothing has arrived yet on the link a receive polls.
PollEmpty(e) ==
  /\ Polling(e)
  /\ stable => net[e][call[e].link] = <<>>
  /\ LinkPolled(e, ch[e], call[e].link, call[e].fault)
  /\ UNCHANGED <<net, calls, left, stable, due, last, accepted>>

\* The transport reports that the link is broken.
PollFault(e) ==
  /\ Disturb("fault")
  /\ \/ Waiting(e) /\ LinkDone(e, ch[e], call[e].link, FALSE, TRUE)
     \/ Polling(e) /\ LinkPolled(e, ch[e], call[e].link, TRUE)
  /\ UNCHANGED <<net, calls, stable, due, last, accepted>>

Blocked(e) == Waiting(e) /\ net[e][call[e].link] = <<>>

\* The frame of this send, or its acknowledgement, is still on its way.
AnswerPossible(e) ==
  LET i == call[e].link IN
  \/ \E k \in DOMAIN net[Peer(e)][i] :
       Acknowledged(net[Peer(e)][i][k]) /\ net[Peer(e)][i][k].sequence = call[e].sequence
  \/ \E k \in DOMAIN net[e][i] : Matches(e, net[e][i][k])

\* The wait ends without an acknowledgement when there is none to come, or
\* when both endpoints wait for each other on different links ...
AckTimeout(e) ==
  /\ Waiting(e)
  /\ ~AnswerPossible(e) \/ (Blocked(e) /\ Blocked(Peer(e)))
  /\ LinkDone(e, ch[e], call[e].link, FALSE, call[e].fault)
  /\ UNCHANGED <<net, calls, left, stable, due, last, accepted>>

\* ... or because the counterpart was slow.
AckLate(e) ==
  /\ Waiting(e)
  /\ Disturb("late")
  /\ LinkDone(e, ch[e], call[e].link, FALSE, call[e].fault)
  /\ UNCHANGED <<net, calls, stable, due, last, accepted>>

-----------------------------------------------------------------------------
(* Network and hosts *)

Lose(e, i) ==
  /\ Disturb("lose")
  /\ \E k \in DOMAIN net[e][i] : net' = [net EXCEPT ![e][i] = RemoveAt(@, k)]
  /\ UNCHANGED <<ch, call, calls, stable, due, last, accepted>>

Repeat(e, i) ==
  /\ Disturb("repeat")
  /\ net[e][i] # <<>>
  /\ net' = [net EXCEPT ![e][i] = Append(@, Head(@))]
  /\ UNCHANGED <<ch, call, calls, stable, due, last, accepted>>

Delay(e, i) ==
  /\ Disturb("delay")
  /\ Len(net[e][i]) > 1
  /\ net' = [net EXCEPT ![e][i] = Append(Tail(@), Head(@))]
  /\ UNCHANGED <<ch, call, calls, stable, due, last, accepted>>

Corrupt(e, i) ==
  /\ Disturb("corrupt")
  /\ net[e][i] # <<>>
  /\ net' = [net EXCEPT ![e][i][1].intact = FALSE]
  /\ UNCHANGED <<ch, call, calls, stable, due, last, accepted>>

Misdirect(e, i) ==
  /\ Disturb("misdirect")
  /\ net[e][i] # <<>>
  /\ net' = [net EXCEPT ![e][i][1].from = "other"]
  /\ UNCHANGED <<ch, call, calls, stable, due, last, accepted>>

\* The endpoint closes its links and opens them again: both counters of its
\* own restart, and what it had not read is gone.
Restart(e) ==
  /\ Disturb("restart")
  /\ ch' = [ch EXCEPT ![e] = dual_channel_init]
  /\ call' = [call EXCEPT ![e] = Returned("OK")]
  /\ net' = [net EXCEPT ![e] = [i \in Link |-> <<>>]]
  /\ last' = [last EXCEPT ![e] = 0]
  /\ UNCHANGED <<calls, stable, due, accepted>>

Stabilise ==
  /\ ~stable
  /\ stable' = TRUE
  /\ UNCHANGED <<ch, call, net, calls, left, due, last, accepted>>

Step(e) ==
  \/ StartSend(e, "send") \/ StartSend(e, "heartbeat")
  \/ StartReceive(e, "receive") \/ StartReceive(e, "receive_state")
  \/ SendState(e)
  \/ SendOnLink(e) \/ Poll(e) \/ PollEmpty(e) \/ AckTimeout(e)

Environment(e) ==
  \/ SendRefused(e) \/ PollFault(e) \/ AckLate(e) \/ Restart(e)
  \/ \E i \in Link : Lose(e, i) \/ Repeat(e, i) \/ Delay(e, i) \/ Corrupt(e, i)
                     \/ Misdirect(e, i)

Next == \E e \in End : Step(e) \/ Environment(e)

Spec == Init /\ [][Next]_vars

\* Both applications keep running their cycles, ack_timeout_ms elapses, and in
\* the end the disturbances are over.
LiveSpec ==
  /\ Init /\ [][Next \/ Stabilise]_vars
  /\ WF_vars(Stabilise)
  /\ \A e \in End : WF_vars(stable /\ Step(e)) /\ WF_vars(stable /\ AckTimeout(e))

-----------------------------------------------------------------------------
(* Properties *)

\* Every variable keeps its type; at most one DATA frame is pending.
TypeOK ==
  /\ ch \in [End -> Channel]
  /\ \A e \in End : Cardinality(ch[e].pending_data) <= 1
  /\ call \in [End -> Call]
  /\ net \in [End -> [Link -> Seq(Frame)]]
  /\ calls \in [End -> Nat] /\ left \in Nat /\ stable \in BOOLEAN
  /\ due \in [End -> Ops]
  /\ last \in [End -> Nat]
  /\ accepted \in [End -> [Link -> Seq(Nat)]]

Delivered(e, i) == last[e] \in Range(accepted[Peer(e)][i])

\* ADR-020: the check of the acknowledged sequence number "specifically defends
\* against a stale or misdirected ACK being accepted as confirmation of the
\* wrong send".  When a send has returned, FULL means that the counterpart took
\* in that very send on every link, and OK that it did so on one of them.
StatusTellsDelivery ==
  \A e \in End :
    call[e].op = "idle" /\ last[e] # 0 =>
      /\ \A i \in Link : ch[e].link_up[i] => Delivered(e, i)
      /\ ch[e].last_status = "FULL" => \A i \in Link : Delivered(e, i)
      /\ ch[e].last_status = "DEGRADED" => \E i \in Link : Delivered(e, i)

Promised == INSTANCE OrderedLinks WITH Ends <- End, Links <- Link, Other <- Peer, sent <- calls

\* "sequence_number defends against repetition/deletion/resequencing"
\* (rte_dual_msgchannel.h): the two endpoints implement OrderedLinks.  Over one
\* link no send is taken in twice or after a later one, and none that was not
\* made, whatever the network repeats, loses, delays, corrupts or misdirects.
ImplementsOrderedLinks == Promised!Spec

\* rte_dual_msgchannel_set_resync_on_sequence_error(): without it, after a
\* restart or a lost frame, "both ends reject each other for good".  With it,
\* once the disturbances are over every later send is acknowledged.
ResyncRecovers == stable ~> [](\A e \in End, i \in Link : ch[e].link_up[i])
=============================================================================
