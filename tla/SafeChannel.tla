---------------------------- MODULE SafeChannel ----------------------------
(***************************************************************************)
(* The safe channel of redundancy/safechannel/rte_safechannel.c: a factory *)
(* that opens its netlinks one by one, sets up a dual channel or a voter   *)
(* over them, and undoes what it did when a step fails.                    *)
(*                                                                         *)
(* Any step can fail, and the application manager can end the setup phase  *)
(* at any moment between two steps.  What travels over the channel is the  *)
(* matter of DualChannel and Voting; here the engine is the set of links   *)
(* it is made of and how many of them are up or healthy.                   *)
(***************************************************************************)
EXTENDS Integers, Lifecycle

CONSTANTS MAX_LINKS      \* RTE_SAFECHANNEL_MAX_LINKS

ASSUME SafeChannelAssumption == MAX_LINKS \in Nat

VARIABLES
  channel,  \* rte_safechannel_t: type, is_open, link_count and link_handles
  net,      \* the netlinks open in the layer below, without those whose
            \* handles a second open() has overwritten: they are lost for good
  engine,   \* the links registered with the dual channel or the voter
  up,       \* the links that engine reports up (dual) or healthy (voter)
  want,     \* link count the open() in progress asks for
  pc        \* where it stands

safeChannelVars == <<channel, net, engine, up, want, pc, locked>>

ChannelTypes == {"DUAL_REDUNDANT", "VITAL_VOTED"}
Links == 1..MAX_LINKS
\* While the links are being opened link_count counts them; the code has a loop
\* variable for that and stores the count after the last one.
Closed(type) == [type |-> type, is_open |-> FALSE, link_count |-> 0, link_handles |-> {}]

SafeChannelInit ==
  /\ channel = Closed("DUAL_REDUNDANT") /\ net = {} /\ engine = {} /\ up = {}
  /\ want = 0 /\ pc = "idle" /\ LifecycleInit

\* rte_netlink_close() for every handle among the first count.
safechannel_close_links(count) ==
  /\ net' = net \ {i \in channel.link_handles : i <= count}
  /\ channel' = [channel EXCEPT !.link_handles = {i \in @ : i > count},
                                !.link_count = 0, !.is_open = FALSE]

-----------------------------------------------------------------------------
(* rte_safechannel_open() *)

\* good: every endpoint that connects has a host, the message size is not 0.
\* The arguments are tested after the channel is cleared: a refused open()
\* also loses the links of a channel that was open.
rte_safechannel_open(type, n, good) ==
  /\ pc = "idle"
  /\ channel' = Closed(type)
  /\ net' = {}
  /\ engine' = {} /\ up' = {}
  /\ want' = n
  /\ pc' = IF n \in Links /\ good THEN "links" ELSE "idle"
  /\ UNCHANGED locked

\* Mutant: the links opened before the one that failed stay open.
open_failed_keeps ==
  channel' = [channel EXCEPT !.link_handles = {}] /\ UNCHANGED net
\* A link does not open: the ones before it are closed.
open_failed == safechannel_close_links(channel.link_count)

\* The next link of safechannel_open_dual() or safechannel_open_vital(), one
\* call of rte_netlink_open().
safechannel_open_one_endpoint ==
  LET i == channel.link_count + 1 IN
  /\ pc = "links" /\ i <= want
  /\ \/ /\ channel' = [channel EXCEPT !.link_handles = @ \cup {i}, !.link_count = i]
        /\ net' = net \cup {i}
        /\ pc' = IF i = want THEN "engine" ELSE "links"
     \/ /\ open_failed
        /\ pc' = "idle"
  /\ UNCHANGED <<engine, up, want, locked>>

Undo == safechannel_close_links(channel.link_count)

\* rte_dual_channel_init() takes all links at once and knows no lock.
open_dual_engine ==
  /\ pc = "engine" /\ channel.type = "DUAL_REDUNDANT"
  /\ engine' = channel.link_handles /\ up' = {}
  /\ channel' = [channel EXCEPT !.is_open = TRUE]
  /\ pc' = "idle"
  /\ UNCHANGED <<net, want, locked>>

\* rte_voter_init(), refused once the setup phase is over (or for a strategy
\* or a quorum it does not take).
open_vital_engine ==
  /\ pc = "engine" /\ channel.type = "VITAL_VOTED"
  /\ \/ /\ rte_lifecycle_check_setup_allowed /\ pc' = "register" /\ UNCHANGED <<channel, net>>
     \/ /\ Undo /\ pc' = "idle"
  /\ UNCHANGED <<engine, up, want, locked>>

\* rte_channel_init() and rte_voter_register_channel() for the next link.
open_vital_register ==
  /\ pc = "register"
  /\ IF ~rte_lifecycle_check_setup_allowed
     THEN Undo /\ pc' = "idle" /\ UNCHANGED <<engine, up>>
     ELSE \E i \in channel.link_handles :
            /\ i \notin engine /\ \A j \in channel.link_handles : j < i => j \in engine
            /\ engine' = engine \cup {i} /\ up' = up \cup {i}
            /\ IF engine' = channel.link_handles
               THEN channel' = [channel EXCEPT !.is_open = TRUE] /\ pc' = "idle"
               ELSE UNCHANGED <<channel, pc>>
            /\ UNCHANGED net
  /\ UNCHANGED <<want, locked>>

-----------------------------------------------------------------------------
(* The open channel *)

\* Sends and receives through the dual channel find links up and down; the
\* health of a voter's channel is set by the application.
Traffic ==
  /\ pc = "idle" /\ channel.is_open
  /\ up' \in SUBSET engine
  /\ UNCHANGED <<channel, net, engine, want, pc, locked>>

rte_safechannel_get_status ==
  IF ~channel.is_open \/ up = {} THEN "DOWN"
  ELSE IF up # 1..channel.link_count THEN "DEGRADED" ELSE "FULL"

\* A second close does nothing.
rte_safechannel_close ==
  /\ pc = "idle" /\ channel.is_open
  /\ safechannel_close_links(channel.link_count)
  /\ engine' = {} /\ up' = {}
  /\ UNCHANGED <<want, pc, locked>>

\* By the application manager, between any two steps.
safechannel_locked ==
  /\ rte_lifecycle_lock
  /\ UNCHANGED <<channel, net, engine, up, want, pc>>

SafeChannelNext ==
  \/ \E type \in ChannelTypes, n \in 0..(MAX_LINKS + 1) : rte_safechannel_open(type, n, TRUE)
  \/ \E type \in ChannelTypes, n \in Links : rte_safechannel_open(type, n, FALSE)
  \/ safechannel_open_one_endpoint
  \/ open_dual_engine \/ open_vital_engine \/ open_vital_register
  \/ Traffic \/ rte_safechannel_close \/ safechannel_locked

SafeChannelSpec == SafeChannelInit /\ [][SafeChannelNext]_safeChannelVars

-----------------------------------------------------------------------------
(* Properties.                                                             *)

\* A refused or failed open() leaves nothing behind, at whichever step it
\* failed: between two calls the links open below are exactly those of the
\* open channel.
NoLinkLeftBehind ==
  pc = "idle" => net = IF channel.is_open THEN 1..channel.link_count ELSE {}

\* FULL is never claimed for a channel that works on fewer links than were
\* asked for, and an open channel has all of them in its engine: there is no
\* partly registered voter that would reach a quorum too easily.
FullMeansEveryLink ==
  /\ channel.is_open => engine = 1..want /\ engine \subseteq net
  /\ rte_safechannel_get_status = "FULL" <=> channel.is_open /\ up = 1..want

\* rte_safechannel_open() and get_status(): NoLinkLeftBehind and
\* FullMeansEveryLink.
LinksAreAccounted == NoLinkLeftBehind /\ FullMeansEveryLink
=============================================================================
