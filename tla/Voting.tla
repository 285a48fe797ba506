------------------------------- MODULE Voting -------------------------------
(***************************************************************************)
(* Voting over redundant channels: the channel (rte_channel.c), the N-way  *)
(* voter (rte_voter.c) and the two-channel cross comparator                *)
(* (rte_cross_comparator.c).  Both engines are set up, given channels one  *)
(* by one, and then receive from their channels in order and compare what  *)
(* they got, while another task changes the channels' health or destroys   *)
(* one.  A disagreement is told to the application and then enters the     *)
(* configured safe-state level.                                            *)
(***************************************************************************)
EXTENDS Naturals, Sequences, FiniteSets, Lifecycle

CONSTANTS
  Channel,        \* the rte_channel_t objects
  Value,          \* what a channel can deliver
  Nothing,        \* nothing delivered: unhealthy, timed out or failed
  Compare(_, _),  \* the application's compare callback
  Configs,        \* the engine configurations in use
  MaxChannels     \* RTE_VOTER_MAX_CHANNELS

Strategies == {"2OO2", "2OO3", "NMR", "CROSS"}
Levels == {"DEGRADED", "SAFE"}
Config == [strategy: Strategies, quorum_size: Nat, callback: BOOLEAN, level: Levels]
Results == {"AGREED", "DISAGREED", "TIMEOUT", "INSUFFICIENT_QUORUM"}

\* A callback finds a value equal to itself; it need not be symmetric or transitive.
ASSUME VotingAssumption ==
  /\ Configs \subseteq Config /\ MaxChannels \in Nat /\ Nothing \notin Value
  /\ \A v \in Value : Compare(v, v)

VARIABLES
  chan,      \* initialized and health.is_healthy of each channel
  engine,    \* the voter or comparator: configuration and registered channels
  pc,        \* where the call in progress stands
  at,        \* the channel it polls next
  got,       \* what the channels polled so far delivered
  timeouts,  \* saw_timeout
  last,      \* the vote of that call: result, output and what it was taken over
  told       \* on_disagreement was called for it

polling == <<pc, at, got, timeouts>>
vars == <<chan, engine, locked, polling, last, told>>

NoEngine == [initialized |-> FALSE, channels |-> <<>>,
             config |-> [strategy |-> "CROSS", quorum_size |-> 0, callback |-> FALSE,
                         level |-> "DEGRADED"]]
NoVote == [result |-> "none", out |-> Nothing, got |-> <<>>]

Init ==
  /\ chan = [c \in Channel |-> [initialized |-> FALSE, healthy |-> FALSE]]
  /\ engine = NoEngine /\ LifecycleInit
  /\ pc = "idle" /\ at = 1 /\ got = <<>> /\ timeouts = FALSE
  /\ last = NoVote /\ told = FALSE

-----------------------------------------------------------------------------
(* Channels *)

rte_channel_init(c) ==
  /\ pc = "idle" /\ rte_lifecycle_check_setup_allowed
  /\ chan' = [chan EXCEPT ![c] = [initialized |-> TRUE, healthy |-> TRUE]]
  /\ UNCHANGED <<engine, locked, polling, last, told>>

\* Health is what someone says it is: errors never change it.
rte_channel_set_healthy(c, h) ==
  /\ pc # "halted"
  /\ chan' = [chan EXCEPT ![c].healthy = h]
  /\ UNCHANGED <<engine, locked, polling, last, told>>

rte_channel_destroy(c) ==
  /\ pc # "halted"
  /\ chan' = [chan EXCEPT ![c].initialized = FALSE]
  /\ UNCHANGED <<engine, locked, polling, last, told>>

-----------------------------------------------------------------------------
(* Setting up an engine *)

Registered == Len(engine.channels)

\* rte_voter_init() or rte_cross_comparator_init().
engine_init(cfg) ==
  /\ pc = "idle" /\ rte_lifecycle_check_setup_allowed
  /\ cfg.strategy = "NMR" => cfg.quorum_size > 0
  /\ engine' = [initialized |-> TRUE, channels |-> <<>>, config |-> cfg]
  /\ UNCHANGED <<chan, locked, polling, last, told>>

Capacity == IF engine.config.strategy = "CROSS" THEN 2 ELSE MaxChannels

\* Mutant: the table is found full one channel too late.
register_one_more(c) ==
  /\ pc = "idle" /\ rte_lifecycle_check_setup_allowed
  /\ engine.initialized /\ Registered <= Capacity
  /\ engine' = [engine EXCEPT !.channels = Append(@, c)]
  /\ UNCHANGED <<chan, locked, polling, last, told>>

\* The same channel may be registered twice.
engine_register_channel(c) ==
  /\ pc = "idle" /\ rte_lifecycle_check_setup_allowed
  /\ engine.initialized /\ Registered < Capacity
  /\ engine' = [engine EXCEPT !.channels = Append(@, c)]
  /\ UNCHANGED <<chan, locked, polling, last, told>>

engine_destroy ==
  /\ pc = "idle" /\ engine.initialized
  /\ engine' = [engine EXCEPT !.initialized = FALSE]
  /\ UNCHANGED <<chan, locked, polling, last, told>>

\* The application manager begins its loop (external to this module).
setup_ends ==
  /\ pc = "idle" /\ rte_lifecycle_lock
  /\ UNCHANGED <<chan, engine, polling, last, told>>

-----------------------------------------------------------------------------
(* What a vote decides *)

voter_channel_count_matches_strategy(cfg, count) ==
  CASE cfg.strategy \in {"2OO2", "CROSS"} -> count = 2
    [] cfg.strategy = "2OO3" -> count = 3
    [] cfg.strategy = "NMR" -> count >= 1 /\ cfg.quorum_size \in 1..count

voter_required_quorum(cfg) == IF cfg.strategy = "NMR" THEN cfg.quorum_size ELSE 2

voter_data_equal(cfg, x, y) == IF cfg.callback THEN Compare(x, y) ELSE x = y

voter_count_healthy ==
  Cardinality({i \in 1..Registered : chan[engine.channels[i]].healthy})

\* The channels that delivered something.
responded(g) == {i \in 1..Len(g) : g[i] # Nothing}

First(S) == CHOOSE i \in S : \A j \in S : i <= j

\* Mutant: everyone is compared with the first channel that delivered.
group_with_reference(cfg, g) ==
  [i \in 1..Len(g) |->
     IF g[i] # Nothing /\ voter_data_equal(cfg, g[i], g[First(responded(g))])
     THEN First(responded(g)) ELSE i]

\* The group of each channel, named by the first channel in it: a channel joins
\* the group of the first earlier one it agrees with.
voter_group_matching_responses(cfg, g) ==
  LET group[i \in 1..Len(g)] ==
        LET Agreeing == {j \in responded(g) : j < i /\ g[i] # Nothing /\ voter_data_equal(cfg, g[i], g[j])}
        IN  IF Agreeing = {} THEN i ELSE group[First(Agreeing)]
  IN  group

\* The members of each group.
members(cfg, g) ==
  LET group == voter_group_matching_responses(cfg, g)
  IN  [i \in 1..Len(g) |-> {j \in responded(g) : group[j] = i}]

\* The first of the largest groups.
best_group(cfg, g) ==
  LET m == members(cfg, g)
  IN  First({i \in 1..Len(g) : \A j \in 1..Len(g) : Cardinality(m[i]) >= Cardinality(m[j])})

best_count(cfg, g) == Cardinality(members(cfg, g)[best_group(cfg, g)])

too_few(cfg, g) == Cardinality(responded(g)) < voter_required_quorum(cfg)

\* The vote of rte_voter_receive() and rte_voter_vote_buffers().
vote(cfg, g, saw_timeout) ==
  IF too_few(cfg, g)
  THEN IF responded(g) = {} /\ saw_timeout THEN "TIMEOUT" ELSE "INSUFFICIENT_QUORUM"
  ELSE IF best_count(cfg, g) >= voter_required_quorum(cfg)
       THEN "AGREED" ELSE "DISAGREED"

\* The comparison of rte_cross_comparator_execute() and _execute_buffers().
compare(cfg, g, saw_timeout) ==
  IF saw_timeout THEN "TIMEOUT"
  ELSE IF too_few(cfg, g) THEN "INSUFFICIENT_QUORUM"
       ELSE IF voter_data_equal(cfg, g[1], g[2]) THEN "AGREED" ELSE "DISAGREED"

outcome(cfg, g, saw_timeout) ==
  IF cfg.strategy = "CROSS" THEN compare(cfg, g, saw_timeout) ELSE vote(cfg, g, saw_timeout)

\* The agreed data: the first member of the best group, or channel A.
agreed_data(cfg, g) == IF cfg.strategy = "CROSS" THEN g[1] ELSE g[best_group(cfg, g)]

\* A decision over g ends the polling.
decide(g, saw_timeout) ==
  LET cfg == engine.config
      result == outcome(cfg, g, saw_timeout)
  IN  /\ last' = [result |-> result, got |-> g,
                  out |-> IF result = "AGREED" THEN agreed_data(cfg, g) ELSE Nothing]
      /\ told' = FALSE
      /\ pc' = "decided"
      /\ at' = 1 /\ got' = <<>> /\ timeouts' = FALSE

-----------------------------------------------------------------------------
(* Voting *)

\* rte_voter_receive() or rte_cross_comparator_execute(): too few healthy
\* channels decide at once, otherwise the channels are polled one by one.
receive_begins ==
  /\ pc = "idle" /\ engine.initialized
  /\ voter_channel_count_matches_strategy(engine.config, Registered)
  /\ IF voter_count_healthy < voter_required_quorum(engine.config)
     THEN decide([i \in 1..Registered |-> Nothing], FALSE)
     ELSE pc' = "poll" /\ UNCHANGED <<at, got, timeouts, last, told>>
  /\ UNCHANGED <<chan, engine, locked>>

\* What rte_channel_receive() can return for a channel.
Deliveries(c) ==
  IF chan[c].initialized
  THEN {[status |-> "OK", data |-> v] : v \in Value}
         \cup {[status |-> e, data |-> Nothing] : e \in {"TIMEOUT", "FAULT"}}
  ELSE {[status |-> "NOT_INITIALIZED", data |-> Nothing]}

\* One more channel: the voter looks at its health again and passes over an
\* unhealthy one, the comparator does not.  The last one brings the decision.
receive_polls ==
  /\ pc = "poll"
  /\ \E d \in Deliveries(engine.channels[at]) :
       LET skipped == engine.config.strategy # "CROSS" /\ ~chan[engine.channels[at]].healthy
           g == Append(got, IF skipped THEN Nothing ELSE d.data)
           saw_timeout == timeouts \/ (~skipped /\ d.status = "TIMEOUT")
       IN  IF at = Registered
           THEN decide(g, saw_timeout)
           ELSE /\ at' = at + 1 /\ got' = g /\ timeouts' = saw_timeout
                /\ UNCHANGED <<pc, last, told>>
  /\ UNCHANGED <<chan, engine, locked>>

\* rte_voter_vote_buffers() or rte_cross_comparator_execute_buffers(): the data
\* are the caller's and no channel is involved.
vote_buffers(g) ==
  /\ pc = "idle" /\ engine.initialized
  /\ voter_channel_count_matches_strategy(engine.config, Len(g)) /\ Len(g) <= MaxChannels
  /\ decide(g, FALSE)
  /\ UNCHANGED <<chan, engine, locked>>

\* on_disagreement(), for every result but AGREED.
on_disagreement ==
  /\ pc = "decided" /\ last.result # "AGREED" /\ ~told
  /\ told' = TRUE
  /\ UNCHANGED <<chan, engine, locked, polling, last>>

\* Mutant: the safe state is entered for timeouts too.
safestate_on_any(result) == result # "AGREED"

enters_safestate(result) == result = "DISAGREED"

\* The call returns, unless it enters a level above DEGRADED.
vote_returns ==
  /\ pc = "decided" /\ (told \/ last.result = "AGREED")
  /\ IF enters_safestate(last.result) /\ engine.config.level # "DEGRADED"
     THEN pc' = "halted" /\ UNCHANGED <<last, told>>
     ELSE pc' = "idle" /\ last' = NoVote /\ told' = FALSE
  /\ UNCHANGED <<chan, engine, locked, at, got, timeouts>>

\* rte_voter_send(): the channels record errors, nothing else changes.
rte_voter_send ==
  /\ pc = "idle" /\ engine.initialized /\ engine.config.strategy # "CROSS"
  /\ voter_channel_count_matches_strategy(engine.config, Registered)
  /\ UNCHANGED vars

Next ==
  \/ \E c \in Channel :
       \/ rte_channel_init(c) \/ rte_channel_destroy(c)
       \/ \E h \in BOOLEAN : rte_channel_set_healthy(c, h)
       \/ engine_register_channel(c)
  \/ \E cfg \in Configs : engine_init(cfg)
  \/ engine_destroy \/ setup_ends \/ receive_begins \/ receive_polls \/ rte_voter_send
  \/ \E n \in 1..MaxChannels : \E g \in [1..n -> Value] : vote_buffers(g)
  \/ on_disagreement \/ vote_returns

Spec == Init /\ [][Next]_vars

-----------------------------------------------------------------------------
(* Properties *)

\* Every variable keeps its type.
TypeOK ==
  /\ chan \in [Channel -> [initialized: BOOLEAN, healthy: BOOLEAN]]
  /\ engine \in [initialized: BOOLEAN, channels: Seq(Channel), config: Config]
  /\ Registered <= Capacity
  /\ locked \in BOOLEAN /\ told \in BOOLEAN /\ timeouts \in BOOLEAN
  /\ pc \in {"idle", "poll", "decided", "halted"}
  /\ got \in Seq(Value \cup {Nothing}) /\ at = Len(got) + 1
  /\ pc = "poll" => at <= Registered
  /\ last.result \in Results \cup {"none"}

\* The engines whose groups agree mutually whatever the callback compares: a
\* third member of a group need not agree with the first.
GroupsAreMutual(cfg) == voter_required_quorum(cfg) <= 2 \/ ~cfg.callback

\* The two were compared, in one order or the other, and found equal.
matched(cfg, x, y) == voter_data_equal(cfg, x, y) \/ voter_data_equal(cfg, y, x)

\* REQ-VOTER-004: an agreed value was delivered by some channel and is matched
\* by a quorum of the channels that delivered in this very vote, whatever their
\* health did meanwhile and even if the callback is not transitive.
AgreedHasQuorum ==
  pc = "decided" /\ last.result = "AGREED" /\ GroupsAreMutual(engine.config) =>
    \E i \in responded(last.got) :
      /\ last.out = last.got[i]
      /\ Cardinality({j \in responded(last.got) :
                        j = i \/ matched(engine.config, last.got[j], last.got[i])})
           >= voter_required_quorum(engine.config)

\* REQ-VOTER-004, the other way: a vote that ends in DISAGREED, and with it in
\* the safe state, had no value that a quorum of channels delivered.
NoQuorumMissed ==
  last.result = "DISAGREED" =>
    \A v \in Value :
      Cardinality({i \in responded(last.got) : last.got[i] = v})
        < voter_required_quorum(engine.config)

\* REQ-VOTER-004 both ways: AgreedHasQuorum and NoQuorumMissed.
VoteIsExact == AgreedHasQuorum /\ NoQuorumMissed

\* REQ-VOTER-005: the safe state is entered after the application was told, and
\* only when a quorum of channels answered and two of them really differ: a
\* timeout or a lack of channels never halts.
HaltsOnlyOnDisagreement ==
  pc = "halted" =>
    /\ told
    /\ Cardinality(responded(last.got)) >= voter_required_quorum(engine.config)
    /\ \E i, j \in responded(last.got) : ~voter_data_equal(engine.config, last.got[i], last.got[j])
=============================================================================
