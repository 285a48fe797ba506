----------------------------- MODULE Rendezvous -----------------------------
(***************************************************************************)
(* The checkpoint rendezvous (rte_checkpoint.c) of several nodes, each     *)
(* driven by its own application manager (rte_appmanager.c).  A node       *)
(* executes a cycle along some path, whose folded signature is the         *)
(* checkpoint's id, and then announces that id on every channel of its     *)
(* voter and waits for the same id in return, in rounds, until enough      *)
(* channels confirmed or the budget is spent, which halts the node in the  *)
(* SAFE state.  Messages are lost or delayed; a halted node may reboot; a  *)
(* background task takes the voter away and gives it back.  There is no    *)
(* reply: what confirms a node is the arrival its peer sent for itself.    *)
(***************************************************************************)
EXTENDS Naturals, Sequences, FiniteSets

CONSTANTS
  Node,
  Down,         \* the nodes that are never started
  Channels,     \* Channels[n]: the peers behind the voter's channels, in order
  Expected,     \* Expected[n]: expected_node_count
  Path,         \* the signatures a cycle can end with
  MaxRounds,    \* RTE_CHECKPOINT_MAX_ROUNDS
  MaxInFlight,  \* bound: arrivals under way on one channel
  MaxCalls      \* bound: calls are told apart modulo this number

ASSUME RendezvousAssumption ==
  /\ Down \subseteq Node
  /\ Channels \in [Node -> Seq(Node)]
  /\ \A n \in Node : \A i, j \in 1..Len(Channels[n]) :
       Channels[n][i] # n /\ (Channels[n][i] = Channels[n][j] => i = j)
  /\ Expected \in [Node -> Nat]
  /\ MaxRounds \in Nat \ {0} /\ MaxInFlight \in Nat /\ MaxCalls \in Nat \ {0}

VARIABLES
  pc,         \* what each node's cycle has reached
  voter,      \* config->checkpoint->voter # NULL
  id,         \* the checkpoint_id of the call in progress
  call,       \* which call of the checkpoint this is
  at,         \* the loop index i
  confirmed,  \* the channels with channel_confirmed[i], with the id each sent
  rounds,     \* round_count
  quiet,      \* channel attempts since the watchdog was kicked
  link,       \* link[m][n]: the arrivals of m that n has not received yet
  used        \* used[n][m]: the calls of m that confirmed a checkpoint of n

callvars == <<id, call, at, confirmed, rounds>>
vars == <<pc, voter, callvars, quiet, link, used>>

PC == {"cycle", "test", "call", "send", "receive", "next", "passed", "halted"}
Calling == {"send", "receive", "next"}
Arrival == [id: Path, call: 0..(MaxCalls - 1)]

\* checkpoint_id exists only from the end of the stages to the checkpoint's result.
NoPath == "none"

\* The empty function.
NoneConfirmed == <<>>

Init ==
  /\ pc = [n \in Node |-> "cycle"]
  /\ voter = [n \in Node |-> TRUE]
  /\ id = [n \in Node |-> NoPath]
  /\ call = [n \in Node |-> 0]
  /\ at = [n \in Node |-> 1]
  /\ confirmed = [n \in Node |-> NoneConfirmed]
  /\ rounds = [n \in Node |-> 0]
  /\ quiet = [n \in Node |-> 0]
  /\ link = [m \in Node |-> [n \in Node |-> <<>>]]
  /\ used = [n \in Node |-> [m \in Node |-> {}]]

Goto(n, label) == pc' = [pc EXCEPT ![n] = label]

\* The cycle is over, and with it the checkpoint's local variables.
CycleOver(n) ==
  /\ Goto(n, "cycle")
  /\ id' = [id EXCEPT ![n] = NoPath]
  /\ at' = [at EXCEPT ![n] = 1]
  /\ confirmed' = [confirmed EXCEPT ![n] = NoneConfirmed]
  /\ rounds' = [rounds EXCEPT ![n] = 0]

-----------------------------------------------------------------------------
(* The cycle *)

\* The stages before the checkpoint succeeded along path p.
execute_succeeds(n, p) ==
  /\ pc[n] = "cycle"
  /\ id' = [id EXCEPT ![n] = p]
  /\ Goto(n, "test")
  /\ UNCHANGED <<voter, call, at, confirmed, rounds, quiet, link, used>>

\* A stage failed: the cycle ends without a checkpoint.
execute_fails(n) == pc[n] = "cycle" /\ UNCHANGED vars

\* The first reading of the voter; without one the cycle counts as committed.
checkpoint_test(n) ==
  /\ pc[n] = "test"
  /\ IF voter[n]
     THEN Goto(n, "call") /\ UNCHANGED <<id, at, confirmed, rounds>>
     ELSE CycleOver(n)
  /\ UNCHANGED <<voter, call, quiet, link, used>>

\* The parameter tests of rte_channel_checkpoint(), with the voter read again.
refused(n) == ~voter[n] \/ Expected[n] = 0 \/ Expected[n] > Len(Channels[n])

\* INVALID_PARAM, an ordinary failed stage.
checkpoint_refused(n) ==
  /\ pc[n] = "call" /\ refused(n)
  /\ CycleOver(n)
  /\ UNCHANGED <<voter, call, quiet, link, used>>

checkpoint_begins(n) ==
  /\ pc[n] = "call" /\ ~refused(n)
  /\ call' = [call EXCEPT ![n] = (@ + 1) % MaxCalls]
  /\ at' = [at EXCEPT ![n] = 1]
  /\ confirmed' = [confirmed EXCEPT ![n] = NoneConfirmed]
  /\ rounds' = [rounds EXCEPT ![n] = 0]
  /\ Goto(n, "send")
  /\ UNCHANGED <<voter, id, quiet, link, used>>

-----------------------------------------------------------------------------
(* One attempt on one channel: checkpoint_try_channel() *)

Peer(n) == Channels[n][at[n]]

build_arrival_message(n) == [id |-> id[n], call |-> call[n]]

Attempt(n) == quiet' = [quiet EXCEPT ![n] = IF @ > Len(Channels[n]) THEN @ ELSE @ + 1]

\* rte_channel_send() said OK, and the arrival is under way or lost.
try_sends(n, lost) ==
  /\ pc[n] = "send"
  /\ IF lost
     THEN UNCHANGED link
     ELSE /\ Peer(n) \notin Down /\ Len(link[n][Peer(n)]) < MaxInFlight
          /\ link' = [link EXCEPT ![n][Peer(n)] = Append(@, build_arrival_message(n))]
  /\ Attempt(n)
  /\ Goto(n, "receive")
  /\ UNCHANGED <<voter, callvars, used>>

\* rte_channel_send() failed: nothing is received from this channel.
try_send_fails(n) ==
  /\ pc[n] = "send"
  /\ Attempt(n)
  /\ Goto(n, "next")
  /\ UNCHANGED <<voter, callvars, link, used>>

\* Mutant: any arrival with a valid checksum confirms.
any_reply_confirms(m, n) == TRUE

reply_confirms_checkpoint(m, n) == m.id = id[n]

\* channel_confirmed[i] = true, by an arrival with the given id.
confirm(c, i, arrived_id) ==
  [j \in DOMAIN c \cup {i} |-> IF j = i THEN arrived_id ELSE c[j]]

\* rte_channel_receive() returns the oldest arrival of the peer.
try_receives(n) ==
  /\ pc[n] = "receive"
  /\ link[Peer(n)][n] # <<>>
  /\ LET m == Head(link[Peer(n)][n]) IN
       IF reply_confirms_checkpoint(m, n)
       THEN /\ confirmed' = [confirmed EXCEPT ![n] = confirm(@, at[n], m.id)]
            /\ used' = [used EXCEPT ![n][Peer(n)] = IF MaxCalls = 1 THEN {} ELSE @ \cup {m.call}]
       ELSE UNCHANGED <<confirmed, used>>
  /\ link' = [link EXCEPT ![Peer(n)][n] = Tail(@)]
  /\ Goto(n, "next")
  /\ UNCHANGED <<voter, id, call, at, rounds, quiet>>

\* Nothing arrived within the sub-budget, or the receive failed.
try_receive_fails(n) ==
  /\ pc[n] = "receive"
  /\ Goto(n, "next")
  /\ UNCHANGED <<voter, callvars, quiet, link, used>>

-----------------------------------------------------------------------------
(* The retry loop of rte_channel_checkpoint() *)

\* The channels of this round still to be tried.
Remaining(n) == {i \in (at[n] + 1)..Len(Channels[n]) : i \notin DOMAIN confirmed[n]}

First(S) == CHOOSE i \in S : \A j \in S : i <= j

next_channel(n) ==
  /\ pc[n] = "next" /\ Remaining(n) # {}
  /\ at' = [at EXCEPT ![n] = First(Remaining(n))]
  /\ Goto(n, "send")
  /\ UNCHANGED <<voter, id, call, confirmed, rounds, quiet, link, used>>

Enough(n) == Cardinality(DOMAIN confirmed[n]) >= Expected[n]

\* Mutant: a round is not counted.
round_not_counted(n) == rounds

count_round(n) == [rounds EXCEPT ![n] = @ + 1]

\* Mutant: the watchdog is kicked only when the checkpoint succeeds.
kick_on_success(n) == IF Enough(n) THEN [quiet EXCEPT ![n] = 0] ELSE quiet

kick_watchdog(n) == [quiet EXCEPT ![n] = 0]

\* A round is over: the loop ends with success, ends with the budget spent
\* (by the clock or by the cap on rounds), or goes round again.
round_ends(n, in_time) ==
  /\ pc[n] = "next" /\ Remaining(n) = {}
  /\ rounds' = count_round(n)
  /\ quiet' = kick_watchdog(n)
  /\ at' = [at EXCEPT ![n] = IF Enough(n) THEN 1 ELSE First(1..Len(Channels[n]) \ DOMAIN confirmed[n])]
  /\ Goto(n, IF Enough(n) THEN "passed"
             ELSE IF in_time /\ rounds'[n] < MaxRounds THEN "send" ELSE "halted")
  /\ UNCHANGED <<voter, id, call, confirmed, link, used>>

\* on_checkpoint_result(committed = true), and the next cycle.
result_committed(n) ==
  /\ pc[n] = "passed"
  /\ CycleOver(n)
  /\ UNCHANGED <<voter, call, quiet, link, used>>

-----------------------------------------------------------------------------
(* What happens meanwhile *)

voter_switches(n) ==
  /\ pc[n] # "halted"
  /\ voter' = [voter EXCEPT ![n] = ~@]
  /\ UNCHANGED <<pc, callvars, quiet, link, used>>

\* A new process: what its predecessor had not received is gone, what it had
\* sent is still under way.
reboot(n) ==
  /\ pc[n] = "halted"
  /\ CycleOver(n)
  /\ voter' = [voter EXCEPT ![n] = TRUE]
  /\ quiet' = [quiet EXCEPT ![n] = 0]
  /\ link' = [m \in Node |-> [link[m] EXCEPT ![n] = <<>>]]
  /\ UNCHANGED <<call, used>>

CycleStep(n) ==
  \/ \E p \in Path : execute_succeeds(n, p)
  \/ checkpoint_test(n) \/ checkpoint_refused(n) \/ checkpoint_begins(n)
  \/ \E lost \in BOOLEAN : try_sends(n, lost)
  \/ try_send_fails(n) \/ try_receives(n) \/ try_receive_fails(n)
  \/ next_channel(n)
  \/ \E in_time \in BOOLEAN : round_ends(n, in_time)
  \/ result_committed(n)

Next == \E n \in Node \ Down : CycleStep(n) \/ execute_fails(n) \/ voter_switches(n) \/ reboot(n)

Spec == Init /\ [][Next]_vars

\* Every operation a node's cycle calls returns, and a cycle that can succeed
\* again and again does.
LiveSpec == Spec /\ \A n \in Node \ Down : WF_vars(CycleStep(n))

-----------------------------------------------------------------------------
(* Properties *)

\* Every variable keeps its type.
TypeOK ==
  /\ pc \in [Node -> PC] /\ voter \in [Node -> BOOLEAN]
  /\ id \in [Node -> Path \cup {NoPath}] /\ call \in [Node -> 0..(MaxCalls - 1)]
  /\ at \in [Node -> Nat] /\ (\A n \in Node : DOMAIN confirmed[n] \subseteq 1..Len(Channels[n]))
  /\ rounds \in [Node -> 0..MaxRounds] /\ quiet \in [Node -> Nat]
  /\ link \in [Node -> [Node -> Seq(Arrival)]]
  /\ used \in [Node -> [Node -> SUBSET (0..(MaxCalls - 1))]]
  /\ \A n \in Node : pc[n] \in Calling => at[n] \in 1..Len(Channels[n])

\* REQ-CHECKPOINT-002: a node that passed its checkpoint was confirmed on
\* expected_node_count different channels, on each by an arrival with the id
\* of its own cycle: no lost, late or repeated arrival makes one channel count
\* twice or a peer that took another path count at all.
PassedMeansPeersOnPath ==
  \A n \in Node : pc[n] = "passed" =>
    Cardinality({i \in DOMAIN confirmed[n] : confirmed[n][i] = id[n]}) >= Expected[n]

\* rte_checkpoint_config_t::watchdog: a call that retries keeps its watchdog
\* kicked; between two kicks there is at most one attempt on each channel.
RetryingKeepsKicking == \A n \in Node : quiet[n] <= Len(Channels[n])

\* REQ-CHECKPOINT-001: every call ends, in success or in the SAFE state, even
\* when the clock never exhausts the budget.
CheckpointEnds ==
  \A n \in Node : pc[n] \in Calling ~> pc[n] \in {"passed", "halted"}

\* A node whose checkpoints need a halted peer does not go on alone: it halts
\* too, unless the peer is rebooted or its own checkpoints are paused.
HaltSpreads ==
  \A m, n \in Node :
    (Expected[n] = Len(Channels[n]) /\ \E i \in 1..Len(Channels[n]) : Channels[n][i] = m) =>
      (pc[m] = "halted" ~> pc[m] # "halted" \/ pc[n] = "halted" \/ ~voter[n])

\* rte_checkpoint.h on checkpoint_id: a stale or wrong-cycle reply is rejected,
\* so the arrivals of one call of a peer confirm at most one checkpoint of n.
OneArrivalOneCheckpoint ==
  [][\A n \in Node : try_receives(n) =>
       LET arrival == Head(link[Peer(n)][n]) IN
         reply_confirms_checkpoint(arrival, n) => arrival.call \notin used[n][Peer(n)]]_vars
=============================================================================
