------------------------------ MODULE Election ------------------------------
(***************************************************************************)
(* The election of redundancy/election/rte_election.c, run by every node   *)
(* of a group on the list of candidates that node has heard of.            *)
(*                                                                         *)
(* How a node learns of the others is the caller's business: a node runs   *)
(* its election on any part of the group, in any order, itself included or *)
(* not.  Nodes restart with a later time stamp between elections, so that  *)
(* lists of different age are about.                                       *)
(***************************************************************************)
EXTENDS Integers, SequencesExt

CONSTANTS NODES,          \* the ids of the group
          ELECTING,       \* the nodes whose elections are followed
          DEGRADED,       \* the nodes that announce themselves degraded
          TIMES,          \* startup time stamps
          MAX_REPLICAS    \* RTE_REDUNDANCY_CONFIG_MAX_REPLICAS

\* Ids and time stamps are unsigned numbers.
ASSUME ElectionAssumption ==
  /\ NODES \subseteq Nat /\ IsFiniteSet(NODES) /\ ELECTING \subseteq NODES
  /\ TIMES \subseteq Nat

VARIABLES started,    \* the time stamp every node announces
          own_state,  \* own_last_state of every node's election
          winner,     \* winner_id, or NoWinner while have_winner is false
          heard       \* the candidates of the node's last election

electionVars == <<started, own_state, winner, heard>>

NoWinner == -1
candidate(n) == [id |-> n, time |-> started[n], degraded |-> n \in DEGRADED]

\* Index of the node itself in the list, and of the winner: the first entry
\* that no other is older than, the smaller id where the time is the same.
find_own_index(list, own_id) == {i \in 1..Len(list) : list[i].id = own_id}

Before(a, b) == a.time < b.time \/ (a.time = b.time /\ a.id < b.id)

\* Mutant: the last of several equally old candidates wins.
find_winner_index_last(list) ==
  FoldLeft(LAMBDA w, i : IF list[i].time <= list[w].time THEN i ELSE w,
           1, [i \in 1..Len(list) |-> i])

find_winner_index(list) ==
  LET winner_of[i \in 0..Len(list)] ==    \* among the first i
        IF i = 0 THEN 1
        ELSE LET w == winner_of[i - 1] IN IF Before(list[i], list[w]) THEN i ELSE w
  IN  winner_of[Len(list)]

state_of(list, own_index) ==
  LET w == find_winner_index(list) IN
  IF w = own_index THEN "ONLINE"
  ELSE IF list[w].degraded THEN "COLDSTANDBY"
  ELSE "HOTSTANDBY"

\* The lists a caller can pass: part of the group, in any order.
Lists == UNION {SetToSeqs(some) : some \in SUBSET NODES}

ElectionInit ==
  /\ started \in [NODES -> TIMES]
  /\ own_state = [n \in NODES |-> "IDLE"]
  /\ winner = [n \in NODES |-> NoWinner]
  /\ heard = [n \in NODES |-> {}]

\* rte_election_execute(): a node that is not on its own list only reports
\* UNKNOWN and keeps the winner of an earlier election.
Execute(n) ==
  \E ids \in Lists :
    /\ Len(ids) <= MAX_REPLICAS
    /\ heard' = [heard EXCEPT ![n] = {candidate(m) : m \in ToSet(ids)}]
    /\ LET list == [i \in 1..Len(ids) |-> candidate(ids[i])]
           own == find_own_index(list, n) IN
       IF own = {}
       THEN /\ own_state' = [own_state EXCEPT ![n] = "UNKNOWN"]
            /\ UNCHANGED winner
       ELSE /\ winner' = [winner EXCEPT ![n] = list[find_winner_index(list)].id]
            /\ \E i \in own : own_state' = [own_state EXCEPT ![n] = state_of(list, i)]
    /\ UNCHANGED started

\* A node comes back: rte_election_init(), announced with a later time stamp.
Restart(n) ==
  /\ \E t \in TIMES : t > started[n] /\ started' = [started EXCEPT ![n] = t]
  /\ own_state' = [own_state EXCEPT ![n] = "IDLE"]
  /\ winner' = [winner EXCEPT ![n] = NoWinner]
  /\ heard' = [heard EXCEPT ![n] = {}]

ElectionNext == (\E n \in ELECTING : Execute(n)) \/ (\E n \in NODES : Restart(n))

ElectionSpec == ElectionInit /\ [][ElectionNext]_electionVars

-----------------------------------------------------------------------------
(* Properties.                                                             *)

ElectionTypeOK ==
  /\ own_state \in [NODES -> {"IDLE", "UNKNOWN", "ONLINE", "COLDSTANDBY", "HOTSTANDBY"}]
  /\ winner \in [NODES -> NODES \cup {NoWinner}]
  /\ started \in [NODES -> TIMES]

Decided(n) == own_state[n] \in {"ONLINE", "COLDSTANDBY", "HOTSTANDBY"}

\* Nodes that decided on the same candidates agree, in whatever order each
\* had them: they name the same winner, that node alone is ONLINE and the
\* others are standby, so two ONLINE nodes never go unnoticed by a group
\* whose nodes hear each other.
SameCandidatesSameWinner ==
  \A m, n \in NODES :
    m # n /\ Decided(m) /\ Decided(n) /\ heard[m] = heard[n] =>
      /\ winner[m] = winner[n]
      /\ ~(own_state[m] = "ONLINE" /\ own_state[n] = "ONLINE")
      /\ own_state[m] = "ONLINE" <=> winner[n] = m

=============================================================================
