-------------------------- MODULE Rendezvous_proofs --------------------------
(***************************************************************************)
(* Proofs about Rendezvous, for any number of nodes, any wiring of the     *)
(* channels and any interleaving of losses, pauses and reboots.            *)
(*                                                                         *)
(* None of the three invariants is inductive alone.  That a passed node    *)
(* was confirmed on its path needs every confirmation of the call in       *)
(* progress to carry the id of that call; the bound on the attempts        *)
(* between two kicks needs the attempts of the round to be counted by the  *)
(* channel it has reached; and the type of the loop index needs a channel  *)
(* to be left whenever too few confirmed, which is what the parameter      *)
(* tests of rte_channel_checkpoint() are for.                              *)
(***************************************************************************)
EXTENDS Rendezvous, FiniteSetTheorems, SequenceTheorems, WellFoundedInduction, TLAPS

\* The ids the confirmed channels sent.
Confirmations == UNION {[S -> Path] : S \in SUBSET Nat}

\* The types of the variables.
Types ==
  /\ pc \in [Node -> PC] /\ voter \in [Node -> BOOLEAN]
  /\ id \in [Node -> Path \cup {NoPath}] /\ call \in [Node -> 0..(MaxCalls - 1)]
  /\ at \in [Node -> Nat] /\ confirmed \in [Node -> Confirmations]
  /\ rounds \in [Node -> 0..MaxRounds] /\ quiet \in [Node -> Nat]
  /\ link \in [Node -> [Node -> Seq(Arrival)]]
  /\ used \in [Node -> [Node -> SUBSET (0..(MaxCalls - 1))]]

\* Only channels of the voter confirm.
OnChannels(n) == DOMAIN confirmed[n] \subseteq 1..Len(Channels[n])

\* A call in progress passed the parameter tests, works on one of its
\* channels and has a round left.
CallIsSound(n) ==
  pc[n] \in Calling =>
    /\ at[n] \in 1..Len(Channels[n])
    /\ Expected[n] <= Len(Channels[n])
    /\ rounds[n] < MaxRounds

\* From the end of the stages to the result there is a checkpoint id.
HasId(n) == pc[n] \notin {"cycle", "halted"} => id[n] \in Path

\* Every confirmation is for the id of this call.
ConfirmedOnPath(n) ==
  pc[n] \in Calling \cup {"passed"} => \A i \in DOMAIN confirmed[n] : confirmed[n][i] = id[n]

\* A node passes only with the confirmations it expects.
PassedWithEnough(n) == pc[n] = "passed" => Enough(n)

\* The attempts since the last kick are those of this round, which went to
\* different channels in order.
AttemptsOfRound(n) ==
  /\ pc[n] = "send" => quiet[n] < at[n]
  /\ pc[n] \in {"receive", "next"} => quiet[n] <= at[n]
  /\ pc[n] \notin Calling => quiet[n] = 0

\* What holds of one node.
NodeInv(n) ==
  /\ OnChannels(n) /\ CallIsSound(n) /\ HasId(n)
  /\ ConfirmedOnPath(n) /\ PassedWithEnough(n) /\ AttemptsOfRound(n)

\* The inductive invariant.
IInv == Types /\ \A n \in Node : NodeInv(n)

-----------------------------------------------------------------------------
(* The operators *)

\* A set of naturals that is not empty has a least element.
LEMMA LeastNatural ==
  ASSUME NEW S \in SUBSET Nat, S # {}
  PROVE  \E i \in S : \A j \in S : i <= j
<1> DEFINE R == OpToRel(<, Nat)
<1>1. IsWellFoundedOn(R, Nat)
  BY NatLessThanWellFounded
<1> HIDE DEF R
<1>2. PICK x \in S : \A y \in S : ~ (<<y, x>> \in R)
  BY <1>1, WFMin
<1>3. ASSUME NEW y \in S, y < x PROVE <<y, x>> \in R
  BY <1>3 DEF R, OpToRel
<1>4. \A y \in S : ~(y < x)
  BY <1>2, <1>3
<1>5. \A y \in S : x <= y
  BY <1>4
<1> QED
  BY <1>5

\* The loop finds its next channel among those that are left.
LEMMA FirstIsIn ==
  ASSUME NEW S \in SUBSET Nat, S # {}
  PROVE  First(S) \in S
<1>1. \E i \in S : \A j \in S : i <= j
  BY LeastNatural
<1> QED
  BY <1>1 DEF First

\* channel_confirmed[i] = true.
LEMMA Confirming ==
  ASSUME NEW c \in Confirmations, NEW i \in Nat, NEW p \in Path
  PROVE  /\ confirm(c, i, p) \in Confirmations
         /\ DOMAIN confirm(c, i, p) = DOMAIN c \cup {i}
         /\ confirm(c, i, p)[i] = p
         /\ \A j \in DOMAIN c \ {i} : confirm(c, i, p)[j] = c[j]
<1>1. PICK S \in SUBSET Nat : c \in [S -> Path]
  BY DEF Confirmations
<1>2. confirm(c, i, p) \in [S \cup {i} -> Path] /\ S \cup {i} \in SUBSET Nat
  BY <1>1 DEF confirm
<1>3. confirm(c, i, p) \in Confirmations
  BY <1>2 DEF Confirmations
<1> QED
  BY <1>1, <1>3 DEF confirm

\* A call begins without any confirmation.
LEMMA NoneConfirmedFacts == NoneConfirmed \in Confirmations /\ DOMAIN NoneConfirmed = {}
<1>1. <<>> \in [{} -> Path] /\ {} \in SUBSET Nat
  OBVIOUS
<1> QED
  BY <1>1 DEF NoneConfirmed, Confirmations

\* While too few channels confirmed one is left to try.
LEMMA OneIsLeft ==
  ASSUME IInv, NEW n \in Node, pc[n] \in Calling, ~Enough(n)
  PROVE  1..Len(Channels[n]) \ DOMAIN confirmed[n] # {}
<1>0. Len(Channels[n]) \in Nat /\ Expected[n] \in Nat
  BY RendezvousAssumption
<1>1. Expected[n] <= Len(Channels[n]) /\ DOMAIN confirmed[n] \subseteq 1..Len(Channels[n])
  BY DEF IInv, NodeInv, CallIsSound, OnChannels
<1>2. IsFiniteSet(1..Len(Channels[n])) /\ Cardinality(1..Len(Channels[n])) = Len(Channels[n])
  BY <1>0, FS_Interval
<1>3. SUFFICES ASSUME 1..Len(Channels[n]) \ DOMAIN confirmed[n] = {} PROVE FALSE
  OBVIOUS
<1>4. DOMAIN confirmed[n] = 1..Len(Channels[n])
  BY <1>1, <1>3
<1> QED
  BY <1>0, <1>1, <1>2, <1>4 DEF Enough

-----------------------------------------------------------------------------
(* The steps *)

\* The entries of k do not change.
Same(k) ==
  /\ pc'[k] = pc[k] /\ id'[k] = id[k] /\ at'[k] = at[k] /\ confirmed'[k] = confirmed[k]
  /\ rounds'[k] = rounds[k] /\ quiet'[k] = quiet[k]

\* A step of one node disturbs the invariant of that node only.
LEMMA OneNode ==
  ASSUME IInv, NEW n \in Node, Types', NodeInv(n)',
         \A k \in Node \ {n} : Same(k)
  PROVE  IInv'
<1>1. ASSUME NEW k \in Node \ {n} PROVE NodeInv(k)'
  <2>1. NodeInv(k) /\ Same(k)
    BY DEF IInv
  <2> QED
    BY <2>1 DEF Same, NodeInv, OnChannels, CallIsSound, HasId, ConfirmedOnPath,
       PassedWithEnough, Enough, AttemptsOfRound
<1> QED
  BY <1>1 DEF IInv

\* Both sides of a set of labels, for the provers.
LEMMA Labels ==
  /\ Calling \subseteq PC /\ "passed" \notin Calling /\ "halted" \notin Calling
  /\ "cycle" \notin Calling /\ "test" \notin Calling /\ "call" \notin Calling
  /\ {"cycle", "test", "call", "passed", "halted"} \subseteq PC
  BY DEF Calling, PC

\* All nodes start before their first cycle, with nothing confirmed.
LEMMA InitInv == Init => IInv
<1> SUFFICES ASSUME Init PROVE IInv
  OBVIOUS
<1>1. NoneConfirmed \in Confirmations /\ DOMAIN NoneConfirmed = {}
  BY NoneConfirmedFacts
<1>2. 0 \in 0..(MaxCalls - 1) /\ 0 \in 0..MaxRounds
  BY RendezvousAssumption
<1>3. Types
  BY <1>1, <1>2, Labels DEF Init, Types
<1>4. ASSUME NEW n \in Node PROVE NodeInv(n)
  BY <1>1, Labels DEF Init, NodeInv, OnChannels, CallIsSound, HasId, ConfirmedOnPath,
     PassedWithEnough, AttemptsOfRound
<1> QED
  BY <1>3, <1>4 DEF IInv

\* CycleOver() leaves a node with nothing to keep.
LEMMA CycleOverInv ==
  ASSUME IInv, NEW n \in Node, CycleOver(n), quiet'[n] = 0,
         voter' \in [Node -> BOOLEAN], quiet' \in [Node -> Nat],
         link' \in [Node -> [Node -> Seq(Arrival)]],
         \A k \in Node \ {n} : quiet'[k] = quiet[k],
         UNCHANGED <<call, used>>
  PROVE  IInv'
<1>1. NoneConfirmed \in Confirmations /\ DOMAIN NoneConfirmed = {}
  BY NoneConfirmedFacts
<1>2. 0 \in 0..MaxRounds
  BY RendezvousAssumption
<1>3. Types'
  BY <1>1, <1>2, Labels DEF IInv, Types, CycleOver, Goto
<1>4. pc'[n] = "cycle" /\ confirmed'[n] = NoneConfirmed
  BY DEF IInv, Types, CycleOver, Goto
<1>5. NodeInv(n)'
  BY <1>1, <1>4, Labels DEF NodeInv, OnChannels, CallIsSound, HasId, ConfirmedOnPath,
     PassedWithEnough, AttemptsOfRound
<1>6. \A k \in Node \ {n} : Same(k)
  BY DEF Same, IInv, Types, CycleOver, Goto
<1> QED
  BY <1>3, <1>5, <1>6, OneNode

\* Calls are told apart modulo MaxCalls.
LEMMA NextCall ==
  ASSUME NEW x \in 0..(MaxCalls - 1)
  PROVE  (x + 1) % MaxCalls \in 0..(MaxCalls - 1)
  BY RendezvousAssumption

\* The cycle up to the call of rte_channel_checkpoint(), and its result.
LEMMA CycleInv ==
  ASSUME IInv, NEW n \in Node,
         \/ \E p \in Path : execute_succeeds(n, p)
         \/ checkpoint_test(n) \/ checkpoint_refused(n) \/ checkpoint_begins(n)
         \/ result_committed(n) \/ reboot(n)
  PROVE  IInv'
<1> USE DEF IInv
<1>0. NodeInv(n) /\ Types
  OBVIOUS
<1>1. ASSUME NEW p \in Path, execute_succeeds(n, p) PROVE IInv'
  <2>1. Types'
    BY <1>1, Labels DEF Types, execute_succeeds, Goto
  <2>2. NodeInv(n)'
    BY <1>0, <1>1, Labels DEF Types, execute_succeeds, Goto, NodeInv, OnChannels, CallIsSound, HasId,
       ConfirmedOnPath, PassedWithEnough, AttemptsOfRound
  <2>3. \A k \in Node \ {n} : Same(k)
    BY <1>1 DEF Types, execute_succeeds, Goto, Same
  <2> QED
    BY <2>1, <2>2, <2>3, OneNode
<1>2. ASSUME checkpoint_test(n), voter[n] PROVE IInv'
  <2>1. Types'
    BY <1>2, Labels DEF Types, checkpoint_test, Goto
  <2>2. NodeInv(n)'
    BY <1>0, <1>2, Labels DEF Types, checkpoint_test, Goto, NodeInv, OnChannels, CallIsSound, HasId,
       ConfirmedOnPath, PassedWithEnough, AttemptsOfRound
  <2>3. \A k \in Node \ {n} : Same(k)
    BY <1>2 DEF Types, checkpoint_test, Goto, Same
  <2> QED
    BY <2>1, <2>2, <2>3, OneNode
<1>3. ASSUME CycleOver(n), pc[n] \in {"test", "call", "passed"},
             UNCHANGED <<voter, call, quiet, link, used>>
      PROVE  IInv'
  <2>1. quiet[n] = 0
    BY <1>0, <1>3, Labels DEF NodeInv, AttemptsOfRound
  <2> QED
    BY <1>3, <2>1, CycleOverInv DEF Types
<1>4. ASSUME checkpoint_begins(n) PROVE IInv'
  <2>1. ~refused(n) /\ pc[n] = "call"
    BY <1>4 DEF checkpoint_begins
  <2>2. Expected[n] >= 1 /\ Expected[n] <= Len(Channels[n]) /\ Len(Channels[n]) \in Nat
    BY <2>1, RendezvousAssumption DEF refused
  <2>3. NoneConfirmed \in Confirmations /\ DOMAIN NoneConfirmed = {}
    BY NoneConfirmedFacts
  <2>4. Types'
    <3>1. (call[n] + 1) % MaxCalls \in 0..(MaxCalls - 1)
      BY NextCall DEF Types
    <3>2. 0 \in 0..MaxRounds
      BY RendezvousAssumption
    <3> QED
      BY <1>4, <2>3, <3>1, <3>2 DEF Types, checkpoint_begins, Goto, PC
  <2>5. /\ pc'[n] = "send" /\ at'[n] = 1 /\ confirmed'[n] = NoneConfirmed
        /\ rounds'[n] = 0 /\ quiet'[n] = 0 /\ id'[n] \in Path
    BY <1>0, <1>4, <2>1, Labels DEF Types, checkpoint_begins, Goto, NodeInv, AttemptsOfRound, HasId
  <2>6. NodeInv(n)'
    BY <2>2, <2>3, <2>5, RendezvousAssumption DEF NodeInv, OnChannels, CallIsSound, HasId,
       ConfirmedOnPath, PassedWithEnough, AttemptsOfRound, Calling
  <2>7. \A k \in Node \ {n} : Same(k)
    BY <1>4 DEF Types, checkpoint_begins, Goto, Same
  <2> QED
    BY <2>4, <2>6, <2>7, OneNode
<1>5. ASSUME reboot(n) PROVE IInv'
  <2>1. link' \in [Node -> [Node -> Seq(Arrival)]]
    <3>1. <<>> \in Seq(Arrival)
      BY EmptySeq
    <3> QED
      BY <1>5, <3>1 DEF Types, reboot
  <2>2. /\ voter' \in [Node -> BOOLEAN] /\ quiet' \in [Node -> Nat] /\ quiet'[n] = 0
        /\ \A k \in Node \ {n} : quiet'[k] = quiet[k]
    BY <1>5 DEF Types, reboot
  <2> QED
    BY <1>5, <2>1, <2>2, CycleOverInv DEF reboot
<1> QED
  BY <1>1, <1>2, <1>3, <1>4, <1>5 DEF checkpoint_test, checkpoint_refused, result_committed

\* The channels of a node in a call are there.
LEMMA PeerIsNode ==
  ASSUME IInv, NEW n \in Node, pc[n] \in Calling
  PROVE  /\ Peer(n) \in Node /\ at[n] \in 1..Len(Channels[n])
         /\ Len(Channels[n]) \in Nat /\ at[n] \in Nat
<1>1. at[n] \in 1..Len(Channels[n])
  BY DEF IInv, NodeInv, CallIsSound
<1>2. Channels[n] \in Seq(Node)
  BY RendezvousAssumption
<1> QED
  BY <1>1, <1>2, ElementOfSeq DEF Peer

\* checkpoint_try_channel().
LEMMA AttemptInv ==
  ASSUME IInv, NEW n \in Node,
         \/ \E lost \in BOOLEAN : try_sends(n, lost)
         \/ try_send_fails(n) \/ try_receives(n) \/ try_receive_fails(n)
  PROVE  IInv'
<1> USE DEF IInv
<1>0. NodeInv(n) /\ Types
  OBVIOUS
<1>1. ASSUME pc[n] = "send", Attempt(n), Goto(n, "receive") \/ Goto(n, "next"),
             link' \in [Node -> [Node -> Seq(Arrival)]],
             UNCHANGED <<voter, callvars, used>>
      PROVE  IInv'
  <2>1. /\ at[n] \in 1..Len(Channels[n]) /\ Len(Channels[n]) \in Nat
        /\ at[n] \in Nat /\ quiet[n] \in Nat
    BY <1>1, PeerIsNode DEF Calling, Types
  <2>2. quiet[n] < at[n]
    BY <1>0, <1>1 DEF NodeInv, AttemptsOfRound
  <2>3. quiet' = [quiet EXCEPT ![n] = quiet[n] + 1]
    <3>1. ~(quiet[n] > Len(Channels[n]))
      BY <2>1, <2>2
    <3>2. (IF quiet[n] > Len(Channels[n]) THEN quiet[n] ELSE quiet[n] + 1) = quiet[n] + 1
      BY <3>1
    <3> QED
      BY <1>1, <3>2 DEF Attempt
  <2>4. Types'
    <3>1. pc' \in [Node -> PC]
      BY <1>1 DEF Types, Goto, PC
    <3>2. quiet' \in [Node -> Nat]
      BY <2>1, <2>3 DEF Types
    <3> QED
      BY <1>1, <3>1, <3>2 DEF Types, callvars
  <2>5. /\ pc'[n] \in {"receive", "next"} /\ quiet'[n] = quiet[n] + 1
        /\ UNCHANGED <<id, at, confirmed, rounds>>
    BY <1>1, <2>3 DEF Types, Goto, callvars
  <2>6. NodeInv(n)'
    BY <1>0, <1>1, <2>1, <2>2, <2>5 DEF NodeInv, OnChannels, CallIsSound, HasId,
       ConfirmedOnPath, PassedWithEnough, AttemptsOfRound, Calling
  <2>7. \A k \in Node \ {n} : Same(k)
    BY <1>1, <2>3 DEF Types, Goto, Same, callvars
  <2> QED
    BY <2>4, <2>6, <2>7, OneNode
<1>2. ASSUME NEW lost \in BOOLEAN, try_sends(n, lost) PROVE IInv'
  <2>1. Peer(n) \in Node /\ pc[n] = "send"
    BY <1>2, PeerIsNode DEF try_sends, Calling
  <2>2. build_arrival_message(n) \in Arrival
    BY <1>0, <2>1 DEF Types, NodeInv, HasId, build_arrival_message, Arrival
  <2>3. Append(link[n][Peer(n)], build_arrival_message(n)) \in Seq(Arrival)
    BY <2>1, <2>2, AppendProperties DEF Types
  <2>4. link' \in [Node -> [Node -> Seq(Arrival)]]
    <3>1. CASE lost
      BY <1>2, <3>1 DEF Types, try_sends
    <3>2. CASE ~lost
      <4>1. link' = [link EXCEPT ![n] = [link[n] EXCEPT ![Peer(n)] =
                       Append(link[n][Peer(n)], build_arrival_message(n))]]
        BY <1>2, <3>2 DEF try_sends
      <4> QED
        BY <2>1, <2>3, <4>1 DEF Types
    <3> QED
      BY <3>1, <3>2
  <2> QED
    BY <1>1, <1>2, <2>4 DEF try_sends
<1>3. ASSUME try_send_fails(n) PROVE IInv'
  BY <1>1, <1>3 DEF try_send_fails, Types
<1>4. ASSUME try_receives(n) PROVE IInv'
  <2> DEFINE m == Head(link[Peer(n)][n])
             given == confirm(confirmed[n], at[n], m.id)
  <2>1. /\ Peer(n) \in Node /\ pc[n] = "receive" /\ at[n] \in 1..Len(Channels[n])
        /\ at[n] \in Nat /\ Len(Channels[n]) \in Nat
    BY <1>4, PeerIsNode DEF try_receives, Calling
  <2>2. m \in Arrival /\ Tail(link[Peer(n)][n]) \in Seq(Arrival)
    BY <1>4, <2>1, HeadTailProperties DEF try_receives, Types
  <2>3. m.id \in Path /\ m.call \in 0..(MaxCalls - 1)
    BY <2>2 DEF Arrival
  <2>4. link' \in [Node -> [Node -> Seq(Arrival)]]
    BY <1>4, <2>1, <2>2 DEF Types, try_receives
  <2>5. /\ given \in Confirmations /\ DOMAIN given = DOMAIN confirmed[n] \cup {at[n]}
        /\ given[at[n]] = m.id /\ \A j \in DOMAIN confirmed[n] \ {at[n]} : given[j] = confirmed[n][j]
    <3> HIDE DEF m
    <3>1. confirmed[n] \in Confirmations
      BY DEF Types
    <3>2. \A i \in Nat, p \in Path :
            /\ confirm(confirmed[n], i, p) \in Confirmations
            /\ DOMAIN confirm(confirmed[n], i, p) = DOMAIN confirmed[n] \cup {i}
            /\ confirm(confirmed[n], i, p)[i] = p
            /\ \A j \in DOMAIN confirmed[n] \ {i} : confirm(confirmed[n], i, p)[j] = confirmed[n][j]
      BY <3>1, Confirming
    <3> QED
      BY <2>1, <2>3, <3>2
  <2>6. CASE reply_confirms_checkpoint(m, n)
    <3>0. /\ confirmed' = [confirmed EXCEPT ![n] = given]
          /\ used' = [used EXCEPT ![n] = [used[n] EXCEPT ![Peer(n)] =
                       IF MaxCalls = 1 THEN {} ELSE used[n][Peer(n)] \cup {m.call}]]
      BY <1>4, <2>6 DEF try_receives
    <3>1. /\ confirmed' = [confirmed EXCEPT ![n] = given]
          /\ used' \in [Node -> [Node -> SUBSET (0..(MaxCalls - 1))]]
      <4> HIDE DEF given, m
      <4> DEFINE u == IF MaxCalls = 1 THEN {} ELSE used[n][Peer(n)] \cup {m.call}
      <4>1. u \in SUBSET (0..(MaxCalls - 1))
        BY <2>1, <2>3 DEF Types
      <4>2. used' = [used EXCEPT ![n] = [used[n] EXCEPT ![Peer(n)] = u]]
        BY <3>0
      <4> HIDE DEF u
      <4>3. used' \in [Node -> [Node -> SUBSET (0..(MaxCalls - 1))]]
        BY <2>1, <4>1, <4>2 DEF Types
      <4> QED
        BY <3>0, <4>3
    <3>2. m.id = id[n]
      BY <2>6 DEF reply_confirms_checkpoint
    <3> HIDE DEF given, m
    <3>3. Types'
      BY <1>4, <2>4, <2>5, <3>1 DEF Types, try_receives, Goto, PC
    <3>4. /\ pc'[n] = "next" /\ confirmed'[n] = given
          /\ UNCHANGED <<id, at, rounds, quiet>>
      BY <1>4, <3>1 DEF Types, try_receives, Goto
    <3>5. \A i \in DOMAIN given : given[i] = id[n]
      BY <1>0, <2>1, <2>5, <3>2 DEF NodeInv, ConfirmedOnPath, Calling
    <3>6. NodeInv(n)'
      BY <1>0, <2>1, <2>5, <3>4, <3>5 DEF NodeInv, OnChannels, CallIsSound, HasId,
         ConfirmedOnPath, PassedWithEnough, AttemptsOfRound, Calling
    <3>7. \A k \in Node \ {n} : Same(k)
      BY <1>4, <3>1 DEF Types, try_receives, Goto, Same
    <3> QED
      BY <3>3, <3>6, <3>7, OneNode
  <2>7. CASE ~reply_confirms_checkpoint(m, n)
    <3>1. UNCHANGED <<confirmed, used>>
      BY <1>4, <2>7 DEF try_receives
    <3>2. Types'
      BY <1>4, <2>4, <3>1 DEF Types, try_receives, Goto, PC
    <3>3. pc'[n] = "next" /\ UNCHANGED <<id, at, confirmed, rounds, quiet>>
      BY <1>4, <3>1 DEF Types, try_receives, Goto
    <3>4. NodeInv(n)'
      BY <1>0, <2>1, <3>3 DEF NodeInv, OnChannels, CallIsSound, HasId,
         ConfirmedOnPath, PassedWithEnough, AttemptsOfRound, Calling
    <3>5. \A k \in Node \ {n} : Same(k)
      BY <1>4, <3>1 DEF Types, try_receives, Goto, Same
    <3> QED
      BY <3>2, <3>4, <3>5, OneNode
  <2> QED
    BY <2>6, <2>7
<1>5. ASSUME try_receive_fails(n) PROVE IInv'
  <2>1. Types'
    BY <1>5 DEF Types, try_receive_fails, Goto, PC, callvars
  <2>2. /\ pc[n] = "receive" /\ pc'[n] = "next"
        /\ UNCHANGED <<id, at, confirmed, rounds, quiet>>
    BY <1>5 DEF Types, try_receive_fails, Goto, callvars
  <2>3. NodeInv(n)'
    BY <1>0, <2>2 DEF NodeInv, OnChannels, CallIsSound, HasId,
       ConfirmedOnPath, PassedWithEnough, AttemptsOfRound, Calling
  <2>4. \A k \in Node \ {n} : Same(k)
    BY <1>5 DEF Types, try_receive_fails, Goto, Same, callvars
  <2> QED
    BY <2>1, <2>3, <2>4, OneNode
<1> QED
  BY <1>2, <1>3, <1>4, <1>5

\* The retry loop.
LEMMA LoopInv ==
  ASSUME IInv, NEW n \in Node,
         next_channel(n) \/ \E in_time \in BOOLEAN : round_ends(n, in_time)
  PROVE  IInv'
<1> USE DEF IInv
<1>0. NodeInv(n) /\ Types
  OBVIOUS
<1>1. /\ pc[n] = "next" /\ at[n] \in Nat /\ at[n] \in 1..Len(Channels[n])
      /\ Len(Channels[n]) \in Nat /\ quiet[n] \in Nat /\ quiet[n] <= at[n]
  <2>1. pc[n] = "next"
    BY DEF next_channel, round_ends
  <2> QED
    BY <1>0, <2>1, PeerIsNode DEF Calling, Types, NodeInv, AttemptsOfRound
<1>2. ASSUME next_channel(n) PROVE IInv'
  <2> DEFINE i == First(Remaining(n))
  <2>1. Remaining(n) \in SUBSET Nat /\ Remaining(n) # {}
    BY <1>1, <1>2 DEF Remaining, next_channel
  <2>2. i \in Remaining(n)
    BY <2>1, FirstIsIn
  <2>3. i \in Nat /\ i > at[n] /\ i \in 1..Len(Channels[n])
    BY <1>1, <2>2 DEF Remaining
  <2>4. at' = [at EXCEPT ![n] = i]
    BY <1>2 DEF next_channel
  <2> HIDE DEF i
  <2>5. Types'
    BY <1>2, <2>3, <2>4 DEF Types, next_channel, Goto, PC
  <2>6. pc'[n] = "send" /\ at'[n] = i /\ UNCHANGED <<id, confirmed, rounds, quiet>>
    BY <1>2, <2>4 DEF Types, next_channel, Goto
  <2>7. NodeInv(n)'
    BY <1>0, <1>1, <2>3, <2>6 DEF NodeInv, OnChannels, CallIsSound, HasId,
       ConfirmedOnPath, PassedWithEnough, AttemptsOfRound, Calling
  <2>8. \A k \in Node \ {n} : Same(k)
    BY <1>2, <2>4 DEF Types, next_channel, Goto, Same
  <2> QED
    BY <2>5, <2>7, <2>8, OneNode
<1>3. ASSUME NEW in_time \in BOOLEAN, round_ends(n, in_time) PROVE IInv'
  <2> DEFINE Left == 1..Len(Channels[n]) \ DOMAIN confirmed[n]
             i == IF Enough(n) THEN 1 ELSE First(Left)
  <2>1. /\ rounds[n] \in Nat /\ rounds[n] < MaxRounds /\ MaxRounds \in Nat
        /\ Expected[n] <= Len(Channels[n])
    BY <1>0, <1>1, RendezvousAssumption DEF Types, NodeInv, CallIsSound, Calling
  <2>2. i \in Nat /\ i >= 1 /\ (~Enough(n) => i \in 1..Len(Channels[n]))
    <3>1. ASSUME ~Enough(n) PROVE First(Left) \in Left
      <4>1. Left # {}
        BY <1>1, <3>1, OneIsLeft DEF Calling
      <4>2. Left \in SUBSET Nat
        BY <1>1
      <4> QED
        BY <4>1, <4>2, FirstIsIn
    <3> QED
      BY <1>1, <3>1
  <2>3. at' = [at EXCEPT ![n] = i]
    BY <1>3 DEF round_ends
  <2> HIDE DEF i
  <2>4. rounds' = [rounds EXCEPT ![n] = rounds[n] + 1] /\ quiet' = [quiet EXCEPT ![n] = 0]
    BY <1>3 DEF round_ends, count_round, kick_watchdog
  <2>5. /\ pc'[n] \in {"passed", "send", "halted"} /\ pc' = [pc EXCEPT ![n] = pc'[n]]
        /\ pc'[n] = "passed" => Enough(n)
        /\ pc'[n] = "send" => ~Enough(n) /\ rounds[n] + 1 < MaxRounds
    <3>1. rounds'[n] = rounds[n] + 1
      BY <2>4 DEF Types
    <3> QED
      BY <1>3, <3>1 DEF Types, round_ends, Goto
  <2>6. /\ at'[n] = i /\ rounds'[n] = rounds[n] + 1 /\ quiet'[n] = 0
        /\ UNCHANGED <<id, confirmed>>
    BY <1>3, <2>3, <2>4 DEF Types, round_ends
  <2>7. Types'
    <3>1. rounds[n] + 1 \in 0..MaxRounds
      BY <2>1
    <3>2. pc' \in [Node -> PC]
      BY <2>5 DEF Types, PC
    <3>3. at' \in [Node -> Nat] /\ rounds' \in [Node -> 0..MaxRounds] /\ quiet' \in [Node -> Nat]
      BY <2>2, <2>3, <2>4, <3>1 DEF Types
    <3> QED
      BY <1>3, <3>2, <3>3 DEF Types, round_ends
  <2>8. NodeInv(n)'
    <3>1. Enough(n)' <=> Enough(n)
      BY <2>6 DEF Enough
    <3> QED
      BY <1>0, <1>1, <2>1, <2>2, <2>5, <2>6, <3>1 DEF NodeInv, OnChannels, CallIsSound, HasId,
         ConfirmedOnPath, PassedWithEnough, AttemptsOfRound, Calling
  <2>9. \A k \in Node \ {n} : Same(k)
    BY <1>3, <2>3, <2>4, <2>5 DEF Types, round_ends, Same
  <2> QED
    BY <2>7, <2>8, <2>9, OneNode
<1> QED
  BY <1>2, <1>3

\* Every step of every node preserves the invariant.
LEMMA StepInv == IInv /\ [Next]_vars => IInv'
<1> SUFFICES ASSUME IInv, [Next]_vars PROVE IInv'
  OBVIOUS
<1>1. ASSUME NEW n \in Node, CycleStep(n) PROVE IInv'
  BY <1>1, CycleInv, AttemptInv, LoopInv DEF CycleStep
<1>2. ASSUME NEW n \in Node, voter_switches(n) PROVE IInv'
  <2>1. Types'
    BY <1>2 DEF IInv, Types, voter_switches, callvars
  <2>2. \A k \in Node : NodeInv(k) /\ Same(k)
    BY <1>2 DEF IInv, voter_switches, Same, callvars
  <2>3. \A k \in Node : NodeInv(k)'
    BY <2>2 DEF Same, NodeInv, OnChannels, CallIsSound, HasId, ConfirmedOnPath,
       PassedWithEnough, Enough, AttemptsOfRound
  <2> QED
    BY <2>1, <2>3 DEF IInv
<1>3. ASSUME UNCHANGED vars PROVE IInv'
  BY <1>3 DEF vars, callvars, IInv, Types, NodeInv, OnChannels, CallIsSound, HasId,
     ConfirmedOnPath, PassedWithEnough, Enough, AttemptsOfRound
<1> QED
  BY <1>1, <1>2, <1>3, CycleInv, RendezvousAssumption DEF Next, execute_fails

\* The invariant holds in every reachable state.
LEMMA Invariance == Spec => []IInv
  BY InitInv, StepInv, PTL DEF Spec

-----------------------------------------------------------------------------
(* Theorems *)

\* Every variable keeps its type, and the loop index is a channel of the
\* voter whenever it is used (rte_channel_checkpoint).
THEOREM TypeCorrect == Spec => []TypeOK
<1>1. IInv => TypeOK
  BY DEF IInv, Types, NodeInv, OnChannels, CallIsSound, TypeOK
<1> QED
  BY <1>1, Invariance, PTL

\* REQ-CHECKPOINT-002, for every wiring of the channels and every loss, delay
\* and reboot: a node that passed was confirmed on expected_node_count
\* different channels, on each by an arrival with the id of its own cycle.
THEOREM PassedOnPath == Spec => []PassedMeansPeersOnPath
<1>1. ASSUME IInv, NEW n \in Node, pc[n] = "passed"
      PROVE  Cardinality({i \in DOMAIN confirmed[n] : confirmed[n][i] = id[n]}) >= Expected[n]
  <2>1. Enough(n) /\ \A i \in DOMAIN confirmed[n] : confirmed[n][i] = id[n]
    BY <1>1 DEF IInv, NodeInv, ConfirmedOnPath, PassedWithEnough
  <2>2. {i \in DOMAIN confirmed[n] : confirmed[n][i] = id[n]} = DOMAIN confirmed[n]
    BY <2>1
  <2> QED
    BY <2>1, <2>2 DEF Enough
<1>2. IInv => PassedMeansPeersOnPath
  BY <1>1 DEF PassedMeansPeersOnPath
<1> QED
  BY <1>2, Invariance, PTL

\* rte_checkpoint_config_t::watchdog, for every number of channels: between
\* two kicks there is at most one attempt on each channel.
THEOREM KeepsKicking == Spec => []RetryingKeepsKicking
<1>1. ASSUME IInv, NEW n \in Node PROVE quiet[n] <= Len(Channels[n])
  <2>1. NodeInv(n) /\ quiet[n] \in Nat /\ at[n] \in Nat /\ Len(Channels[n]) \in Nat
    BY <1>1, RendezvousAssumption DEF IInv, Types
  <2> QED
    BY <2>1 DEF NodeInv, CallIsSound, AttemptsOfRound, Calling
<1>2. IInv => RetryingKeepsKicking
  BY <1>1 DEF RetryingKeepsKicking
<1> QED
  BY <1>2, Invariance, PTL
=============================================================================
