-------------------------- MODULE DualChannel_proofs --------------------------
(***************************************************************************)
(* Proofs about DualChannel, for any number of links, any width of the     *)
(* sequence numbers and any interleaving of the calls of both endpoints    *)
(* with loss, repetition, delay, corruption and misdirection of frames.    *)
(*                                                                         *)
(* Types hold without any further condition.  The two theorems about what  *)
(* the links deliver hold within a horizon: once a counter has wrapped,    *)
(* has been restarted or has been resynchronised, an old frame that is     *)
(* still on its way has an acceptable number again, so what they say is    *)
(* not true beyond it.  Their invariant relates the frames on their way,   *)
(* in any order, to the counters of both ends and to what was taken in.    *)
(***************************************************************************)
EXTENDS DualChannel, FiniteSetTheorems, SequenceTheorems, TLAPS

-----------------------------------------------------------------------------
(* Ends, sequences and records *)

\* There are two ends, each the other's peer.
LEMMA PeerFacts ==
  ASSUME NEW e \in End
  PROVE  Peer(e) \in End /\ Peer(e) # e /\ Peer(Peer(e)) = e /\ End = {e, Peer(e)}
  BY DEF End, Peer

\* Sequence numbers stay in their width.
LEMMA SequenceFacts ==
  /\ 0 \in Sequence
  /\ \A n \in Nat : NextSequence(n) \in Sequence
  /\ \A n \in Sequence : n \in Nat /\ (n + 1 < SEQ_MOD => NextSequence(n) = n + 1)
<1>1. SEQ_MOD \in Nat \ {0}
  BY DualAssumption
<1>2. \A n \in Nat : (n + 1) % SEQ_MOD \in 0..(SEQ_MOD - 1)
  BY <1>1
<1>3. \A n \in Nat : n + 1 < SEQ_MOD => (n + 1) % SEQ_MOD = n + 1
  BY <1>1
<1> QED
  BY <1>1, <1>2, <1>3 DEF Sequence, NextSequence

\* The links.
LEMMA LinkFacts == /\ LinkCount \in Nat /\ 1 \in Link /\ LinkCount \in Link
                   /\ \A i \in Link : i \in Nat /\ i >= 1 /\ i <= LinkCount
                   /\ \A i \in Link : i < LinkCount => i + 1 \in Link
                   /\ \A i \in Link : ~(i < LinkCount) => i = LinkCount
  BY DualAssumption DEF Link

\* What a send takes from the sequence counter.
LEMMA SendFacts ==
  ASSUME NEW c \in Channel, NEW i \in Link
  PROVE  LET d == msgchannel_send(c, i)
         IN  /\ d \in Channel
             /\ d.link_up = c.link_up /\ d.last_status = c.last_status
             /\ d.pending_data = c.pending_data /\ d.pending_state = c.pending_state
             /\ d.links[i].next_sequence = NextSequence(c.links[i].next_sequence)
             /\ d.links[i].expected_sequence = c.links[i].expected_sequence
             /\ \A j \in Link \ {i} : d.links[j] = c.links[j]
<1> DEFINE x == NextSequence(c.links[i].next_sequence)
           l == [c.links[i] EXCEPT !.next_sequence = x]
           ls == [c.links EXCEPT ![i] = l]
<1>0. c.links[i] \in [next_sequence: Sequence, expected_sequence: Sequence]
  BY DEF Channel
<1>1. x \in Sequence
  BY <1>0, SequenceFacts
<1>2. msgchannel_send(c, i) = [c EXCEPT !.links = ls]
  BY DEF msgchannel_send
<1> HIDE DEF x
<1>3. /\ l \in [next_sequence: Sequence, expected_sequence: Sequence]
      /\ l.next_sequence = x /\ l.expected_sequence = c.links[i].expected_sequence
  BY <1>0, <1>1
<1> HIDE DEF l
<1>4. /\ ls \in [Link -> [next_sequence: Sequence, expected_sequence: Sequence]]
      /\ ls[i] = l /\ \A j \in Link \ {i} : ls[j] = c.links[j]
  BY <1>3 DEF Channel
<1> HIDE DEF ls
<1> QED
  BY <1>2, <1>3, <1>4 DEF Channel, x

\* What a receive does to it.
LEMMA ReceiveFacts ==
  ASSUME NEW c \in Channel, NEW e \in End, NEW i \in Link, NEW f \in Frame
  PROVE  LET d == msgchannel_receive(c, e, i, f)
             status == msgchannel_receive_status(c, e, i, f)
         IN  /\ d \in Channel
             /\ d.link_up = c.link_up /\ d.last_status = c.last_status
             /\ d.pending_data = c.pending_data /\ d.pending_state = c.pending_state
             /\ d.links[i].next_sequence = c.links[i].next_sequence
             /\ status = "OK" => d.links[i].expected_sequence = NextSequence(f.sequence)
             /\ status # "OK" /\ ~RESYNC =>
                  d.links[i].expected_sequence = c.links[i].expected_sequence
             /\ \A j \in Link \ {i} : d.links[j] = c.links[j]
<1> DEFINE status == msgchannel_receive_status(c, e, i, f)
           x == CASE status = "OK" -> NextSequence(f.sequence)
                  [] status = "DATA_CORRUPTION" /\ RESYNC /\ f.intact -> NextSequence(f.sequence)
                  [] OTHER -> c.links[i].expected_sequence
           l == [c.links[i] EXCEPT !.expected_sequence = x]
           ls == [c.links EXCEPT ![i] = l]
<1>0. /\ c.links[i] \in [next_sequence: Sequence, expected_sequence: Sequence]
      /\ NextSequence(f.sequence) \in Sequence
  BY SequenceFacts DEF Channel, Frame
<1>1. msgchannel_receive(c, e, i, f) = [c EXCEPT !.links = ls]
  BY DEF msgchannel_receive
<1> HIDE DEF status
<1>2. /\ x \in Sequence
      /\ status = "OK" => x = NextSequence(f.sequence)
      /\ status # "OK" /\ ~RESYNC => x = c.links[i].expected_sequence
  BY <1>0
<1> HIDE DEF x
<1>3. /\ l \in [next_sequence: Sequence, expected_sequence: Sequence]
      /\ l.next_sequence = c.links[i].next_sequence /\ l.expected_sequence = x
  BY <1>0, <1>2
<1> HIDE DEF l
<1>4. /\ ls \in [Link -> [next_sequence: Sequence, expected_sequence: Sequence]]
      /\ ls[i] = l /\ \A j \in Link \ {i} : ls[j] = c.links[j]
  BY <1>3 DEF Channel
<1> HIDE DEF ls
<1> QED
  BY <1>1, <1>2, <1>3, <1>4 DEF Channel, status

\* One frame more.
LEMMA AppendFacts ==
  ASSUME NEW S, NEW s \in Seq(S), NEW x \in S
  PROVE  /\ Append(s, x) \in Seq(S) /\ Append(s, x) # <<>>
         /\ Len(Append(s, x)) = Len(s) + 1 /\ Len(s) \in Nat
         /\ Append(s, x)[Len(s) + 1] = x
         /\ Range(Append(s, x)) = Range(s) \cup {x}
<1> DEFINE t == Append(s, x)
<1>1. /\ t \in Seq(S) /\ Len(t) = Len(s) + 1 /\ Len(s) \in Nat /\ t[Len(s) + 1] = x
      /\ \A k \in 1..Len(s) : t[k] = s[k]
      /\ DOMAIN t = 1..(Len(s) + 1) /\ DOMAIN s = 1..Len(s)
  OBVIOUS
<1>2. t # <<>>
  BY <1>1
<1> HIDE DEF t
<1>3. ASSUME NEW k \in DOMAIN t PROVE t[k] \in Range(s) \cup {x}
  <2>1. k \in 1..Len(s) \/ k = Len(s) + 1
    BY <1>1
  <2> QED
    BY <1>1, <2>1 DEF Range
<1>4. ASSUME NEW k \in DOMAIN s PROVE s[k] \in Range(t)
  <2>1. k \in DOMAIN t /\ t[k] = s[k]
    BY <1>1
  <2> QED
    BY <2>1 DEF Range
<1>5. x \in Range(t)
  <2>1. Len(s) + 1 \in DOMAIN t
    BY <1>1
  <2> QED
    BY <1>1, <2>1 DEF Range
<1>6. Range(t) = Range(s) \cup {x}
  BY <1>3, <1>4, <1>5 DEF Range
<1> QED
  BY <1>1, <1>2, <1>6 DEF t

\* The first frame is read.
LEMMA TailFacts ==
  ASSUME NEW S, NEW s \in Seq(S), s # <<>>
  PROVE  /\ Head(s) \in S /\ Head(s) \in Range(s)
         /\ Tail(s) \in Seq(S) /\ Range(Tail(s)) \subseteq Range(s)
<1>1. /\ Len(s) \in Nat /\ Len(s) >= 1 /\ DOMAIN s = 1..Len(s) /\ Head(s) = s[1]
      /\ Tail(s) \in Seq(S) /\ DOMAIN Tail(s) = 1..(Len(s) - 1)
      /\ \A k \in 1..(Len(s) - 1) : Tail(s)[k] = s[k + 1]
  OBVIOUS
<1>2. 1 \in DOMAIN s /\ s[1] \in S
  BY <1>1
<1>3. ASSUME NEW k \in DOMAIN Tail(s) PROVE Tail(s)[k] \in Range(s)
  <2>1. k + 1 \in DOMAIN s /\ Tail(s)[k] = s[k + 1]
    BY <1>1
  <2> QED
    BY <2>1 DEF Range
<1> QED
  BY <1>1, <1>2, <1>3 DEF Range

\* One frame is lost.
LEMMA RemoveFacts ==
  ASSUME NEW S, NEW s \in Seq(S), NEW k \in DOMAIN s
  PROVE  RemoveAt(s, k) \in Seq(S) /\ Range(RemoveAt(s, k)) \subseteq Range(s)
<1> DEFINE n == Len(s)
           a == SubSeq(s, 1, k - 1)
           b == SubSeq(s, k + 1, n)
<1>1. n \in Nat /\ DOMAIN s = 1..n /\ k \in 1..n
  OBVIOUS
<1>2. /\ a \in Seq(S) /\ Len(a) = k - 1
      /\ \A j \in 1..(k - 1) : a[j] = s[j]
  BY <1>1
<1>3. /\ b \in Seq(S) /\ Len(b) = n - k
      /\ \A j \in 1..(n - k) : b[j] = s[k + j]
  BY <1>1
<1> HIDE DEF a, b
<1> DEFINE t == a \o b
<1>4. /\ t \in Seq(S) /\ DOMAIN t = 1..(n - 1)
      /\ \A j \in 1..(n - 1) : t[j] = IF j <= k - 1 THEN a[j] ELSE b[j - (k - 1)]
  <2>1. /\ t \in Seq(S) /\ Len(t) = Len(a) + Len(b)
        /\ \A j \in 1..(Len(a) + Len(b)) : t[j] = IF j <= Len(a) THEN a[j] ELSE b[j - Len(a)]
    BY <1>2, <1>3, ConcatProperties
  <2> HIDE DEF t
  <2>2. Len(a) + Len(b) = n - 1
    BY <1>1, <1>2, <1>3
  <2> QED
    BY <1>2, <2>1, <2>2
<1> HIDE DEF t, n
<1>5. ASSUME NEW j \in DOMAIN t PROVE t[j] \in Range(s)
  <2>0. j \in 1..(n - 1) /\ k \in Nat /\ j \in Nat
    BY <1>1, <1>4
  <2>1. CASE j <= k - 1
    <3>1. t[j] = a[j]
      BY <1>4, <2>0, <2>1
    <3>2. a[j] = s[j] /\ j \in DOMAIN s
      BY <1>1, <1>2, <2>0, <2>1
    <3> QED
      BY <3>1, <3>2 DEF Range
  <2>2. CASE ~(j <= k - 1)
    <3>1. t[j] = b[j - (k - 1)]
      BY <1>4, <2>0, <2>2
    <3>2. j - (k - 1) \in 1..(n - k) /\ k + (j - (k - 1)) = j + 1 /\ j + 1 \in DOMAIN s
      BY <1>1, <2>0, <2>2
    <3>3. t[j] = s[j + 1]
      BY <1>3, <3>1, <3>2
    <3> QED
      BY <3>2, <3>3 DEF Range
  <2> QED
    BY <2>1, <2>2
<1>6. RemoveAt(s, k) = t
  BY DEF RemoveAt, t, a, b, n
<1> QED
  BY <1>4, <1>5, <1>6 DEF Range

\* The first frame is replaced.
LEMMA ReplaceFacts ==
  ASSUME NEW S, NEW s \in Seq(S), s # <<>>, NEW x \in S
  PROVE  [s EXCEPT ![1] = x] \in Seq(S) /\ Range([s EXCEPT ![1] = x]) \subseteq Range(s) \cup {x}
<1> DEFINE t == [s EXCEPT ![1] = x]
<1>1. /\ Len(s) \in Nat /\ DOMAIN s = 1..Len(s) /\ \A k \in 1..Len(s) : s[k] \in S
  OBVIOUS
<1>2. /\ DOMAIN t = DOMAIN s /\ \A k \in DOMAIN t : t[k] = IF k = 1 THEN x ELSE s[k]
  OBVIOUS
<1>3. t \in Seq(S)
  <2>1. t = [k \in 1..Len(s) |-> IF k = 1 THEN x ELSE s[k]]
    BY <1>1
  <2> QED
    BY <1>1, <2>1
<1> HIDE DEF t
<1>4. \A k \in DOMAIN t : t[k] \in Range(s) \cup {x}
  BY <1>2 DEF Range
<1> QED
  BY <1>3, <1>4 DEF t, Range

-----------------------------------------------------------------------------
(* Types *)

\* The set holds at most one number: what poll_link_once() keeps for the caller.
AtMostOne(S) == S = {} \/ \E n \in Nat : S = {n}

\* The types of the variables, without the bounds the guards keep.
Types ==
  /\ ch \in [End -> Channel]
  /\ call \in [End -> Call]
  /\ net \in [End -> [Link -> Seq(Frame)]]
  /\ calls \in [End -> Nat] /\ left \in Nat /\ stable \in BOOLEAN
  /\ due \in [End -> Ops]
  /\ last \in [End -> Nat]
  /\ accepted \in [End -> [Link -> Seq(Nat)]]

\* The type invariant that is inductive.
TypeInv == Types /\ \A e \in End : AtMostOne(ch[e].pending_data)

\* What a call that has returned looks like.
LEMMA ReturnedFacts ==
  ASSUME NEW status \in {"OK", "TIMEOUT", "HARDWARE_FAULT"}
  PROVE  /\ Returned(status) \in Call
         /\ Returned(status).op = "idle" /\ Returned(status).waiting = FALSE
         /\ Returned(status).link = 1
<1>1. 1 \in Link /\ 0 \in Sequence
  BY LinkFacts, SequenceFacts
<1> QED
  BY <1>1 DEF Returned, Call, Ops

\* A call that begins.
LEMMA BegunFacts ==
  ASSUME NEW op \in Ops
  PROVE  LET c == [Returned("OK") EXCEPT !.op = op]
         IN  c \in Call /\ c.op = op /\ c.waiting = FALSE /\ c.link = 1
<1>1. 1 \in Link /\ 0 \in Sequence
  BY LinkFacts, SequenceFacts
<1> QED
  BY <1>1 DEF Returned, Call, Ops

\* What a send does when it is through with link i and has the channel c.
DoneEffect(e, c, i, up) ==
  /\ ch' \in [End -> Channel] /\ call' \in [End -> Call]
  /\ ch'[Peer(e)] = ch[Peer(e)] /\ call'[Peer(e)] = call[Peer(e)]
  /\ ch'[e].links = c.links /\ ch'[e].pending_data = c.pending_data
  /\ ch'[e].link_up = [c.link_up EXCEPT ![i] = up]
  /\ call'[e].waiting = FALSE
  /\ i < LinkCount => call'[e].op = call[e].op /\ call'[e].link = i + 1
  /\ ~(i < LinkCount) => /\ call'[e].op = "idle"
                         /\ ch'[e].last_status = compute_status(ch'[e].link_up)

\* The send goes on to the next link, or returns.
LEMMA LinkDoneFacts ==
  ASSUME Types, NEW e \in End, NEW c \in Channel, NEW i \in Link,
         NEW up \in BOOLEAN, NEW fault \in BOOLEAN, LinkDone(e, c, i, up, fault)
  PROVE  DoneEffect(e, c, i, up)
<1> USE DEF DoneEffect
<1> DEFINE c1 == [c EXCEPT !.link_up[i] = up]
           ups == [c.link_up EXCEPT ![i] = up]
<1>0. ch \in [End -> Channel] /\ call \in [End -> Call] /\ call[e] \in Call
  BY DEF Types
<1>1. ups \in [Link -> BOOLEAN]
  BY DEF Channel
<1>2. c1 = [c EXCEPT !.link_up = ups]
  OBVIOUS
<1> HIDE DEF ups
<1>3. /\ c1 \in Channel /\ c1.links = c.links /\ c1.pending_data = c.pending_data
      /\ c1.link_up = ups
  BY <1>1, <1>2 DEF Channel
<1>4. CASE i < LinkCount
  <2>1. /\ ch' = [ch EXCEPT ![e] = c1]
        /\ call' = [call EXCEPT ![e] =
             [call[e] EXCEPT !.link = i + 1, !.waiting = FALSE, !.fault = fault]]
    BY <1>4 DEF LinkDone
  <2> HIDE DEF c1
  <2>2. i + 1 \in Link
    BY <1>4, LinkFacts
  <2> DEFINE d == [call[e] EXCEPT !.link = i + 1, !.waiting = FALSE, !.fault = fault]
  <2>3. d \in Call /\ d.waiting = FALSE /\ d.link = i + 1 /\ d.op = call[e].op
    BY <1>0, <2>2 DEF Call
  <2> HIDE DEF d
  <2>4. /\ ch' \in [End -> Channel] /\ call' \in [End -> Call] /\ ch'[e] = c1 /\ call'[e] = d
        /\ ch'[Peer(e)] = ch[Peer(e)] /\ call'[Peer(e)] = call[Peer(e)]
    BY <1>0, <1>3, <2>1, <2>3, PeerFacts DEF d
  <2> QED
    BY <1>3, <1>4, <2>3, <2>4 DEF ups
<1>5. CASE ~(i < LinkCount)
  <2> DEFINE st == send_status(c1.link_up, fault)
             c2 == [c1 EXCEPT !.last_status = compute_status(c1.link_up)]
  <2>1. ch' = [ch EXCEPT ![e] = c2] /\ call' = [call EXCEPT ![e] = Returned(st)]
    BY <1>5 DEF LinkDone
  <2>2. st \in {"OK", "TIMEOUT", "HARDWARE_FAULT"}
    BY DEF send_status
  <2>3. compute_status(c1.link_up) \in {"DOWN", "DEGRADED", "FULL"}
    BY DEF compute_status
  <2> HIDE DEF c1, st
  <2>4. /\ c2 \in Channel /\ c2.links = c1.links /\ c2.pending_data = c1.pending_data
        /\ c2.link_up = c1.link_up /\ c2.last_status = compute_status(c1.link_up)
    BY <1>3, <2>3 DEF Channel
  <2> HIDE DEF c2
  <2>5. /\ Returned(st) \in Call /\ Returned(st).op = "idle" /\ Returned(st).waiting = FALSE
    BY <2>2, ReturnedFacts
  <2>6. /\ ch' \in [End -> Channel] /\ call' \in [End -> Call]
        /\ ch'[e] = c2 /\ call'[e] = Returned(st)
        /\ ch'[Peer(e)] = ch[Peer(e)] /\ call'[Peer(e)] = call[Peer(e)]
    BY <1>0, <2>1, <2>4, <2>5, PeerFacts
  <2> QED
    BY <1>3, <1>5, <2>4, <2>5, <2>6 DEF ups
<1> QED
  BY <1>4, <1>5

\* The receive goes on to the next link, or returns what is pending.
LEMMA LinkPolledFacts ==
  ASSUME Types, NEW e \in End, NEW c \in Channel, NEW i \in Link,
         NEW fault \in BOOLEAN, LinkPolled(e, c, i, fault)
  PROVE  /\ ch' \in [End -> Channel] /\ call' \in [End -> Call]
         /\ ch'[Peer(e)] = ch[Peer(e)] /\ call'[Peer(e)] = call[Peer(e)]
         /\ ch'[e].links = c.links /\ ch'[e].link_up = c.link_up
         /\ ch'[e].last_status = c.last_status
         /\ ch'[e].pending_data = c.pending_data \/ ch'[e].pending_data = {}
         /\ call'[e].op \in {"idle", call[e].op}
<1>0. ch \in [End -> Channel] /\ call \in [End -> Call] /\ call[e] \in Call
  BY DEF Types
<1>1. ASSUME NEW d \in Channel, NEW x \in Call, ch' = [ch EXCEPT ![e] = d],
             call' = [call EXCEPT ![e] = x]
      PROVE  /\ ch' \in [End -> Channel] /\ call' \in [End -> Call]
             /\ ch'[Peer(e)] = ch[Peer(e)] /\ call'[Peer(e)] = call[Peer(e)]
             /\ ch'[e] = d /\ call'[e] = x
  BY <1>0, <1>1, PeerFacts
<1>2. CASE i < LinkCount
  <2> DEFINE x == [call[e] EXCEPT !.link = i + 1, !.fault = fault]
  <2>1. ch' = [ch EXCEPT ![e] = c] /\ call' = [call EXCEPT ![e] = x]
    BY <1>2 DEF LinkPolled
  <2>2. x \in Call /\ x.op = call[e].op
    BY <1>0, <1>2, LinkFacts DEF Call
  <2> HIDE DEF x
  <2> QED
    BY <1>1, <2>1, <2>2
<1>3. CASE ~(i < LinkCount)
  <2>1. PICK st \in {"OK", "TIMEOUT", "HARDWARE_FAULT"} :
          /\ call' = [call EXCEPT ![e] = Returned(st)]
          /\ \/ ch' = [ch EXCEPT ![e] = [c EXCEPT !.pending_data = {}]]
             \/ ch' = [ch EXCEPT ![e] = [c EXCEPT !.pending_state = FALSE]]
    BY <1>3 DEF LinkPolled
  <2>2. Returned(st) \in Call /\ Returned(st).op = "idle"
    BY ReturnedFacts
  <2>3. ASSUME NEW d, ch' = [ch EXCEPT ![e] = d],
               d = [c EXCEPT !.pending_data = {}] \/ d = [c EXCEPT !.pending_state = FALSE]
        PROVE  /\ d \in Channel /\ d.links = c.links /\ d.link_up = c.link_up
               /\ d.last_status = c.last_status
               /\ d.pending_data = c.pending_data \/ d.pending_data = {}
    BY <2>3 DEF Channel
  <2> QED
    BY <1>1, <2>1, <2>2, <2>3
<1> QED
  BY <1>2, <1>3

\* A frame that was taken is put where the application will look for it.
LEMMA PollOnceFacts ==
  ASSUME NEW c \in Channel, NEW f \in Frame
  PROVE  LET d == poll_link_once(c, f)
         IN  /\ d \in Channel /\ d.links = c.links /\ d.link_up = c.link_up
             /\ d.last_status = c.last_status
             /\ d.pending_data = c.pending_data \/ d.pending_data = {f.no}
             /\ f.no \in Nat
<1>1. f.no \in Nat
  BY DEF Frame
<1>2. CASE f.kind = "DATA"
  BY <1>1, <1>2 DEF poll_link_once, Channel
<1>3. CASE f.kind = "STATE"
  BY <1>1, <1>3 DEF poll_link_once, Channel
<1>4. CASE f.kind \notin {"DATA", "STATE"}
  BY <1>1, <1>4 DEF poll_link_once
<1> QED
  BY <1>2, <1>3, <1>4

\* The frame that is sent.
LEMMA FrameFacts ==
  ASSUME NEW c \in Channel, NEW e \in End, NEW i \in Link, NEW kind \in FrameKind, NEW no \in Nat
  PROVE  LET f == msgchannel_frame(c, e, i, kind, no)
         IN  /\ f \in Frame /\ f.from = e /\ f.intact = TRUE /\ f.kind = kind /\ f.no = no
             /\ f.sequence = c.links[i].next_sequence
<1>1. c.links[i].next_sequence \in Sequence
  BY DEF Channel
<1> QED
  BY <1>1 DEF msgchannel_frame, Frame

\* A send or a heartbeat of e is in progress.
Sending(e) == call[e].op \in {"send", "heartbeat"}

\* The send of e has finished with link i, which was up or not.
MovesOn(e, i, up) ==
  /\ ch'[e].link_up = [ch[e].link_up EXCEPT ![i] = up]
  /\ call'[e].waiting = FALSE
  /\ i < LinkCount => call'[e].op = call[e].op /\ call'[e].link = i + 1
  /\ ~(i < LinkCount) => /\ call'[e].op = "idle"
                         /\ ch'[e].last_status = compute_status(ch'[e].link_up)

\* The link states that e has reported stay as they are.
KeepsStatus(e) ==
  ch'[e].link_up = ch[e].link_up /\ ch'[e].last_status = ch[e].last_status

\* The frame at the head of link i is taken and answered, ack saying whether
\* the answer went out.
PollEffect(e, i, f, ack) ==
  LET p == Peer(e)
      old == ch[e].links[i]
      new == ch'[e].links[i]
      taken == msgchannel_receive_status(ch[e], e, i, f) = "OK"
  IN  /\ i \in Link /\ f \in Frame /\ f \in Range(net[e][i])
      /\ ch' \in [End -> Channel] /\ call' \in [End -> Call]
      /\ ch'[p] = ch[p] /\ call'[p] = call[p]
      /\ UNCHANGED <<calls, stable, due, last>>
      /\ left' \in Nat
      /\ \A j \in Link \ {i} : ch'[e].links[j] = ch[e].links[j]
      /\ AtMostOne(ch'[e].pending_data)
      /\ taken => new.expected_sequence = NextSequence(f.sequence)
      /\ ~taken /\ ~RESYNC => new.expected_sequence = old.expected_sequence
      /\ ack => taken /\ Acknowledged(f)
      /\ new.next_sequence = IF ack THEN NextSequence(old.next_sequence) ELSE old.next_sequence
      /\ net' \in [End -> [Link -> Seq(Frame)]]
      /\ Range(net'[e][i]) \subseteq Range(net[e][i])
      /\ \A j \in Link \ {i} : net'[e][j] = net[e][j] /\ net'[p][j] = net[p][j]
      /\ ~ack => net'[p][i] = net[p][i]
      /\ ack => \E g \in Frame :
                  /\ g.kind = "ACK" /\ g.no = f.sequence /\ g.sequence = old.next_sequence
                  /\ Range(net'[p][i]) = Range(net[p][i]) \cup {g}
      /\ accepted' = IF taken /\ Acknowledged(f) /\ f.no # 0
                     THEN [accepted EXCEPT ![e][i] = Append(@, f.no)] ELSE accepted
      /\ \/ Polling(e) /\ call'[e].op \in {"idle", call[e].op} /\ KeepsStatus(e)
         \/ Waiting(e) /\ call' = call /\ KeepsStatus(e)
         \/ Waiting(e) /\ MovesOn(e, i, FALSE)
         \/ Waiting(e) /\ MovesOn(e, i, TRUE) /\ taken /\ Matches(e, f)

\* poll_link_once() as seen by everything else.
LEMMA PollFacts ==
  ASSUME TypeInv, NEW e \in End, Poll(e)
  PROVE  \E f \in Frame, ack \in BOOLEAN : PollEffect(e, call[e].link, f, ack)
<1> DEFINE p == Peer(e)
           i == call[e].link
           f == Head(net[e][i])
           status == msgchannel_receive_status(ch[e], e, i, f)
           c1 == msgchannel_receive(ch[e], e, i, f)
           taken == status = "OK"
           c2 == IF taken THEN poll_link_once(c1, f) ELSE c1
           answered == taken /\ Acknowledged(f)
           c3(ack) == IF ack THEN msgchannel_send(c2, i) ELSE c2
           g == msgchannel_frame(c2, e, i, "ACK", f.sequence)
<1>0. Types /\ AtMostOne(ch[e].pending_data)
  BY DEF TypeInv
<1>1. /\ i \in Link /\ net[e][i] \in Seq(Frame) /\ net[e][i] # <<>> /\ ch[e] \in Channel
      /\ ch \in [End -> Channel] /\ call \in [End -> Call] /\ call[e].fault \in BOOLEAN
      /\ net[p][i] \in Seq(Frame) /\ p \in End /\ p # e
  BY <1>0, PeerFacts DEF Types, Call, Poll
<1>2. /\ Waiting(e) \/ Polling(e)
      /\ \E ack \in {answered, FALSE} :
           /\ Refuse(answered /\ ~ack)
           /\ net' = [net EXCEPT ![e][i] = Tail(@), ![p][i] = IF ack THEN Append(@, g) ELSE @]
           /\ IF Polling(e)
              THEN LinkPolled(e, c3(ack), i, call[e].fault \/ status = "HARDWARE_FAULT")
              ELSE IF taken /\ Matches(e, f) THEN LinkDone(e, c3(ack), i, TRUE, call[e].fault)
              ELSE IF status = "HARDWARE_FAULT" THEN LinkDone(e, c3(ack), i, FALSE, TRUE)
              ELSE ch' = [ch EXCEPT ![e] = c3(ack)] /\ UNCHANGED call
      /\ accepted' = IF answered /\ f.no # 0
                     THEN [accepted EXCEPT ![e][i] = Append(@, f.no)] ELSE accepted
      /\ UNCHANGED <<calls, stable, due, last>>
  BY DEF Poll
<1>3. PICK ack \in {answered, FALSE} :
           /\ Refuse(answered /\ ~ack)
           /\ net' = [net EXCEPT ![e][i] = Tail(@), ![p][i] = IF ack THEN Append(@, g) ELSE @]
           /\ IF Polling(e)
              THEN LinkPolled(e, c3(ack), i, call[e].fault \/ status = "HARDWARE_FAULT")
              ELSE IF taken /\ Matches(e, f) THEN LinkDone(e, c3(ack), i, TRUE, call[e].fault)
              ELSE IF status = "HARDWARE_FAULT" THEN LinkDone(e, c3(ack), i, FALSE, TRUE)
              ELSE ch' = [ch EXCEPT ![e] = c3(ack)] /\ UNCHANGED call
  BY <1>2
<1>4. /\ f \in Frame /\ f \in Range(net[e][i])
      /\ Tail(net[e][i]) \in Seq(Frame) /\ Range(Tail(net[e][i])) \subseteq Range(net[e][i])
  BY <1>1, TailFacts
<1> HIDE DEF f, i, p
<1>5. /\ c1 \in Channel /\ c1.link_up = ch[e].link_up /\ c1.last_status = ch[e].last_status
      /\ c1.pending_data = ch[e].pending_data
      /\ c1.links[i].next_sequence = ch[e].links[i].next_sequence
      /\ taken => c1.links[i].expected_sequence = NextSequence(f.sequence)
      /\ ~taken /\ ~RESYNC => c1.links[i].expected_sequence = ch[e].links[i].expected_sequence
      /\ \A j \in Link \ {i} : c1.links[j] = ch[e].links[j]
  BY <1>1, <1>4, ReceiveFacts
<1> HIDE DEF c1, status
<1>6. /\ c2 \in Channel /\ c2.links = c1.links /\ c2.link_up = c1.link_up
      /\ c2.last_status = c1.last_status
      /\ AtMostOne(c2.pending_data)
  <2>1. CASE ~taken
    BY <1>0, <1>5, <2>1
  <2>2. CASE taken
    <3> DEFINE x == poll_link_once(c1, f)
    <3>1. /\ x \in Channel /\ x.links = c1.links /\ x.link_up = c1.link_up
          /\ x.last_status = c1.last_status
          /\ x.pending_data = c1.pending_data \/ x.pending_data = {f.no}
          /\ f.no \in Nat
      BY <1>4, <1>5, PollOnceFacts
    <3>2. c2 = x
      BY <2>2
    <3> HIDE DEF x, c2
    <3> QED
      BY <1>0, <1>5, <3>1, <3>2 DEF AtMostOne
  <2> QED
    BY <2>1, <2>2
<1> HIDE DEF c2
<1> DEFINE d == c3(ack)
<1>7. /\ d \in Channel /\ d.link_up = c2.link_up /\ d.last_status = c2.last_status
      /\ d.pending_data = c2.pending_data
      /\ d.links[i].next_sequence = IF ack THEN NextSequence(c2.links[i].next_sequence)
                                    ELSE c2.links[i].next_sequence
      /\ d.links[i].expected_sequence = c2.links[i].expected_sequence
      /\ \A j \in Link \ {i} : d.links[j] = c2.links[j]
  BY <1>1, <1>6, SendFacts
<1> HIDE DEF d
<1>8. /\ g \in Frame /\ g.kind = "ACK" /\ g.no = f.sequence
      /\ g.sequence = ch[e].links[i].next_sequence
  <2>1. f.sequence \in Nat /\ "ACK" \in FrameKind
    BY <1>4, SequenceFacts DEF Frame, FrameKind
  <2>2. /\ g \in Frame /\ g.kind = "ACK" /\ g.no = f.sequence
        /\ g.sequence = c2.links[i].next_sequence
    <3>1. c2.links[i].next_sequence \in Sequence
      BY <1>1, <1>6 DEF Channel
    <3> QED
      BY <1>1, <2>1, <3>1 DEF msgchannel_frame, Frame
  <2> HIDE DEF g
  <2> QED
    BY <1>5, <1>6, <2>2
<1> HIDE DEF g
<1>9. /\ net' \in [End -> [Link -> Seq(Frame)]]
      /\ Range(net'[e][i]) \subseteq Range(net[e][i])
      /\ \A j \in Link \ {i} : net'[e][j] = net[e][j] /\ net'[p][j] = net[p][j]
      /\ ~ack => net'[p][i] = net[p][i]
      /\ ack => Range(net'[p][i]) = Range(net[p][i]) \cup {g}
  <2>0. net \in [End -> [Link -> Seq(Frame)]]
    BY <1>0 DEF Types
  <2> DEFINE into == IF ack THEN Append(net[p][i], g) ELSE net[p][i]
  <2>1. into \in Seq(Frame) /\ (ack => Range(into) = Range(net[p][i]) \cup {g})
    BY <1>1, <1>8, AppendFacts
  <2>2. net' = [net EXCEPT ![e] = [net[e] EXCEPT ![i] = Tail(net[e][i])],
                           ![p] = [net[p] EXCEPT ![i] = into]]
    BY <1>1, <1>3, <2>0
  <2>3. ~ack => into = net[p][i]
    OBVIOUS
  <2> HIDE DEF into
  <2>4. net'[e] = [net[e] EXCEPT ![i] = Tail(net[e][i])] /\ net'[p] = [net[p] EXCEPT ![i] = into]
    BY <1>1, <2>0, <2>2
  <2>5. net' \in [End -> [Link -> Seq(Frame)]]
    BY <1>1, <1>4, <2>0, <2>1, <2>2
  <2> QED
    BY <1>1, <1>4, <2>0, <2>1, <2>3, <2>4, <2>5
<1>10. left' \in Nat
  BY <1>0, <1>3 DEF Refuse, Disturb, Types
<1>11. /\ ch' \in [End -> Channel] /\ call' \in [End -> Call]
       /\ ch'[p] = ch[p] /\ call'[p] = call[p] /\ ch'[e].links = d.links
       /\ ch'[e].pending_data = d.pending_data \/ ch'[e].pending_data = {}
       /\ \/ Polling(e) /\ call'[e].op \in {"idle", call[e].op} /\ KeepsStatus(e)
          \/ Waiting(e) /\ call' = call /\ KeepsStatus(e)
          \/ Waiting(e) /\ MovesOn(e, i, FALSE)
          \/ Waiting(e) /\ MovesOn(e, i, TRUE) /\ taken /\ Matches(e, f)
  <2>0. d.link_up = ch[e].link_up /\ d.last_status = ch[e].last_status
    BY <1>5, <1>6, <1>7
  <2>1. CASE Polling(e)
    <3>1. LinkPolled(e, d, i, call[e].fault \/ status = "HARDWARE_FAULT")
      BY <1>3, <2>1 DEF d
    <3>2. (call[e].fault \/ status = "HARDWARE_FAULT") \in BOOLEAN
      BY <1>1
    <3>3. /\ ch' \in [End -> Channel] /\ call' \in [End -> Call]
          /\ ch'[p] = ch[p] /\ call'[p] = call[p]
          /\ ch'[e].links = d.links /\ ch'[e].link_up = d.link_up
          /\ ch'[e].last_status = d.last_status
          /\ ch'[e].pending_data = d.pending_data \/ ch'[e].pending_data = {}
          /\ call'[e].op \in {"idle", call[e].op}
      BY <1>0, <1>1, <1>7, <3>1, <3>2, LinkPolledFacts DEF p
    <3> QED
      BY <2>0, <2>1, <3>3 DEF KeepsStatus
  <2>2. ASSUME NEW up \in BOOLEAN, NEW fault \in BOOLEAN, LinkDone(e, d, i, up, fault)
        PROVE  /\ ch' \in [End -> Channel] /\ call' \in [End -> Call]
               /\ ch'[p] = ch[p] /\ call'[p] = call[p] /\ ch'[e].links = d.links
               /\ ch'[e].pending_data = d.pending_data
               /\ MovesOn(e, i, up)
    <3>1. DoneEffect(e, d, i, up)
      BY <1>0, <1>1, <1>7, <2>2, LinkDoneFacts
    <3> QED
      BY <2>0, <3>1 DEF MovesOn, DoneEffect, p
  <2>3. CASE ~Polling(e) /\ taken /\ Matches(e, f)
    <3>1. LinkDone(e, d, i, TRUE, call[e].fault)
      BY <1>3, <2>3 DEF d
    <3> QED
      BY <1>1, <1>2, <2>2, <2>3, <3>1
  <2>4. CASE ~Polling(e) /\ ~(taken /\ Matches(e, f)) /\ status = "HARDWARE_FAULT"
    <3>1. LinkDone(e, d, i, FALSE, TRUE)
      BY <1>3, <2>4 DEF d
    <3> QED
      BY <1>2, <2>2, <2>4, <3>1
  <2>5. CASE ~Polling(e) /\ ~(taken /\ Matches(e, f)) /\ status # "HARDWARE_FAULT"
    <3>1. ch' = [ch EXCEPT ![e] = d] /\ call' = call
      BY <1>3, <2>5 DEF d
    <3>2. /\ ch' \in [End -> Channel] /\ ch'[e] = d /\ ch'[p] = ch[p]
      BY <1>1, <1>7, <3>1
    <3> QED
      BY <1>1, <1>2, <2>0, <2>5, <3>1, <3>2 DEF KeepsStatus
  <2> QED
    BY <2>1, <2>3, <2>4, <2>5
<1>12. ack \in BOOLEAN /\ (ack => taken /\ Acknowledged(f))
  BY DEF Acknowledged
<1>13. AtMostOne(ch'[e].pending_data)
  BY <1>6, <1>7, <1>11 DEF AtMostOne
<1>14. /\ \A j \in Link \ {i} : ch'[e].links[j] = ch[e].links[j]
       /\ taken => ch'[e].links[i].expected_sequence = NextSequence(f.sequence)
       /\ ~taken /\ ~RESYNC =>
            ch'[e].links[i].expected_sequence = ch[e].links[i].expected_sequence
       /\ ch'[e].links[i].next_sequence =
            IF ack THEN NextSequence(ch[e].links[i].next_sequence)
            ELSE ch[e].links[i].next_sequence
  BY <1>1, <1>5, <1>6, <1>7, <1>11
<1>15. accepted' = IF taken /\ Acknowledged(f) /\ f.no # 0
                   THEN [accepted EXCEPT ![e][i] = Append(@, f.no)] ELSE accepted
  BY <1>2
<1>16. PollEffect(e, i, f, ack)
  BY <1>1, <1>2, <1>4, <1>8, <1>9, <1>10, <1>11, <1>12, <1>13, <1>14, <1>15
     DEF PollEffect, p, status
<1> QED
  BY <1>4, <1>12, <1>16 DEF i

\* A call of e is counted.
Counted(e) ==
  \/ UNCHANGED calls
  \/ calls' = [calls EXCEPT ![e] = calls[e] + 1] /\ calls[e] < MaxCalls[e] /\ ~stable

\* A step of e within its own memory: a call begins, comes to the next link, or
\* returns, and nothing is sent or taken in.
QuietEffect(e) ==
  LET p == Peer(e)
  IN  /\ ch' \in [End -> Channel] /\ call' \in [End -> Call]
      /\ ch'[p] = ch[p] /\ call'[p] = call[p] /\ ch'[e].links = ch[e].links
      /\ AtMostOne(ch'[e].pending_data)
      /\ UNCHANGED <<net, stable, accepted>>
      /\ left' \in Nat /\ due' \in [End -> Ops]
      /\ \/ /\ Sending(e) /\ MovesOn(e, call[e].link, FALSE)
            /\ UNCHANGED <<calls, last>>
         \/ /\ ~Sending(e) /\ call'[e].op \notin {"send", "heartbeat"} /\ KeepsStatus(e)
            /\ Counted(e) /\ UNCHANGED last
         \/ /\ ~Sending(e) /\ call'[e].op \in {"send", "heartbeat"} /\ KeepsStatus(e)
            /\ call'[e].link = 1 /\ call'[e].waiting = FALSE
            /\ Counted(e) /\ (stable \/ calls' # calls)
            /\ last' = [last EXCEPT ![e] = IF stable THEN 0 ELSE calls[e] + 1]

\* A call is counted when it begins.
LEMMA CountFacts ==
  ASSUME Types, NEW e \in End, NEW op \in Ops, CanCall(e, op), CountCall(e, op)
  PROVE  /\ Counted(e) /\ (stable \/ calls' # calls) /\ ~Sending(e)
         /\ calls' \in [End -> Nat] /\ due' \in [End -> Ops]
<1>1. After(op) \in Ops
  BY DEF After, Ops
<1>2. calls \in [End -> Nat] /\ due \in [End -> Ops]
  BY DEF Types
<1>3. /\ calls' = IF stable THEN calls ELSE [calls EXCEPT ![e] = calls[e] + 1]
      /\ due' = IF stable THEN [due EXCEPT ![e] = After(op)] ELSE due
  BY DEF CountCall
<1>4. ~stable => calls[e] < MaxCalls[e]
  BY DEF CanCall
<1>5. ~Sending(e)
  BY DEF CanCall, Sending
<1>6. [calls EXCEPT ![e] = calls[e] + 1] # calls
  BY <1>2
<1> QED
  BY <1>1, <1>2, <1>3, <1>4, <1>5, <1>6 DEF Counted

\* The steps that neither send nor take in.
LEMMA QuietFacts ==
  ASSUME TypeInv, NEW e \in End,
         \/ StartSend(e, "send") \/ StartSend(e, "heartbeat")
         \/ StartReceive(e, "receive") \/ StartReceive(e, "receive_state")
         \/ PollEmpty(e) \/ AckTimeout(e) \/ SendRefused(e) \/ PollFault(e) \/ AckLate(e)
  PROVE  QuietEffect(e)
<1> DEFINE p == Peer(e)
           i == call[e].link
<1>0. /\ Types /\ AtMostOne(ch[e].pending_data) /\ ch \in [End -> Channel]
      /\ call \in [End -> Call] /\ ch[e] \in Channel /\ call[e].fault \in BOOLEAN /\ i \in Link
      /\ p \in End /\ p # e /\ left \in Nat /\ due \in [End -> Ops]
  BY PeerFacts DEF TypeInv, Types, Call
<1>1. ASSUME NEW op \in {"send", "heartbeat"}, StartSend(e, op) PROVE QuietEffect(e)
  <2>1. /\ Counted(e) /\ (stable \/ calls' # calls) /\ ~Sending(e) /\ due' \in [End -> Ops]
    BY <1>0, <1>1, CountFacts DEF StartSend, Ops
  <2> DEFINE c == [Returned("OK") EXCEPT !.op = op]
  <2>2. c \in Call /\ c.op = op /\ c.waiting = FALSE /\ c.link = 1
    BY BegunFacts DEF Ops
  <2>3. call' = [call EXCEPT ![e] = c] /\ UNCHANGED <<ch, net, left, stable, accepted>>
        /\ last' = [last EXCEPT ![e] = IF stable THEN 0 ELSE calls[e] + 1]
    BY <1>1 DEF StartSend
  <2> HIDE DEF c
  <2>4. call' \in [End -> Call] /\ call'[e] = c /\ call'[p] = call[p]
    BY <1>0, <2>2, <2>3
  <2> QED
    BY <1>0, <2>1, <2>2, <2>3, <2>4 DEF QuietEffect, KeepsStatus
<1>2. ASSUME NEW op \in {"receive", "receive_state"}, StartReceive(e, op) PROVE QuietEffect(e)
  <2>1. /\ Counted(e) /\ ~Sending(e) /\ due' \in [End -> Ops]
    BY <1>0, <1>2, CountFacts DEF StartReceive, Ops
  <2>2. UNCHANGED <<net, left, stable, last, accepted>>
    BY <1>2 DEF StartReceive
  <2>3. \E c, d :
          /\ call' = [call EXCEPT ![e] = c] /\ ch' = [ch EXCEPT ![e] = d]
          /\ c = Returned("OK") \/ c = [Returned("OK") EXCEPT !.op = op]
          /\ d = ch[e] \/ d = [ch[e] EXCEPT !.pending_data = {}]
                       \/ d = [ch[e] EXCEPT !.pending_state = FALSE]
    <3>1. CASE /\ ch' = [ch EXCEPT ![e] = [ch[e] EXCEPT !.pending_data = {}]]
               /\ call' = [call EXCEPT ![e] = Returned("OK")]
      BY <3>1
    <3>2. CASE /\ ch' = [ch EXCEPT ![e] = [ch[e] EXCEPT !.pending_state = FALSE]]
               /\ call' = [call EXCEPT ![e] = Returned("OK")]
      BY <3>2
    <3>3. CASE /\ call' = [call EXCEPT ![e] = [Returned("OK") EXCEPT !.op = op]]
               /\ UNCHANGED ch
      <4>1. ch' = [ch EXCEPT ![e] = ch[e]]
        BY <1>0, <3>3
      <4> QED
        BY <3>3, <4>1
    <3> QED
      BY <1>2, <3>1, <3>2, <3>3 DEF StartReceive
  <2>31. PICK c, d :
          /\ call' = [call EXCEPT ![e] = c] /\ ch' = [ch EXCEPT ![e] = d]
          /\ c = Returned("OK") \/ c = [Returned("OK") EXCEPT !.op = op]
          /\ d = ch[e] \/ d = [ch[e] EXCEPT !.pending_data = {}]
                       \/ d = [ch[e] EXCEPT !.pending_state = FALSE]
    BY <2>3
  <2>4. c \in Call /\ c.op \in {"idle", op}
    <3>1. CASE c = Returned("OK")
      BY <3>1, ReturnedFacts
    <3>2. CASE c = [Returned("OK") EXCEPT !.op = op]
      BY <3>2, BegunFacts DEF Ops
    <3> QED
      BY <2>31, <3>1, <3>2
  <2>5. /\ d \in Channel /\ d.links = ch[e].links /\ d.link_up = ch[e].link_up
        /\ d.last_status = ch[e].last_status /\ AtMostOne(d.pending_data)
    BY <1>0, <2>31 DEF Channel, AtMostOne
  <2>6. /\ ch' \in [End -> Channel] /\ call' \in [End -> Call] /\ ch'[e] = d /\ call'[e] = c
        /\ ch'[p] = ch[p] /\ call'[p] = call[p]
    BY <1>0, <2>31, <2>4, <2>5
  <2> QED
    BY <1>0, <2>1, <2>2, <2>4, <2>5, <2>6 DEF QuietEffect, KeepsStatus
<1>3. ASSUME NEW fault \in BOOLEAN, LinkDone(e, ch[e], i, FALSE, fault), Sending(e), left' \in Nat,
             UNCHANGED <<net, calls, stable, due, last, accepted>>
      PROVE  QuietEffect(e)
  <2>1. DoneEffect(e, ch[e], i, FALSE)
    BY <1>0, <1>3, LinkDoneFacts
  <2>2. MovesOn(e, i, FALSE)
    BY <2>1 DEF MovesOn, DoneEffect
  <2> QED
    BY <1>0, <1>3, <2>1, <2>2 DEF QuietEffect, DoneEffect
<1>4. ASSUME NEW fault \in BOOLEAN, LinkPolled(e, ch[e], i, fault), Polling(e), left' \in Nat,
             UNCHANGED <<net, calls, stable, due, last, accepted>>
      PROVE  QuietEffect(e)
  <2>1. /\ ch' \in [End -> Channel] /\ call' \in [End -> Call]
        /\ ch'[p] = ch[p] /\ call'[p] = call[p]
        /\ ch'[e].links = ch[e].links /\ ch'[e].link_up = ch[e].link_up
        /\ ch'[e].last_status = ch[e].last_status
        /\ ch'[e].pending_data = ch[e].pending_data \/ ch'[e].pending_data = {}
        /\ call'[e].op \in {"idle", call[e].op}
    BY <1>0, <1>4, LinkPolledFacts
  <2>2. AtMostOne(ch'[e].pending_data)
    BY <1>0, <2>1 DEF AtMostOne
  <2> QED
    BY <1>0, <1>4, <2>1, <2>2 DEF QuietEffect, KeepsStatus, Polling, Sending, Counted
<1>5. ASSUME PollEmpty(e) PROVE QuietEffect(e)
  BY <1>0, <1>4, <1>5 DEF PollEmpty
<1>6. ASSUME AckTimeout(e) PROVE QuietEffect(e)
  BY <1>0, <1>3, <1>6 DEF AckTimeout, Waiting, Sending
<1>7. ASSUME AckLate(e) PROVE QuietEffect(e)
  <2>1. LinkDone(e, ch[e], i, FALSE, call[e].fault)
    BY <1>7 DEF AckLate
  <2>2. Sending(e) /\ left' \in Nat /\ UNCHANGED <<net, calls, stable, due, last, accepted>>
    BY <1>0, <1>7 DEF AckLate, Waiting, Sending, Disturb
  <2> QED
    BY <1>0, <1>3, <2>1, <2>2
<1>8. ASSUME SendRefused(e) PROVE QuietEffect(e)
  <2>1. PICK hard \in BOOLEAN : LinkDone(e, ch[e], i, FALSE, call[e].fault \/ hard)
    BY <1>8 DEF SendRefused
  <2>2. (call[e].fault \/ hard) \in BOOLEAN
    BY <1>0
  <2>3. Sending(e) /\ left' \in Nat /\ UNCHANGED <<net, calls, stable, due, last, accepted>>
    BY <1>0, <1>8 DEF SendRefused, Transmitting, Sending, Disturb
  <2> QED
    BY <1>3, <2>1, <2>2, <2>3
<1>9. ASSUME PollFault(e) PROVE QuietEffect(e)
  <2>1. left' \in Nat /\ UNCHANGED <<net, calls, stable, due, last, accepted>>
    BY <1>0, <1>9 DEF PollFault, Disturb
  <2>2. CASE Waiting(e) /\ LinkDone(e, ch[e], i, FALSE, TRUE)
    BY <1>3, <2>1, <2>2 DEF Waiting, Sending
  <2>3. CASE Polling(e) /\ LinkPolled(e, ch[e], i, TRUE)
    BY <1>4, <2>1, <2>3
  <2> QED
    BY <1>9, <2>2, <2>3 DEF PollFault
<1> QED
  BY <1>1, <1>2, <1>5, <1>6, <1>7, <1>8, <1>9

\* The links of e on which a frame g[j] of that kind goes out in this step.
SendEffect(e, out, kind, no) ==
  LET p == Peer(e)
  IN  /\ ch' \in [End -> Channel] /\ call' \in [End -> Call]
      /\ ch'[p] = ch[p] /\ call'[p] = call[p] /\ KeepsStatus(e)
      /\ ch'[e].pending_data = ch[e].pending_data
      /\ net' \in [End -> [Link -> Seq(Frame)]] /\ net'[e] = net[e]
      /\ \A j \in Link \ out : ch'[e].links[j] = ch[e].links[j] /\ net'[p][j] = net[p][j]
      /\ \A j \in out :
           /\ ch'[e].links[j].next_sequence = NextSequence(ch[e].links[j].next_sequence)
           /\ ch'[e].links[j].expected_sequence = ch[e].links[j].expected_sequence
           /\ \E g \in Frame :
                /\ g.kind = kind /\ g.no = no /\ g.sequence = ch[e].links[j].next_sequence
                /\ Range(net'[p][j]) = Range(net[p][j]) \cup {g}
      /\ left' \in Nat /\ UNCHANGED <<stable, last, accepted>>

\* A send puts its frame on the link it has come to.
LEMMA SendOnLinkFacts ==
  ASSUME TypeInv, NEW e \in End, SendOnLink(e)
  PROVE  /\ \E kind \in {"DATA", "HEARTBEAT"} : SendEffect(e, {call[e].link}, kind, last[e])
         /\ Sending(e) /\ ~call[e].waiting
         /\ call'[e].op = call[e].op /\ call'[e].link = call[e].link /\ call'[e].waiting = TRUE
         /\ call'[e].sequence = ch[e].links[call[e].link].next_sequence
         /\ UNCHANGED <<calls, due>>
<1> DEFINE p == Peer(e)
           i == call[e].link
           kind == IF call[e].op = "send" THEN "DATA" ELSE "HEARTBEAT"
           g == msgchannel_frame(ch[e], e, i, kind, last[e])
           d == msgchannel_send(ch[e], i)
           c == [call[e] EXCEPT !.waiting = TRUE, !.sequence = ch[e].links[i].next_sequence]
<1>0. /\ ch \in [End -> Channel] /\ call \in [End -> Call] /\ ch[e] \in Channel
      /\ call[e] \in Call /\ i \in Link /\ p \in End /\ p # e /\ left \in Nat
      /\ net \in [End -> [Link -> Seq(Frame)]] /\ last[e] \in Nat
  BY PeerFacts DEF TypeInv, Types, Call
<1>1. Sending(e) /\ ~call[e].waiting
  BY DEF SendOnLink, Transmitting, Sending
<1>2. /\ net' = [net EXCEPT ![p] = [net[p] EXCEPT ![i] = Append(net[p][i], g)]]
      /\ ch' = [ch EXCEPT ![e] = d] /\ call' = [call EXCEPT ![e] = c]
      /\ UNCHANGED <<calls, left, stable, due, last, accepted>>
  BY DEF SendOnLink
<1>3. kind \in {"DATA", "HEARTBEAT"}
  OBVIOUS
<1>4. /\ g \in Frame /\ g.kind = kind /\ g.no = last[e]
      /\ g.sequence = ch[e].links[i].next_sequence
  <2>1. ch[e].links[i].next_sequence \in Sequence
    BY <1>0 DEF Channel
  <2> QED
    BY <1>0, <2>1 DEF msgchannel_frame, Frame, FrameKind
<1>5. /\ d \in Channel
      /\ d.link_up = ch[e].link_up /\ d.last_status = ch[e].last_status
      /\ d.pending_data = ch[e].pending_data
      /\ d.links[i].next_sequence = NextSequence(ch[e].links[i].next_sequence)
      /\ d.links[i].expected_sequence = ch[e].links[i].expected_sequence
      /\ \A j \in Link \ {i} : d.links[j] = ch[e].links[j]
  BY <1>0, SendFacts
<1>6. /\ c \in Call /\ c.op = call[e].op /\ c.link = i /\ c.waiting = TRUE
      /\ c.sequence = ch[e].links[i].next_sequence
  BY <1>0 DEF Call, Channel
<1> HIDE DEF i, kind, g, d, c, p
<1> DEFINE into == Append(net[p][i], g)
<1>7. into \in Seq(Frame) /\ Range(into) = Range(net[p][i]) \cup {g}
  BY <1>0, <1>4, AppendFacts
<1>8. net' = [net EXCEPT ![p] = [net[p] EXCEPT ![i] = into]]
  BY <1>2
<1> HIDE DEF into
<1>9. /\ net' \in [End -> [Link -> Seq(Frame)]] /\ net'[e] = net[e] /\ net'[p][i] = into
      /\ \A j \in Link \ {i} : net'[p][j] = net[p][j]
  BY <1>0, <1>7, <1>8
<1>10. /\ ch' \in [End -> Channel] /\ call' \in [End -> Call] /\ ch'[e] = d /\ call'[e] = c
       /\ ch'[p] = ch[p] /\ call'[p] = call[p]
  BY <1>0, <1>2, <1>5, <1>6
<1>11. SendEffect(e, {i}, kind, last[e])
  BY <1>0, <1>2, <1>4, <1>5, <1>7, <1>9, <1>10 DEF SendEffect, KeepsStatus, p
<1> QED
  BY <1>1, <1>2, <1>3, <1>6, <1>10, <1>11 DEF i

\* The state frame goes out on the links that take it.
LEMMA SendStateFacts ==
  ASSUME TypeInv, NEW e \in End, SendState(e)
  PROVE  /\ \E out \in SUBSET Link : SendEffect(e, out, "STATE", 0)
         /\ ~Sending(e) /\ call'[e].op = "idle"
         /\ Counted(e) /\ (stable \/ calls' # calls) /\ calls' \in [End -> Nat]
         /\ due' \in [End -> Ops]
<1> DEFINE p == Peer(e)
<1>0. /\ ch \in [End -> Channel] /\ call \in [End -> Call] /\ ch[e] \in Channel
      /\ p \in End /\ p # e /\ left \in Nat
      /\ net \in [End -> [Link -> Seq(Frame)]]
  BY PeerFacts DEF TypeInv, Types
<1>1. /\ Counted(e) /\ (stable \/ calls' # calls) /\ ~Sending(e)
      /\ calls' \in [End -> Nat] /\ due' \in [End -> Ops]
  <2>1. "send_state" \in Ops
    BY DEF Ops
  <2> QED
    BY <2>1, CountFacts DEF SendState, TypeInv
<1> DEFINE g(j) == msgchannel_frame(ch[e], e, j, "STATE", 0)
<1>2. PICK out \in SUBSET Link :
       /\ Refuse(out # Link)
       /\ ch' = [ch EXCEPT ![e].links =
                   [i \in Link |-> IF i \in out THEN msgchannel_send(ch[e], i).links[i]
                                                ELSE @[i]]]
       /\ net' = [net EXCEPT ![p] =
                   [i \in Link |-> IF i \in out THEN Append(@[i], g(i)) ELSE @[i]]]
       /\ call' = [call EXCEPT ![e] = Returned(IF out # {} THEN "OK" ELSE "TIMEOUT")]
  BY DEF SendState
<1> DEFINE ls == [j \in Link |-> IF j \in out THEN msgchannel_send(ch[e], j).links[j]
                                              ELSE ch[e].links[j]]
           fs == [j \in Link |-> IF j \in out THEN Append(net[p][j], g(j)) ELSE net[p][j]]
           d == [ch[e] EXCEPT !.links = ls]
           c == Returned(IF out # {} THEN "OK" ELSE "TIMEOUT")
<1>3. ch' = [ch EXCEPT ![e] = d] /\ net' = [net EXCEPT ![p] = fs] /\ call' = [call EXCEPT ![e] = c]
  BY <1>2
<1>4. c \in Call /\ c.op = "idle"
  BY ReturnedFacts
<1>5. /\ ls \in [Link -> [next_sequence: Sequence, expected_sequence: Sequence]]
      /\ \A j \in out :
           /\ ls[j].next_sequence = NextSequence(ch[e].links[j].next_sequence)
           /\ ls[j].expected_sequence = ch[e].links[j].expected_sequence
      /\ \A j \in Link \ out : ls[j] = ch[e].links[j]
  <2>1. ASSUME NEW j \in Link
        PROVE  LET x == msgchannel_send(ch[e], j).links[j]
               IN  /\ x \in [next_sequence: Sequence, expected_sequence: Sequence]
                   /\ x.next_sequence = NextSequence(ch[e].links[j].next_sequence)
                   /\ x.expected_sequence = ch[e].links[j].expected_sequence
    <3> DEFINE y == msgchannel_send(ch[e], j)
    <3>1. /\ y \in Channel
          /\ y.links[j].next_sequence = NextSequence(ch[e].links[j].next_sequence)
          /\ y.links[j].expected_sequence = ch[e].links[j].expected_sequence
      BY <1>0, SendFacts
    <3> HIDE DEF y
    <3>2. y.links[j] \in [next_sequence: Sequence, expected_sequence: Sequence]
      BY <3>1 DEF Channel
    <3> QED
      BY <3>1, <3>2 DEF y
  <2>2. \A j \in Link : ch[e].links[j] \in [next_sequence: Sequence, expected_sequence: Sequence]
    BY <1>0 DEF Channel
  <2> QED
    BY <2>1, <2>2
<1>6. /\ fs \in [Link -> Seq(Frame)]
      /\ \A j \in out : \E h \in Frame :
           /\ h.kind = "STATE" /\ h.no = 0 /\ h.sequence = ch[e].links[j].next_sequence
           /\ Range(fs[j]) = Range(net[p][j]) \cup {h}
      /\ \A j \in Link \ out : fs[j] = net[p][j]
  <2>1. ASSUME NEW j \in Link
        PROVE  /\ g(j) \in Frame /\ g(j).kind = "STATE" /\ g(j).no = 0
               /\ g(j).sequence = ch[e].links[j].next_sequence
    <3>1. ch[e].links[j].next_sequence \in Sequence
      BY <1>0 DEF Channel
    <3> QED
      BY <1>0, <3>1 DEF msgchannel_frame, Frame, FrameKind
  <2> HIDE DEF g
  <2>2. ASSUME NEW j \in Link
        PROVE  /\ net[p][j] \in Seq(Frame) /\ Append(net[p][j], g(j)) \in Seq(Frame)
               /\ Range(Append(net[p][j], g(j))) = Range(net[p][j]) \cup {g(j)}
    BY <1>0, <2>1, AppendFacts
  <2>3. fs \in [Link -> Seq(Frame)]
    BY <2>2
  <2>4. ASSUME NEW j \in out
        PROVE  \E h \in Frame :
                 /\ h.kind = "STATE" /\ h.no = 0 /\ h.sequence = ch[e].links[j].next_sequence
                 /\ Range(fs[j]) = Range(net[p][j]) \cup {h}
    <3>1. j \in Link /\ fs[j] = Append(net[p][j], g(j))
      OBVIOUS
    <3> QED
      BY <2>1, <2>2, <3>1
  <2> QED
    BY <2>3, <2>4
<1> HIDE DEF ls, fs, g, c
<1>7. /\ d \in Channel /\ d.links = ls /\ d.link_up = ch[e].link_up
      /\ d.last_status = ch[e].last_status /\ d.pending_data = ch[e].pending_data
  BY <1>0, <1>5 DEF Channel
<1> HIDE DEF d, p
<1>8. /\ ch' \in [End -> Channel] /\ call' \in [End -> Call] /\ ch'[e] = d /\ call'[e] = c
      /\ ch'[p] = ch[p] /\ call'[p] = call[p]
      /\ net' \in [End -> [Link -> Seq(Frame)]] /\ net'[e] = net[e] /\ net'[p] = fs
  BY <1>0, <1>3, <1>4, <1>6, <1>7
<1>9. left' \in Nat /\ UNCHANGED <<stable, last, accepted>>
  BY <1>0, <1>2 DEF SendState, Refuse, Disturb
<1>10. SendEffect(e, out, "STATE", 0)
  BY <1>5, <1>6, <1>7, <1>8, <1>9 DEF SendEffect, KeepsStatus, p
<1> QED
  BY <1>1, <1>4, <1>8, <1>10

\* What the network does to the frames on their way: it adds none that is
\* intact and comes from where it says.
NetworkEffect ==
  /\ UNCHANGED <<ch, call, calls, stable, due, last, accepted>> /\ left' \in Nat
  /\ net' \in [End -> [Link -> Seq(Frame)]]
  /\ \A e \in End, i \in Link : \A f \in Range(net'[e][i]) :
       f \in Range(net[e][i]) \/ ~f.intact \/ f.from = "other"

\* Every disturbance of the network only takes away, repeats or spoils frames.
LEMMA NetworkFacts ==
  ASSUME TypeInv, NEW e \in End, NEW i \in Link,
         Lose(e, i) \/ Repeat(e, i) \/ Delay(e, i) \/ Corrupt(e, i) \/ Misdirect(e, i)
  PROVE  NetworkEffect
<1>0. /\ net \in [End -> [Link -> Seq(Frame)]] /\ net[e][i] \in Seq(Frame) /\ left \in Nat
  BY DEF TypeInv, Types
<1>1. UNCHANGED <<ch, call, calls, stable, due, last, accepted>> /\ left' \in Nat
  BY <1>0 DEF Lose, Repeat, Delay, Corrupt, Misdirect, Disturb
<1>2. ASSUME NEW t \in Seq(Frame), net' = [net EXCEPT ![e][i] = t],
             \A f \in Range(t) : f \in Range(net[e][i]) \/ ~f.intact \/ f.from = "other"
      PROVE  NetworkEffect
  <2>1. net' \in [End -> [Link -> Seq(Frame)]] /\ net'[e][i] = t
        /\ \A x \in End, j \in Link : x # e \/ j # i => net'[x][j] = net[x][j]
    BY <1>0, <1>2
  <2> QED
    BY <1>1, <1>2, <2>1 DEF NetworkEffect
<1>3. CASE Lose(e, i)
  <2>1. PICK k \in DOMAIN net[e][i] : net' = [net EXCEPT ![e][i] = RemoveAt(net[e][i], k)]
    BY <1>3 DEF Lose
  <2>2. RemoveAt(net[e][i], k) \in Seq(Frame)
        /\ Range(RemoveAt(net[e][i], k)) \subseteq Range(net[e][i])
    BY <1>0, RemoveFacts
  <2> QED
    BY <1>2, <2>1, <2>2
<1>4. CASE Repeat(e, i)
  <2> DEFINE h == Head(net[e][i])
             t == Append(net[e][i], h)
  <2>1. net' = [net EXCEPT ![e][i] = t] /\ net[e][i] # <<>>
    BY <1>4 DEF Repeat
  <2>2. h \in Frame /\ h \in Range(net[e][i])
    BY <1>0, <2>1, TailFacts
  <2> HIDE DEF h
  <2>3. t \in Seq(Frame) /\ Range(t) = Range(net[e][i]) \cup {h}
    BY <1>0, <2>2, AppendFacts
  <2> HIDE DEF t
  <2> QED
    BY <1>2, <2>1, <2>2, <2>3
<1>5. CASE Delay(e, i)
  <2> DEFINE h == Head(net[e][i])
             r == Tail(net[e][i])
             t == Append(r, h)
  <2>1. net' = [net EXCEPT ![e][i] = t] /\ Len(net[e][i]) > 1
    BY <1>5 DEF Delay
  <2>2. net[e][i] # <<>>
    BY <2>1
  <2>3. h \in Frame /\ h \in Range(net[e][i]) /\ r \in Seq(Frame) /\ Range(r) \subseteq Range(net[e][i])
    BY <1>0, <2>2, TailFacts
  <2> HIDE DEF h, r
  <2>4. t \in Seq(Frame) /\ Range(t) = Range(r) \cup {h}
    BY <2>3, AppendFacts
  <2> HIDE DEF t
  <2> QED
    BY <1>2, <2>1, <2>3, <2>4
<1>6. ASSUME NEW x \in Frame, ~x.intact \/ x.from = "other", net[e][i] # <<>>,
             net' = [net EXCEPT ![e][i] = [net[e][i] EXCEPT ![1] = x]]
      PROVE  NetworkEffect
  <2> DEFINE t == [net[e][i] EXCEPT ![1] = x]
  <2>1. t \in Seq(Frame) /\ Range(t) \subseteq Range(net[e][i]) \cup {x}
    BY <1>0, <1>6, ReplaceFacts
  <2>2. net' = [net EXCEPT ![e][i] = t]
    BY <1>6
  <2> HIDE DEF t
  <2> QED
    BY <1>2, <1>6, <2>1, <2>2
<1>7. CASE Corrupt(e, i)
  <2>1. /\ net[e][i] # <<>>
        /\ net' = [net EXCEPT ![e][i] = [net[e][i] EXCEPT ![1] = [net[e][i][1] EXCEPT !.intact = FALSE]]]
    BY <1>7 DEF Corrupt
  <2>2. net[e][i][1] \in Frame
    BY <1>0, <2>1
  <2>3. /\ [net[e][i][1] EXCEPT !.intact = FALSE] \in Frame
        /\ [net[e][i][1] EXCEPT !.intact = FALSE].intact = FALSE
    BY <2>2 DEF Frame
  <2> QED
    BY <1>6, <2>1, <2>3
<1>8. CASE Misdirect(e, i)
  <2>1. /\ net[e][i] # <<>>
        /\ net' = [net EXCEPT ![e][i] = [net[e][i] EXCEPT ![1] = [net[e][i][1] EXCEPT !.from = "other"]]]
    BY <1>8 DEF Misdirect
  <2>2. net[e][i][1] \in Frame
    BY <1>0, <2>1
  <2>3. /\ [net[e][i][1] EXCEPT !.from = "other"] \in Frame
        /\ [net[e][i][1] EXCEPT !.from = "other"].from = "other"
    BY <2>2 DEF Frame
  <2> QED
    BY <1>6, <2>1, <2>3
<1> QED
  BY <1>3, <1>4, <1>5, <1>7, <1>8

-----------------------------------------------------------------------------
(* Type correctness *)

\* An endpoint that has just been initialised.
LEMMA InitFacts ==
  /\ dual_channel_init \in Channel /\ dual_channel_init.pending_data = {}
  /\ \A i \in Link : /\ dual_channel_init.links[i].next_sequence = 0
                     /\ dual_channel_init.links[i].expected_sequence = 0
  BY SequenceFacts DEF dual_channel_init, Channel

\* A counted call keeps the counters natural numbers.
LEMMA CountedType ==
  ASSUME NEW e \in End, calls \in [End -> Nat], Counted(e)
  PROVE  calls' \in [End -> Nat]
  BY DEF Counted

\* Every step keeps the types.
LEMMA TypeStep == TypeInv /\ [Next]_vars => TypeInv'
<1> SUFFICES ASSUME TypeInv, [Next]_vars PROVE TypeInv'
  OBVIOUS
<1>0. /\ ch \in [End -> Channel] /\ call \in [End -> Call]
      /\ net \in [End -> [Link -> Seq(Frame)]]
      /\ calls \in [End -> Nat] /\ left \in Nat /\ stable \in BOOLEAN
      /\ due \in [End -> Ops] /\ last \in [End -> Nat]
      /\ accepted \in [End -> [Link -> Seq(Nat)]]
      /\ \A e \in End : AtMostOne(ch[e].pending_data)
  BY DEF TypeInv, Types
<1>1. ASSUME NEW e \in End, QuietEffect(e) PROVE TypeInv'
  <2>0. Peer(e) \in End /\ End = {e, Peer(e)} /\ calls[e] + 1 \in Nat
    BY <1>0, PeerFacts
  <2>1. /\ ch' \in [End -> Channel] /\ call' \in [End -> Call] /\ ch'[Peer(e)] = ch[Peer(e)]
        /\ AtMostOne(ch'[e].pending_data) /\ UNCHANGED <<net, stable, accepted>>
        /\ left' \in Nat /\ due' \in [End -> Ops]
    BY <1>1 DEF QuietEffect
  <2>2. calls' \in [End -> Nat]
    BY <1>0, <1>1, CountedType DEF QuietEffect
  <2>3. last' \in [End -> Nat]
    <3>1. UNCHANGED last \/ last' = [last EXCEPT ![e] = IF stable THEN 0 ELSE calls[e] + 1]
      BY <1>1 DEF QuietEffect
    <3> QED
      BY <1>0, <2>0, <3>1
  <2> QED
    BY <1>0, <2>0, <2>1, <2>2, <2>3 DEF TypeInv, Types
<1>2. ASSUME NEW e \in End, Poll(e) PROVE TypeInv'
  <2>0. Peer(e) \in End /\ End = {e, Peer(e)}
    BY PeerFacts
  <2>1. PICK f \in Frame, ack \in BOOLEAN : PollEffect(e, call[e].link, f, ack)
    BY <1>2, PollFacts
  <2>2. /\ ch' \in [End -> Channel] /\ call' \in [End -> Call] /\ ch'[Peer(e)] = ch[Peer(e)]
        /\ AtMostOne(ch'[e].pending_data) /\ UNCHANGED <<calls, stable, due, last>>
        /\ left' \in Nat /\ net' \in [End -> [Link -> Seq(Frame)]] /\ call[e].link \in Link
    BY <2>1 DEF PollEffect
  <2>3. accepted' \in [End -> [Link -> Seq(Nat)]]
    <3> DEFINE i == call[e].link
               t == Append(accepted[e][i], f.no)
    <3>1. accepted' = accepted \/ accepted' = [accepted EXCEPT ![e][i] = t]
      BY <2>1 DEF PollEffect
    <3>2. i \in Link /\ f.no \in Nat /\ accepted[e][i] \in Seq(Nat)
      BY <1>0, <2>2 DEF Frame
    <3>3. t \in Seq(Nat)
      BY <3>2
    <3> HIDE DEF t, i
    <3> DEFINE r == [accepted[e] EXCEPT ![i] = t]
    <3>4. r \in [Link -> Seq(Nat)]
      BY <1>0, <3>2, <3>3
    <3>5. accepted' = accepted \/ accepted' = [accepted EXCEPT ![e] = r]
      BY <3>1
    <3> HIDE DEF r
    <3> QED
      BY <1>0, <3>4, <3>5
  <2> QED
    BY <1>0, <2>0, <2>2, <2>3 DEF TypeInv, Types
<1>3. ASSUME NEW e \in End, NEW out, NEW kind, NEW no, SendEffect(e, out, kind, no),
             calls' \in [End -> Nat], due' \in [End -> Ops]
      PROVE  TypeInv'
  <2>0. Peer(e) \in End /\ End = {e, Peer(e)}
    BY PeerFacts
  <2>1. /\ ch' \in [End -> Channel] /\ call' \in [End -> Call] /\ ch'[Peer(e)] = ch[Peer(e)]
        /\ ch'[e].pending_data = ch[e].pending_data /\ UNCHANGED <<stable, last, accepted>>
        /\ left' \in Nat /\ net' \in [End -> [Link -> Seq(Frame)]]
    BY <1>3 DEF SendEffect
  <2> QED
    BY <1>0, <1>3, <2>0, <2>1 DEF TypeInv, Types
<1>4. ASSUME NEW e \in End, Restart(e) PROVE TypeInv'
  <2>1. /\ ch' = [ch EXCEPT ![e] = dual_channel_init]
        /\ call' = [call EXCEPT ![e] = Returned("OK")]
        /\ net' = [net EXCEPT ![e] = [i \in Link |-> <<>>]]
        /\ last' = [last EXCEPT ![e] = 0] /\ left' = left - 1 /\ left > 0
        /\ UNCHANGED <<calls, stable, due, accepted>>
    BY <1>4 DEF Restart, Disturb
  <2>2. dual_channel_init \in Channel /\ AtMostOne(dual_channel_init.pending_data)
    BY InitFacts DEF AtMostOne
  <2>3. Returned("OK") \in Call
    BY ReturnedFacts
  <2>4. ch' \in [End -> Channel] /\ \A x \in End : AtMostOne(ch'[x].pending_data)
    BY <1>0, <2>1, <2>2
  <2>5. call' \in [End -> Call]
    BY <1>0, <2>1, <2>3
  <2>6. net' \in [End -> [Link -> Seq(Frame)]] /\ last' \in [End -> Nat] /\ left' \in Nat
    BY <1>0, <2>1
  <2> QED
    BY <1>0, <2>1, <2>4, <2>5, <2>6 DEF TypeInv, Types
<1>5. CASE Next
  <2>1. PICK e \in End : Step(e) \/ Environment(e)
    BY <1>5 DEF Next
  <2>2. CASE SendOnLink(e)
    <3>1. /\ UNCHANGED <<calls, due>>
          /\ \E kind \in {"DATA", "HEARTBEAT"} : SendEffect(e, {call[e].link}, kind, last[e])
      BY <2>2, SendOnLinkFacts
    <3> QED
      BY <1>0, <1>3, <3>1
  <2>3. CASE SendState(e)
    <3>1. /\ calls' \in [End -> Nat] /\ due' \in [End -> Ops]
          /\ \E out \in SUBSET Link : SendEffect(e, out, "STATE", 0)
      BY <2>3, SendStateFacts
    <3> QED
      BY <1>3, <3>1
  <2>4. CASE \E i \in Link : Lose(e, i) \/ Repeat(e, i) \/ Delay(e, i) \/ Corrupt(e, i)
                             \/ Misdirect(e, i)
    <3>1. NetworkEffect
      BY <2>4, NetworkFacts
    <3> QED
      BY <1>0, <3>1 DEF NetworkEffect, TypeInv, Types
  <2>5. CASE \/ StartSend(e, "send") \/ StartSend(e, "heartbeat")
             \/ StartReceive(e, "receive") \/ StartReceive(e, "receive_state")
             \/ PollEmpty(e) \/ AckTimeout(e) \/ SendRefused(e) \/ PollFault(e) \/ AckLate(e)
    BY <1>1, <2>5, QuietFacts
  <2> QED
    BY <1>2, <1>4, <2>1, <2>2, <2>3, <2>4, <2>5 DEF Step, Environment
<1>6. CASE UNCHANGED vars
  BY <1>0, <1>6 DEF vars, TypeInv, Types
<1> QED
  BY <1>5, <1>6

\* The initial state has the types.
LEMMA TypeInit == Init => TypeInv
<1> SUFFICES ASSUME Init PROVE TypeInv
  OBVIOUS
<1>1. dual_channel_init \in Channel /\ AtMostOne(dual_channel_init.pending_data)
  BY InitFacts DEF AtMostOne
<1>2. Returned("OK") \in Call
  BY ReturnedFacts
<1>3. ch \in [End -> Channel] /\ \A e \in End : AtMostOne(ch[e].pending_data)
  BY <1>1 DEF Init
<1>4. call \in [End -> Call]
  BY <1>2 DEF Init
<1>5. /\ net \in [End -> [Link -> Seq(Frame)]]
      /\ accepted \in [End -> [Link -> Seq(Nat)]]
  BY DEF Init
<1>6. /\ calls \in [End -> Nat] /\ left \in Nat /\ stable \in BOOLEAN
      /\ due \in [End -> Ops] /\ last \in [End -> Nat]
  BY DualAssumption DEF Init, Ops
<1> QED
  BY <1>3, <1>4, <1>5, <1>6 DEF TypeInv, Types

\* Whatever the network and the endpoints do, a restart and a resynchronisation
\* included, every variable keeps its type: the sequence counters stay within
\* their width, and poll_link_once() never keeps two unread DATA frames.
THEOREM TypeCorrect == Spec => []TypeOK
<1>1. TypeInv => TypeOK
  <2>1. ASSUME NEW S, AtMostOne(S) PROVE Cardinality(S) <= 1
    BY <2>1, FS_EmptySet, FS_Singleton DEF AtMostOne
  <2> QED
    BY <2>1 DEF TypeInv, Types, TypeOK
<1> QED
  BY <1>1, TypeInit, TypeStep, PTL DEF Spec

-----------------------------------------------------------------------------
(* What is on its way and what was taken in *)

\* The horizon of the two theorems below: the message channels reject what they
\* do not expect, no endpoint restarts, and the calls of both endpoints together
\* do not use up the sequence numbers of a link.
Horizon ==
  /\ ~RESYNC /\ "restart" \notin Disturbances
  /\ MaxCalls["A"] + MaxCalls["B"] < SEQ_MOD

\* The frames on their way to e on link i that e could take in.
Good(e, i) == {f \in Range(net[e][i]) : f.intact /\ f.from = Peer(e)}

\* The send that e is executing has not reached link i yet.
Ahead(e, i) ==
  Sending(e) /\ (call[e].link < i \/ (call[e].link = i /\ ~call[e].waiting))

\* The newest send of e that may have gone out on link i, and the calls of e that
\* may have used a sequence number there.
Top(e, i) == IF Ahead(e, i) THEN last[e] - 1 ELSE last[e]
Slots(e, i) == IF Ahead(e, i) THEN calls[e] - 1 ELSE calls[e]

\* The newest send that e took in over link i.
Newest(e, i) == Promised!Newest(e, i)

\* The frames G that the owner of the counters expected and own can still take
\* in from a sender with the counter next: their numbers follow their sequence
\* numbers, and whatever is yet to come is newer than what was taken in.
Orderly(G, next, expected, newest, top, own) ==
  /\ \A f \in G : f.sequence < next
  /\ \A f, h \in G : Acknowledged(f) /\ Acknowledged(h) /\ f.sequence < h.sequence => f.no < h.no
  /\ \A f \in G : Acknowledged(f) =>
       1 <= f.no /\ f.no <= top /\ (expected <= f.sequence => newest < f.no)
  /\ newest <= top
  /\ \A f \in G : f.kind = "ACK" => f.no < own

\* One direction of a link: what can still be taken in, and how many numbers were
\* used up, which is what keeps the counter from wrapping within the horizon.
LinkInv(e, i) ==
  /\ Orderly(Good(e, i), ch[Peer(e)].links[i].next_sequence, ch[e].links[i].expected_sequence,
             Newest(e, i), Top(Peer(e), i), ch[e].links[i].next_sequence)
  /\ Len(accepted[e][i]) <= Newest(e, i)
  /\ ch[e].links[i].next_sequence <= Slots(e, i) + Len(accepted[e][i])

\* The calls of e are counted, and a send has the number of its call.
CallInv(e) ==
  /\ last[e] <= calls[e] /\ calls[e] <= MaxCalls[e]
  /\ Sending(e) => last[e] = calls[e] /\ calls[e] >= 1

\* While e waits, only its own frame carries the sequence number it waits for, and
\* an acknowledgement of that number means that the frame was taken in.
WaitInv(e) ==
  Waiting(e) =>
    LET i == call[e].link
        s == call[e].sequence
    IN  /\ s < ch[e].links[i].next_sequence
        /\ \A f \in Good(Peer(e), i) : f.sequence = s => Acknowledged(f) /\ f.no = last[e]
        /\ \A f \in Good(e, i) : Matches(e, f) => Delivered(e, i)

\* A link that e has reported up has delivered the send.
UpInv(e) ==
  \A j \in Link :
    ch[e].link_up[j] /\ last[e] # 0 /\ (Sending(e) => j < call[e].link) => Delivered(e, j)

\* The status is computed when the send returns.
StatusInv(e) ==
  ~Sending(e) /\ last[e] # 0 => ch[e].last_status = compute_status(ch[e].link_up)

\* What the status of e says of the delivery of its last send.
DeliveryInv(e) == WaitInv(e) /\ UpInv(e) /\ StatusInv(e)

\* The inductive invariant of the two theorems about the links.
LinksInv ==
  /\ TypeInv /\ ~stable
  /\ \A e \in End : CallInv(e) /\ DeliveryInv(e) /\ \A i \in Link : LinkInv(e, i)

\* Frames may vanish, and the counters of the sender may move on.
LEMMA OrderlyKeeps ==
  ASSUME NEW G \in SUBSET Frame, NEW H \in SUBSET G,
         NEW n \in Int, NEW n2 \in Int, NEW x \in Int, NEW w \in Int,
         NEW t \in Int, NEW t2 \in Int, NEW o \in Int, NEW o2 \in Int,
         Orderly(G, n, x, w, t, o), n <= n2, t <= t2, o <= o2
  PROVE  Orderly(H, n2, x, w, t2, o2)
<1>1. \A f \in G : f.sequence \in Int /\ f.no \in Int
  BY SequenceFacts DEF Frame
<1> QED
  BY <1>1 DEF Orderly

\* The sender puts one more frame on the link: a send that is newer than all of
\* its frames there, an acknowledgement or a state frame.
LEMMA OrderlyAdds ==
  ASSUME NEW G \in SUBSET Frame, NEW g \in Frame, NEW H \in SUBSET (G \cup {g}),
         NEW n \in Int, NEW x \in Int, NEW w \in Int,
         NEW t \in Int, NEW t2 \in Int, NEW o \in Int,
         Orderly(G, n, x, w, t, o), t <= t2, g.sequence = n,
         Acknowledged(g) => 1 <= g.no /\ t < g.no /\ g.no <= t2,
         g.kind = "ACK" => g.no < o
  PROVE  Orderly(H, n + 1, x, w, t2, o)
<1>1. /\ \A f \in G : f.sequence \in Int /\ f.no \in Int
      /\ g.sequence \in Int /\ g.no \in Int
  BY SequenceFacts DEF Frame
<1>2. \A f \in H : f \in G \/ f = g
  OBVIOUS
<1>3. \A f \in H : f.sequence < n + 1
  BY <1>1, <1>2 DEF Orderly
<1>4. ASSUME NEW f \in H, NEW h \in H, Acknowledged(f), Acknowledged(h), f.sequence < h.sequence
      PROVE  f.no < h.no
  <2>1. f \in G
    BY <1>1, <1>2, <1>4 DEF Orderly
  <2>2. CASE h \in G
    BY <1>1, <1>4, <2>1, <2>2 DEF Orderly
  <2>3. CASE h = g
    <3>1. f.no <= t
      BY <1>4, <2>1 DEF Orderly
    <3> QED
      BY <1>1, <1>4, <2>1, <2>3, <3>1
  <2> QED
    BY <1>2, <2>2, <2>3
<1>5. ASSUME NEW f \in H, Acknowledged(f)
      PROVE  1 <= f.no /\ f.no <= t2 /\ (x <= f.sequence => w < f.no)
  <2>1. CASE f \in G
    BY <1>1, <1>5, <2>1 DEF Orderly
  <2>2. CASE f = g
    BY <1>1, <1>5, <2>2 DEF Orderly
  <2> QED
    BY <1>2, <2>1, <2>2
<1>6. \A f \in H : f.kind = "ACK" => f.no < o
  BY <1>2 DEF Orderly
<1>7. w <= t2
  BY DEF Orderly
<1> QED
  BY <1>3, <1>4, <1>5, <1>6, <1>7 DEF Orderly

\* The receiver takes in the frame it expects.
LEMMA OrderlyTakes ==
  ASSUME NEW G \in SUBSET Frame, NEW H \in SUBSET G, NEW f \in G,
         NEW n \in Int, NEW x \in Int, NEW w \in Int,
         NEW t \in Int, NEW o \in Int, NEW o2 \in Int,
         Orderly(G, n, x, w, t, o), f.sequence = x, o <= o2
  PROVE  Orderly(H, n, x + 1, IF Acknowledged(f) THEN f.no ELSE w, t, o2)
<1> DEFINE w2 == IF Acknowledged(f) THEN f.no ELSE w
<1>1. \A h \in G : h.sequence \in Int /\ h.no \in Int
  BY SequenceFacts DEF Frame
<1>2. /\ \A h \in H : h.sequence < n
      /\ \A g, h \in H : Acknowledged(g) /\ Acknowledged(h) /\ g.sequence < h.sequence => g.no < h.no
  BY DEF Orderly
<1>3. ASSUME NEW h \in H, Acknowledged(h)
      PROVE  1 <= h.no /\ h.no <= t /\ (x + 1 <= h.sequence => w2 < h.no)
  <2>1. 1 <= h.no /\ h.no <= t /\ (x <= h.sequence => w < h.no)
    BY <1>3 DEF Orderly
  <2>2. x + 1 <= h.sequence => x <= h.sequence /\ f.sequence < h.sequence
    BY <1>1
  <2>3. Acknowledged(f) /\ f.sequence < h.sequence => f.no < h.no
    BY <1>3 DEF Orderly
  <2> QED
    BY <2>1, <2>2, <2>3
<1>4. w2 <= t
  BY DEF Orderly
<1>5. \A h \in H : h.kind = "ACK" => h.no < o2
  BY <1>1 DEF Orderly
<1> HIDE DEF w2
<1>6. Orderly(H, n, x + 1, w2, t, o2)
  BY <1>2, <1>3, <1>4, <1>5 DEF Orderly
<1> QED
  BY <1>6 DEF w2

\* What is on a link and its counters, with their types and bounds.
LEMMA LinkTypes ==
  ASSUME LinksInv, NEW e \in End, NEW i \in Link
  PROVE  /\ Good(e, i) \in SUBSET Frame
         /\ ch[e].links[i].next_sequence \in Sequence
         /\ ch[e].links[i].next_sequence \in Nat /\ ch[e].links[i].expected_sequence \in Nat
         /\ Newest(e, i) \in Nat /\ Len(accepted[e][i]) \in Nat
         /\ last[e] \in Nat /\ calls[e] \in Nat
         /\ Top(e, i) \in Int /\ Slots(e, i) \in Int
         /\ Top(e, i) <= Slots(e, i) /\ Slots(e, i) <= MaxCalls[e] /\ MaxCalls[e] \in Nat
<1>0. TypeInv /\ CallInv(e) /\ LinkInv(e, i)
  BY DEF LinksInv
<1>1. /\ net[e][i] \in Seq(Frame) /\ ch[e] \in Channel /\ accepted[e][i] \in Seq(Nat)
      /\ last[e] \in Nat /\ calls[e] \in Nat
  BY <1>0 DEF TypeInv, Types
<1>2. Good(e, i) \in SUBSET Frame
  <2>1. Range(net[e][i]) \subseteq Frame
    BY <1>1 DEF Range
  <2> QED
    BY <2>1 DEF Good
<1>3. /\ ch[e].links[i].next_sequence \in Sequence
      /\ ch[e].links[i].next_sequence \in Nat /\ ch[e].links[i].expected_sequence \in Nat
  BY <1>1, SequenceFacts DEF Channel
<1>4. Newest(e, i) \in Nat /\ Len(accepted[e][i]) \in Nat
  <2>1. CASE accepted[e][i] = <<>>
    BY <1>1, <2>1 DEF Newest, Promised!Newest
  <2>2. CASE accepted[e][i] # <<>>
    <3>1. Len(accepted[e][i]) \in Nat /\ accepted[e][i][Len(accepted[e][i])] \in Nat
      BY <1>1, <2>2
    <3> QED
      BY <2>2, <3>1 DEF Newest, Promised!Newest
  <2> QED
    BY <2>1, <2>2
<1>5. MaxCalls[e] \in Nat
  BY DualAssumption DEF End
<1>6. Ahead(e, i) => Sending(e)
  BY DEF Ahead
<1> QED
  BY <1>0, <1>1, <1>2, <1>3, <1>4, <1>5, <1>6 DEF CallInv, Top, Slots

\* Within the horizon the sequence counters are ahead of their wrap-around.
LEMMA BelowHorizon ==
  ASSUME Horizon, NEW e \in End
  PROVE  MaxCalls[e] + MaxCalls[Peer(e)] < SEQ_MOD /\ SEQ_MOD \in Nat /\ ~RESYNC
<1>1. MaxCalls["A"] \in Nat /\ MaxCalls["B"] \in Nat /\ SEQ_MOD \in Nat
  BY DualAssumption
<1> QED
  BY <1>1 DEF Horizon, End, Peer

\* Neither what may have gone out on a link nor the calls that may have used it
\* fall.
Grows(x, j) == Top(x, j) <= Top(x, j)' /\ Slots(x, j) <= Slots(x, j)'

\* A link on which nothing is sent or taken in keeps its invariant.
LEMMA LinkKeeps ==
  ASSUME LinksInv, Types', NEW e \in End, NEW i \in Link,
         Good(e, i)' \subseteq Good(e, i),
         ch'[Peer(e)].links[i].next_sequence = ch[Peer(e)].links[i].next_sequence,
         ch'[e].links[i] = ch[e].links[i],
         accepted'[e][i] = accepted[e][i],
         Top(Peer(e), i) <= Top(Peer(e), i)', Top(Peer(e), i)' \in Int,
         Slots(e, i) <= Slots(e, i)', Slots(e, i)' \in Int
  PROVE  LinkInv(e, i)'
<1> DEFINE p == Peer(e)
           n == ch[p].links[i].next_sequence
           x == ch[e].links[i].expected_sequence
           o == ch[e].links[i].next_sequence
           w == Newest(e, i)
<1>0. p \in End /\ p # e
  BY PeerFacts
<1>1. /\ Good(e, i) \in SUBSET Frame /\ n \in Nat /\ x \in Nat /\ o \in Nat /\ w \in Nat
      /\ Top(p, i) \in Int /\ Slots(e, i) \in Int /\ Len(accepted[e][i]) \in Nat
  BY <1>0, LinkTypes
<1>2. /\ Orderly(Good(e, i), n, x, w, Top(p, i), o)
      /\ Len(accepted[e][i]) <= w /\ o <= Slots(e, i) + Len(accepted[e][i])
  BY DEF LinksInv, LinkInv
<1>3. Newest(e, i)' = w
  BY DEF Newest, Promised!Newest
<1>4. /\ ch'[p].links[i].next_sequence = n /\ ch'[e].links[i].expected_sequence = x
      /\ ch'[e].links[i].next_sequence = o
  OBVIOUS
<1> HIDE DEF p, n, x, o, w
<1>5. Orderly(Good(e, i)', n, x, w, Top(p, i)', o)
  BY <1>1, <1>2, OrderlyKeeps DEF p
<1>6. o <= Slots(e, i)' + Len(accepted[e][i])
  BY <1>1, <1>2
<1> QED
  BY <1>2, <1>3, <1>4, <1>5, <1>6 DEF LinkInv, p

\* An end that does nothing, while its counterpart takes a step.
LEMMA OtherKeeps ==
  ASSUME NEW x \in End, call'[x] = call[x], last'[x] = last[x], calls'[x] = calls[x]
  PROVE  /\ Sending(x)' = Sending(x) /\ Waiting(x)' = Waiting(x)
         /\ CallInv(x) => CallInv(x)'
         /\ \A j \in Link : Top(x, j)' = Top(x, j) /\ Slots(x, j)' = Slots(x, j)
<1>1. /\ Sending(x)' = Sending(x) /\ Waiting(x)' = Waiting(x)
      /\ \A j : Ahead(x, j)' = Ahead(x, j)
  BY DEF Sending, Waiting, Ahead
<1> QED
  BY <1>1 DEF CallInv, Top, Slots

\* What an end sends moves its own counter on, within its calls and answers.
LEMMA LinkOwns ==
  ASSUME LinksInv, Types', NEW e \in End, NEW i \in Link,
         Good(e, i)' \subseteq Good(e, i),
         ch'[Peer(e)].links[i] = ch[Peer(e)].links[i],
         ch'[e].links[i].expected_sequence = ch[e].links[i].expected_sequence,
         ch'[e].links[i].next_sequence = ch[e].links[i].next_sequence + 1,
         accepted'[e][i] = accepted[e][i],
         Top(Peer(e), i)' = Top(Peer(e), i),
         Slots(e, i) + 1 <= Slots(e, i)', Slots(e, i)' \in Int
  PROVE  LinkInv(e, i)'
<1> DEFINE p == Peer(e)
           n == ch[p].links[i].next_sequence
           x == ch[e].links[i].expected_sequence
           o == ch[e].links[i].next_sequence
           w == Newest(e, i)
<1>0. p \in End /\ p # e
  BY PeerFacts
<1>1. /\ Good(e, i) \in SUBSET Frame /\ n \in Nat /\ x \in Nat /\ o \in Nat /\ w \in Nat
      /\ Top(p, i) \in Int /\ Slots(e, i) \in Int /\ Len(accepted[e][i]) \in Nat
  BY <1>0, LinkTypes
<1>2. /\ Orderly(Good(e, i), n, x, w, Top(p, i), o)
      /\ Len(accepted[e][i]) <= w /\ o <= Slots(e, i) + Len(accepted[e][i])
  BY DEF LinksInv, LinkInv
<1>3. Newest(e, i)' = w
  BY DEF Newest, Promised!Newest
<1>4. /\ ch'[p].links[i].next_sequence = n /\ ch'[e].links[i].expected_sequence = x
      /\ ch'[e].links[i].next_sequence = o + 1
  OBVIOUS
<1> HIDE DEF n, x, o, w
<1>5. Orderly(Good(e, i)', n, x, w, Top(p, i), o + 1)
  BY <1>1, <1>2, OrderlyKeeps
<1>6. o + 1 <= Slots(e, i)' + Len(accepted[e][i])
  BY <1>1, <1>2
<1> QED
  BY <1>2, <1>3, <1>4, <1>5, <1>6 DEF LinkInv

\* The counterpart puts a frame g on the link.
LEMMA LinkAdds ==
  ASSUME LinksInv, Types', NEW e \in End, NEW i \in Link, NEW g \in Frame,
         Good(e, i)' \subseteq Good(e, i) \cup {g},
         g.sequence = ch[Peer(e)].links[i].next_sequence,
         ch'[Peer(e)].links[i].next_sequence = g.sequence + 1,
         ch'[e].links[i] = ch[e].links[i],
         accepted'[e][i] = accepted[e][i],
         Top(Peer(e), i) <= Top(Peer(e), i)', Top(Peer(e), i)' \in Int,
         Slots(e, i)' = Slots(e, i),
         Acknowledged(g) => /\ 1 <= g.no /\ Top(Peer(e), i) < g.no
                            /\ g.no <= Top(Peer(e), i)',
         g.kind = "ACK" => g.no < ch[e].links[i].next_sequence
  PROVE  LinkInv(e, i)'
<1> DEFINE p == Peer(e)
           n == ch[p].links[i].next_sequence
           x == ch[e].links[i].expected_sequence
           o == ch[e].links[i].next_sequence
           w == Newest(e, i)
<1>0. p \in End /\ p # e
  BY PeerFacts
<1>1. /\ Good(e, i) \in SUBSET Frame /\ n \in Nat /\ x \in Nat /\ o \in Nat /\ w \in Nat
      /\ Top(p, i) \in Int /\ Slots(e, i) \in Int /\ Len(accepted[e][i]) \in Nat
  BY <1>0, LinkTypes
<1>2. /\ Orderly(Good(e, i), n, x, w, Top(p, i), o)
      /\ Len(accepted[e][i]) <= w /\ o <= Slots(e, i) + Len(accepted[e][i])
  BY DEF LinksInv, LinkInv
<1>3. Newest(e, i)' = w
  BY DEF Newest, Promised!Newest
<1>4. /\ ch'[p].links[i].next_sequence = n + 1 /\ ch'[e].links[i].expected_sequence = x
      /\ ch'[e].links[i].next_sequence = o
  OBVIOUS
<1>5. /\ g.sequence = n /\ (g.kind = "ACK" => g.no < o)
      /\ Acknowledged(g) => 1 <= g.no /\ Top(p, i) < g.no /\ g.no <= Top(p, i)'
      /\ Top(p, i) <= Top(p, i)' /\ Top(p, i)' \in Int
  OBVIOUS
<1> HIDE DEF n, x, o, w, p
<1>6. Orderly(Good(e, i)', n + 1, x, w, Top(p, i)', o)
  <2> DEFINE H == Good(e, i)'
             t2 == Top(p, i)'
  <2>1. H \in SUBSET (Good(e, i) \cup {g}) /\ t2 \in Int /\ Top(p, i) <= t2
    BY <1>5
  <2>2. Acknowledged(g) => 1 <= g.no /\ Top(p, i) < g.no /\ g.no <= t2
    BY <1>5
  <2> HIDE DEF H, t2
  <2> DEFINE G == Good(e, i)
             t == Top(p, i)
  <2>3. /\ G \in SUBSET Frame /\ H \in SUBSET (G \cup {g})
        /\ n \in Int /\ x \in Int /\ w \in Int /\ t \in Int /\ t2 \in Int /\ o \in Int
        /\ Orderly(G, n, x, w, t, o) /\ t <= t2 /\ g.sequence = n
        /\ Acknowledged(g) => 1 <= g.no /\ t < g.no /\ g.no <= t2
        /\ g.kind = "ACK" => g.no < o
    BY <1>1, <1>2, <1>5, <2>1, <2>2
  <2> HIDE DEF G, t
  <2>4. Orderly(H, n + 1, x, w, t2, o)
    BY ONLY <2>3, g \in Frame, OrderlyAdds, Zenon
  <2> QED
    BY <2>4 DEF H, t2
<1> QED
  BY <1>2, <1>3, <1>4, <1>6 DEF LinkInv, p

\* An end takes in the frame it expects and answers it or not.
LEMMA LinkTakes ==
  ASSUME LinksInv, Types', NEW e \in End, NEW i \in Link, NEW f \in Good(e, i), NEW a \in {0, 1},
         f.sequence = ch[e].links[i].expected_sequence,
         Good(e, i)' \subseteq Good(e, i),
         ch'[Peer(e)].links[i] = ch[Peer(e)].links[i],
         ch'[e].links[i].expected_sequence = f.sequence + 1,
         ch'[e].links[i].next_sequence = ch[e].links[i].next_sequence + a,
         a = 1 => Acknowledged(f),
         accepted'[e][i] = IF Acknowledged(f) /\ f.no # 0 THEN Append(accepted[e][i], f.no)
                           ELSE accepted[e][i],
         Top(Peer(e), i)' = Top(Peer(e), i),
         Slots(e, i) <= Slots(e, i)', Slots(e, i)' \in Int
  PROVE  /\ LinkInv(e, i)'
         /\ Acknowledged(f) => /\ f.no # 0 /\ Newest(e, i) < f.no /\ f.no <= Top(Peer(e), i)
                               /\ Len(accepted[e][i]) + 1 <= f.no
<1> DEFINE p == Peer(e)
           n == ch[p].links[i].next_sequence
           x == ch[e].links[i].expected_sequence
           o == ch[e].links[i].next_sequence
           w == Newest(e, i)
           w2 == IF Acknowledged(f) THEN f.no ELSE w
           l == Len(accepted[e][i])
<1>0. p \in End /\ p # e
  BY PeerFacts
<1>1. /\ Good(e, i) \in SUBSET Frame /\ n \in Nat /\ x \in Nat /\ o \in Nat /\ w \in Nat
      /\ Top(p, i) \in Int /\ Slots(e, i) \in Int /\ l \in Nat
  BY <1>0, LinkTypes
<1>2. /\ Orderly(Good(e, i), n, x, w, Top(p, i), o)
      /\ l <= w /\ o <= Slots(e, i) + l
  BY DEF LinksInv, LinkInv
<1>3. /\ ch'[p].links[i].next_sequence = n /\ ch'[e].links[i].expected_sequence = x + 1
      /\ ch'[e].links[i].next_sequence = o + a /\ f.sequence = x
  OBVIOUS
<1>4. f \in Frame /\ f.no \in Nat /\ accepted[e][i] \in Seq(Nat)
  BY <1>1 DEF Frame, LinksInv, TypeInv, Types
<1> HIDE DEF n, x, o, w, p
<1>5. Acknowledged(f) => 1 <= f.no /\ f.no <= Top(p, i) /\ w < f.no
  BY <1>1, <1>2, <1>3 DEF Orderly
<1>6. Orderly(Good(e, i)', n, x + 1, w2, Top(p, i), o + a)
  <2> DEFINE G == Good(e, i)
             H == Good(e, i)'
             t == Top(p, i)
             o2 == o + a
  <2>1. /\ G \in SUBSET Frame /\ H \in SUBSET G /\ f \in G
        /\ n \in Int /\ x \in Int /\ w \in Int /\ t \in Int /\ o \in Int /\ o2 \in Int
        /\ Orderly(G, n, x, w, t, o) /\ f.sequence = x /\ o <= o2
    BY <1>1, <1>2, <1>3
  <2> HIDE DEF G, H, t, o2
  <2>2. Orderly(H, n, x + 1, IF Acknowledged(f) THEN f.no ELSE w, t, o2)
    BY ONLY <2>1, OrderlyTakes, Zenon
  <2> QED
    BY <2>2 DEF H, t, o2
<1>7. CASE Acknowledged(f)
  <2> DEFINE t == Append(accepted[e][i], f.no)
  <2>1. accepted'[e][i] = t
    BY <1>4, <1>5, <1>7
  <2>2. t # <<>> /\ Len(t) = l + 1 /\ t[Len(t)] = f.no
    BY <1>4, AppendFacts
  <2> HIDE DEF t, l
  <2>3. Newest(e, i)' = f.no
    BY <2>1, <2>2 DEF Newest, Promised!Newest
  <2>4. l + 1 <= f.no /\ o + a <= Slots(e, i)' + (l + 1)
    BY <1>1, <1>2, <1>4, <1>5, <1>7
  <2>5. w2 = f.no
    BY <1>7
  <2> HIDE DEF w2
  <2>6. LinkInv(e, i)'
    BY <1>3, <1>6, <2>1, <2>2, <2>3, <2>4, <2>5 DEF LinkInv, p
  <2> QED
    BY <1>4, <1>5, <1>7, <2>4, <2>6 DEF l, w, p
<1>8. CASE ~Acknowledged(f)
  <2>1. accepted'[e][i] = accepted[e][i] /\ a = 0 /\ w2 = w
    BY <1>8
  <2>2. Newest(e, i)' = w
    BY <2>1 DEF Newest, Promised!Newest, w
  <2>3. o + a <= Slots(e, i)' + l
    BY <1>1, <1>2, <2>1
  <2> HIDE DEF w2
  <2> QED
    BY <1>2, <1>3, <1>6, <1>8, <2>1, <2>2, <2>3 DEF LinkInv, p
<1> QED
  BY <1>7, <1>8

-----------------------------------------------------------------------------
(* The calls and what they report *)

\* A send that has finished with a link.
LEMMA MovesOnFacts ==
  ASSUME LinksInv, NEW e \in End, NEW up \in BOOLEAN, Sending(e), MovesOn(e, call[e].link, up),
         last'[e] = last[e], calls'[e] = calls[e]
  PROVE  /\ CallInv(e)' /\ ~Waiting(e)' /\ (Sending(e)' <=> call[e].link < LinkCount)
         /\ \A j \in Link : /\ Grows(e, j) /\ Top(e, j)' \in Int /\ Slots(e, j)' \in Int
                            /\ Ahead(e, j)' => Ahead(e, j)
<1> DEFINE i == call[e].link
<1>0. /\ CallInv(e) /\ i \in Link /\ last[e] \in Nat /\ calls[e] \in Nat
      /\ call[e].waiting \in BOOLEAN
  BY DEF LinksInv, TypeInv, Types, Call
<1>1. /\ call'[e].waiting = FALSE
      /\ i < LinkCount => call'[e].op = call[e].op /\ call'[e].link = i + 1
      /\ ~(i < LinkCount) => call'[e].op = "idle"
  BY DEF MovesOn
<1>2. ~Waiting(e)' /\ (~Sending(e)' => ~(i < LinkCount)) /\ (~(i < LinkCount) => ~Sending(e)')
  BY <1>1 DEF Waiting, Sending
<1>3. CallInv(e)'
  BY <1>0 DEF CallInv
<1>4. ASSUME NEW j \in Link, Ahead(e, j)' PROVE Ahead(e, j)
  <2>1. i < LinkCount /\ call'[e].link = i + 1
    BY <1>1, <1>2, <1>4 DEF Ahead
  <2>2. i + 1 <= j /\ i \in Nat /\ j \in Nat
    BY <1>0, <1>4, <2>1, LinkFacts DEF Ahead
  <2> QED
    BY <2>2 DEF Ahead
<1> HIDE DEF i
<1>5. ASSUME NEW j \in Link
      PROVE  Grows(e, j) /\ Top(e, j)' \in Int /\ Slots(e, j)' \in Int
  BY <1>0, <1>4 DEF Grows, Top, Slots
<1> QED
  BY <1>2, <1>3, <1>4, <1>5 DEF i

\* What it then reports.
LEMMA MovesOnTells ==
  ASSUME LinksInv, NEW e \in End, NEW i \in Link, i = call[e].link, NEW up \in BOOLEAN,
         Sending(e), MovesOn(e, i, up),
         last'[e] = last[e], calls'[e] = calls[e],
         \A j \in Link : Delivered(e, j) => Delivered(e, j)',
         up => Delivered(e, i)'
  PROVE  DeliveryInv(e)'
<1>0. /\ UpInv(e) /\ ch[e].link_up \in [Link -> BOOLEAN]
  BY DEF LinksInv, DeliveryInv, TypeInv, Types, Call, Channel
<1>1. ~Waiting(e)' /\ (Sending(e)' <=> i < LinkCount)
  BY MovesOnFacts
<1>2. /\ ch'[e].link_up = [ch[e].link_up EXCEPT ![i] = up]
      /\ i < LinkCount => call'[e].link = i + 1
      /\ ~(i < LinkCount) => ch'[e].last_status = compute_status(ch'[e].link_up)
  BY DEF MovesOn
<1>3. WaitInv(e)'
  BY <1>1 DEF WaitInv
<1>4. ASSUME NEW j \in Link, ch'[e].link_up[j], last'[e] # 0, Sending(e)' => j < call'[e].link
      PROVE  Delivered(e, j)'
  <2>0. ch'[e].link_up[j] = IF j = i THEN up ELSE ch[e].link_up[j]
    <3>1. ASSUME NEW u \in [Link -> BOOLEAN]
          PROVE  [u EXCEPT ![i] = up][j] = IF j = i THEN up ELSE u[j]
      BY <1>0
    <3> QED
      BY <1>0, <1>2, <3>1, Zenon
  <2>1. CASE j = i
    <3>1. ch'[e].link_up[j] = up
      BY <2>0, <2>1, Zenon
    <3>2. up
      BY <1>4, <3>1, Zenon
    <3> QED
      BY <2>1, <3>2
  <2>2. CASE j # i
    <3>0. ch'[e].link_up[j] = ch[e].link_up[j]
      BY <2>0, <2>2, Zenon
    <3>1. ch[e].link_up[j] /\ last[e] # 0
      BY <1>4, <3>0, Zenon
    <3>2. j < i
      BY <1>0, <1>1, <1>2, <1>4, <2>2, LinkFacts
    <3> QED
      BY <1>0, <3>1, <3>2 DEF UpInv
  <2> QED
    BY <2>1, <2>2
<1>5. UpInv(e)'
  BY <1>4 DEF UpInv
<1>6. StatusInv(e)'
  BY <1>1, <1>2 DEF StatusInv
<1> QED
  BY <1>3, <1>5, <1>6 DEF DeliveryInv

\* An end outside a send goes on reporting what it reported.
LEMMA IdleTells ==
  ASSUME LinksInv, NEW e \in End, ~Sending(e), ~Sending(e)', KeepsStatus(e), last'[e] = last[e],
         \A j \in Link : Delivered(e, j) => Delivered(e, j)'
  PROVE  DeliveryInv(e)'
<1>1. UpInv(e) /\ StatusInv(e)
  BY DEF LinksInv, DeliveryInv
<1>2. WaitInv(e)'
  BY DEF WaitInv, Waiting, Sending
<1>3. UpInv(e)' /\ StatusInv(e)'
  BY <1>1 DEF UpInv, StatusInv, KeepsStatus
<1> QED
  BY <1>2, <1>3 DEF DeliveryInv

\* So does one whose call stays where it is.
LEMMA WaitTells ==
  ASSUME LinksInv, NEW e \in End, NEW i \in Link, i = call[e].link, call'[e] = call[e],
         KeepsStatus(e), last'[e] = last[e],
         \A j \in Link : Delivered(e, j) => Delivered(e, j)',
         Waiting(e) =>
           /\ call[e].sequence < ch'[e].links[i].next_sequence
           /\ \A f \in Good(Peer(e), i)' : f.sequence = call[e].sequence => f \in Good(Peer(e), i)
           /\ \A f \in Good(e, i)' : Matches(e, f) => f \in Good(e, i) \/ Delivered(e, i)'
  PROVE  DeliveryInv(e)'
<1>1. UpInv(e) /\ StatusInv(e) /\ WaitInv(e)
  BY DEF LinksInv, DeliveryInv
<1>2. Sending(e)' = Sending(e) /\ Waiting(e)' = Waiting(e)
      /\ \A f : Matches(e, f)' = Matches(e, f)
  BY DEF Sending, Waiting, Matches
<1>3. WaitInv(e)'
  <2> DEFINE s == call[e].sequence
  <2> SUFFICES ASSUME Waiting(e)
               PROVE  /\ s < ch'[e].links[i].next_sequence
                      /\ \A f \in Good(Peer(e), i)' : f.sequence = s => Acknowledged(f) /\ f.no = last'[e]
                      /\ \A f \in Good(e, i)' : Matches(e, f) => Delivered(e, i)'
    BY <1>2 DEF WaitInv
  <2>1. /\ \A f \in Good(Peer(e), i) : f.sequence = s => Acknowledged(f) /\ f.no = last[e]
        /\ \A f \in Good(e, i) : Matches(e, f) => Delivered(e, i)
    BY <1>1 DEF WaitInv
  <2>2. Delivered(e, i) => Delivered(e, i)'
    OBVIOUS
  <2> QED
    BY <2>1, <2>2
<1>4. UpInv(e)' /\ StatusInv(e)'
  BY <1>1, <1>2 DEF UpInv, StatusInv, KeepsStatus
<1> QED
  BY <1>3, <1>4 DEF DeliveryInv

-----------------------------------------------------------------------------
(* Steps *)

\* What has to be shown of a step.
StepInv == \A e \in End : CallInv(e)' /\ DeliveryInv(e)' /\ \A i \in Link : LinkInv(e, i)'

\* A counted call is within its bound.
LEMMA CountedFacts ==
  ASSUME LinksInv, NEW e \in End, Counted(e)
  PROVE  /\ calls'[Peer(e)] = calls[Peer(e)]
         /\ calls'[e] \in Nat /\ calls[e] <= calls'[e] /\ calls'[e] <= MaxCalls[e]
         /\ calls' # calls => calls'[e] = calls[e] + 1
<1>1. /\ calls \in [End -> Nat] /\ calls[e] <= MaxCalls[e] /\ MaxCalls[e] \in Nat
      /\ Peer(e) \in End /\ Peer(e) # e
  BY DualAssumption, PeerFacts DEF LinksInv, TypeInv, Types, CallInv, End
<1> QED
  BY <1>1 DEF Counted

\* A call begins, comes to the next link without an acknowledgement, or returns.
LEMMA QuietStep ==
  ASSUME LinksInv, TypeInv', NEW e \in End, QuietEffect(e)
  PROVE  StepInv
<1> DEFINE p == Peer(e)
<1>0. /\ p \in End /\ p # e /\ Peer(p) = e /\ End = {e, p}
  BY PeerFacts
<1>1. /\ ch'[p] = ch[p] /\ call'[p] = call[p] /\ ch'[e].links = ch[e].links
      /\ UNCHANGED <<net, stable, accepted>> /\ Types' /\ ~stable
  BY DEF QuietEffect, TypeInv, LinksInv
<1>2. last'[p] = last[p] /\ calls'[p] = calls[p]
  <2>1. last \in [End -> Nat]
    BY DEF LinksInv, TypeInv, Types
  <2>2. UNCHANGED calls \/ Counted(e)
    BY DEF QuietEffect
  <2>3. UNCHANGED last \/ last' = [last EXCEPT ![e] = IF stable THEN 0 ELSE calls[e] + 1]
    BY DEF QuietEffect
  <2> QED
    BY <1>0, <2>1, <2>2, <2>3, CountedFacts
<1>3. /\ \A x \in End, j \in Link : Good(x, j)' = Good(x, j)
      /\ \A x \in End, j \in Link : Delivered(x, j) /\ last'[x] = last[x] => Delivered(x, j)'
  BY <1>1 DEF Good, Delivered
<1>4. /\ CallInv(e)' /\ DeliveryInv(e)'
      /\ \A j \in Link : Grows(e, j) /\ Top(e, j)' \in Int /\ Slots(e, j)' \in Int
  <2>0. /\ CallInv(e) /\ last \in [End -> Nat] /\ calls \in [End -> Nat]
    BY DEF LinksInv, TypeInv, Types
  <2>1. CASE Sending(e) /\ MovesOn(e, call[e].link, FALSE) /\ UNCHANGED <<calls, last>>
    <3>1. call[e].link \in Link
      BY DEF LinksInv, TypeInv, Types, Call
    <3>2. DeliveryInv(e)'
      BY <1>3, <2>1, <3>1, MovesOnTells
    <3> QED
      BY <2>1, <3>2, MovesOnFacts
  <2>2. CASE /\ ~Sending(e) /\ call'[e].op \notin {"send", "heartbeat"} /\ KeepsStatus(e)
             /\ Counted(e) /\ UNCHANGED last
    <3>1. ~Sending(e)' /\ \A j \in Link : ~Ahead(e, j) /\ ~Ahead(e, j)'
      BY <2>2 DEF Sending, Ahead
    <3>2. DeliveryInv(e)'
      BY <1>3, <2>2, <3>1, IdleTells
    <3>3. calls'[e] \in Nat /\ calls[e] <= calls'[e] /\ calls'[e] <= MaxCalls[e]
      BY <2>2, CountedFacts
    <3> QED
      BY <2>0, <2>2, <3>1, <3>2, <3>3, DualAssumption DEF CallInv, Grows, Top, Slots, End
  <2>3. CASE /\ ~Sending(e) /\ call'[e].op \in {"send", "heartbeat"} /\ KeepsStatus(e)
             /\ call'[e].link = 1 /\ call'[e].waiting = FALSE
             /\ Counted(e) /\ (stable \/ calls' # calls)
             /\ last' = [last EXCEPT ![e] = IF stable THEN 0 ELSE calls[e] + 1]
    <3>1. calls'[e] = calls[e] + 1 /\ calls'[e] <= MaxCalls[e] /\ last'[e] = calls[e] + 1
      BY <1>1, <2>0, <2>3, CountedFacts
    <3>2. /\ Sending(e)' /\ ~Waiting(e)' /\ \A j \in Link : ~Ahead(e, j)
          /\ \A j \in Link : ~(j < call'[e].link)
      BY <2>3, LinkFacts DEF Sending, Waiting, Ahead
    <3>3. ASSUME NEW j \in Link PROVE Ahead(e, j)'
      <4>1. call'[e].link < j \/ (call'[e].link = j /\ ~call'[e].waiting)
        BY <2>3, LinkFacts
      <4> QED
        BY <3>2, <4>1 DEF Ahead
    <3>4. DeliveryInv(e)'
      BY <3>2 DEF DeliveryInv, WaitInv, UpInv, StatusInv
    <3>5. CallInv(e)'
      BY <2>0, <3>1 DEF CallInv
    <3> QED
      BY <2>0, <3>1, <3>2, <3>3, <3>4, <3>5 DEF CallInv, Grows, Top, Slots
  <2> QED
    BY <2>1, <2>2, <2>3 DEF QuietEffect
<1>5. /\ CallInv(p)'
      /\ \A j \in Link : Top(p, j)' = Top(p, j) /\ Slots(p, j)' = Slots(p, j)
  BY <1>0, <1>1, <1>2, OtherKeeps DEF LinksInv
<1>6. DeliveryInv(p)'
  <2>1. /\ KeepsStatus(p)
        /\ \A j \in Link : Delivered(p, j) => Delivered(p, j)'
    BY <1>0, <1>1, <1>2, <1>3 DEF KeepsStatus
  <2>2. PICK i \in Link : i = call[p].link
    BY <1>0 DEF LinksInv, TypeInv, Types, Call
  <2>21. Waiting(p) => call[p].sequence < ch'[p].links[i].next_sequence
    BY <1>0, <1>1, <2>2 DEF LinksInv, DeliveryInv, WaitInv
  <2>3. \A j \in Link : Good(p, j)' = Good(p, j) /\ Good(Peer(p), j)' = Good(Peer(p), j)
    BY <1>0, <1>3
  <2> QED
    BY <1>0, <1>1, <1>2, <2>1, <2>2, <2>21, <2>3, WaitTells
<1>7. ASSUME NEW x \in End, NEW i \in Link PROVE LinkInv(x, i)'
  <2>1. /\ Top(x, i) <= Top(x, i)' /\ Top(x, i)' \in Int
        /\ Slots(x, i) <= Slots(x, i)' /\ Slots(x, i)' \in Int
        /\ Top(Peer(x), i) <= Top(Peer(x), i)' /\ Top(Peer(x), i)' \in Int
    <3>1. Top(p, i) \in Int /\ Slots(p, i) \in Int
      BY <1>0, LinkTypes
    <3> QED
      BY <1>0, <1>4, <1>5, <3>1 DEF Grows
  <2>2. /\ ch'[Peer(x)].links[i] = ch[Peer(x)].links[i] /\ ch'[x].links[i] = ch[x].links[i]
        /\ accepted'[x][i] = accepted[x][i] /\ Good(x, i)' \subseteq Good(x, i)
    BY <1>0, <1>1, <1>3
  <2> QED
    BY <1>1, <2>1, <2>2, LinkKeeps
<1> QED
  BY <1>0, <1>4, <1>5, <1>6, <1>7 DEF StepInv

\* The network adds nothing that could be taken in.
LEMMA NetworkStep ==
  ASSUME LinksInv, TypeInv', NetworkEffect
  PROVE  StepInv
<1>1. UNCHANGED <<ch, call, calls, last, accepted>> /\ Types'
  BY DEF NetworkEffect, TypeInv
<1>2. \A x \in End, j \in Link : Good(x, j)' \subseteq Good(x, j)
  BY PeerFacts DEF NetworkEffect, Good, End
<1>3. \A x \in End, j \in Link : Delivered(x, j) => Delivered(x, j)'
  BY <1>1 DEF Delivered
<1>4. ASSUME NEW x \in End PROVE CallInv(x)' /\ DeliveryInv(x)' /\ \A i \in Link : LinkInv(x, i)'
  <2>0. Peer(x) \in End
    BY PeerFacts
  <2>1. /\ CallInv(x)'
        /\ \A j \in Link : Top(x, j)' = Top(x, j) /\ Slots(x, j)' = Slots(x, j)
        /\ \A j \in Link : Top(Peer(x), j)' = Top(Peer(x), j)
    BY <1>1, <2>0, OtherKeeps DEF LinksInv
  <2>2. PICK i \in Link : i = call[x].link
    BY DEF LinksInv, TypeInv, Types, Call
  <2>21. Waiting(x) => call[x].sequence < ch'[x].links[i].next_sequence
    BY <1>1, <2>2 DEF LinksInv, DeliveryInv, WaitInv
  <2>3. DeliveryInv(x)'
    BY <1>1, <1>2, <1>3, <2>0, <2>2, <2>21, WaitTells DEF KeepsStatus
  <2>4. ASSUME NEW j \in Link PROVE LinkInv(x, j)'
    <3>1. Top(Peer(x), j) \in Int /\ Slots(x, j) \in Int
      BY <2>0, LinkTypes
    <3> QED
      BY <1>1, <1>2, <2>1, <3>1, LinkKeeps
  <2> QED
    BY <2>1, <2>3, <2>4
<1> QED
  BY <1>4 DEF StepInv

\* Before the horizon a send or an answer moves the sequence counter by one.
LEMMA CounterMoves ==
  ASSUME LinksInv, Horizon, NEW e \in End, NEW i \in Link,
         NEW s \in Int, NEW l \in Int, s <= MaxCalls[e], l <= Top(Peer(e), i),
         ch[e].links[i].next_sequence + 1 <= s + l
  PROVE  NextSequence(ch[e].links[i].next_sequence) = ch[e].links[i].next_sequence + 1
<1>0. Peer(e) \in End
  BY PeerFacts
<1>1. /\ ch[e].links[i].next_sequence \in Sequence /\ ch[e].links[i].next_sequence \in Nat
      /\ Top(Peer(e), i) \in Int /\ Top(Peer(e), i) <= MaxCalls[Peer(e)]
      /\ MaxCalls[e] \in Nat /\ MaxCalls[Peer(e)] \in Nat
  <2>1. Top(Peer(e), i) \in Int /\ Slots(Peer(e), i) \in Int /\ Top(Peer(e), i) <= Slots(Peer(e), i)
        /\ Slots(Peer(e), i) <= MaxCalls[Peer(e)] /\ MaxCalls[Peer(e)] \in Nat
    BY <1>0, LinkTypes
  <2> QED
    BY <2>1, LinkTypes
<1>2. ch[e].links[i].next_sequence + 1 < SEQ_MOD
  BY <1>1, BelowHorizon
<1> QED
  BY <1>1, <1>2, SequenceFacts

\* An end sends on some of its links.
LEMMA SendStep ==
  ASSUME LinksInv, TypeInv', Horizon, NEW e \in End, NEW out \in SUBSET Link,
         NEW kind \in {"DATA", "HEARTBEAT", "STATE"}, NEW no \in Nat,
         SendEffect(e, out, kind, no), calls'[Peer(e)] = calls[Peer(e)],
         \A j \in Link : Grows(e, j) /\ Top(e, j)' \in Int /\ Slots(e, j)' \in Int,
         \A j \in out : Slots(e, j) + 1 <= Slots(e, j)' /\ Slots(e, j)' <= MaxCalls[e],
         kind # "STATE" =>
           \A j \in out : 1 <= no /\ Top(e, j) < no /\ no <= Top(e, j)'
  PROVE  /\ \A x \in End, i \in Link : LinkInv(x, i)'
         /\ DeliveryInv(Peer(e))' /\ CallInv(Peer(e))'
         /\ \A j \in out : ch'[e].links[j].next_sequence = ch[e].links[j].next_sequence + 1
<1> DEFINE p == Peer(e)
<1>0. /\ p \in End /\ p # e /\ Peer(p) = e /\ End = {e, p}
  BY PeerFacts
<1>1. /\ ch'[p] = ch[p] /\ call'[p] = call[p] /\ net'[e] = net[e]
      /\ \A j \in Link \ out : ch'[e].links[j] = ch[e].links[j] /\ net'[p][j] = net[p][j]
      /\ \A j \in out :
           /\ ch'[e].links[j].next_sequence = NextSequence(ch[e].links[j].next_sequence)
           /\ ch'[e].links[j].expected_sequence = ch[e].links[j].expected_sequence
           /\ \E g \in Frame :
                /\ g.kind = kind /\ g.no = no /\ g.sequence = ch[e].links[j].next_sequence
                /\ Range(net'[p][j]) = Range(net[p][j]) \cup {g}
      /\ UNCHANGED <<last, accepted>> /\ Types'
  BY DEF SendEffect, TypeInv
<1>2. /\ CallInv(p)'
      /\ \A j \in Link : Top(p, j)' = Top(p, j) /\ Slots(p, j)' = Slots(p, j)
  BY <1>0, <1>1, OtherKeeps DEF LinksInv
<1>3. /\ \A j \in Link : Good(e, j)' = Good(e, j)
      /\ \A j \in Link \ out : Good(p, j)' = Good(p, j)
      /\ \A x \in End, j \in Link : Delivered(x, j) => Delivered(x, j)'
  BY <1>1 DEF Good, Delivered
<1>4. ASSUME NEW j \in out
      PROVE  \E g \in Frame :
               /\ g.kind = kind /\ g.no = no /\ g.sequence = ch[e].links[j].next_sequence
               /\ Good(p, j)' \subseteq Good(p, j) \cup {g}
  <2>1. PICK g \in Frame :
               /\ g.kind = kind /\ g.no = no /\ g.sequence = ch[e].links[j].next_sequence
               /\ Range(net'[p][j]) = Range(net[p][j]) \cup {g}
    BY <1>1
  <2>2. Good(p, j)' \subseteq Good(p, j) \cup {g}
    BY <2>1 DEF Good
  <2> QED
    BY <2>1, <2>2
<1>5. ASSUME NEW j \in out
      PROVE  ch'[e].links[j].next_sequence = ch[e].links[j].next_sequence + 1
  <2>0. j \in Link
    OBVIOUS
  <2>1. /\ ch[e].links[j].next_sequence <= Slots(e, j) + Len(accepted[e][j])
        /\ Len(accepted[e][j]) <= Newest(e, j) /\ Newest(e, j) <= Top(p, j)
    BY <2>0 DEF LinksInv, LinkInv, Orderly
  <2>2. /\ ch[e].links[j].next_sequence \in Nat /\ Slots(e, j) \in Int
        /\ Len(accepted[e][j]) \in Nat /\ Newest(e, j) \in Nat
    BY <2>0, LinkTypes
  <2>3. Top(p, j) \in Int
    BY <1>0, <2>0, LinkTypes
  <2>4. /\ Slots(e, j)' \in Int /\ Slots(e, j) + 1 <= Slots(e, j)' /\ Slots(e, j)' <= MaxCalls[e]
    BY <2>0
  <2>5. /\ ch[e].links[j].next_sequence + 1 <= Slots(e, j)' + Len(accepted[e][j])
        /\ Len(accepted[e][j]) <= Top(p, j)
    <3>1. ASSUME NEW n \in Nat, NEW s1 \in Int, NEW s2 \in Int, NEW l \in Nat, NEW w \in Nat,
                 NEW t \in Int, n <= s1 + l, l <= w, w <= t, s1 + 1 <= s2
          PROVE  n + 1 <= s2 + l /\ l <= t
      BY <3>1
    <3> DEFINE n == ch[e].links[j].next_sequence
               s1 == Slots(e, j)
               s2 == Slots(e, j)'
               l == Len(accepted[e][j])
               w == Newest(e, j)
               t == Top(p, j)
    <3>2. /\ n \in Nat /\ s1 \in Int /\ s2 \in Int /\ l \in Nat /\ w \in Nat /\ t \in Int
          /\ n <= s1 + l /\ l <= w /\ w <= t /\ s1 + 1 <= s2
      BY <2>1, <2>2, <2>3, <2>4, Zenon
    <3> HIDE DEF n, s1, s2, l, w, t
    <3>3. n + 1 <= s2 + l /\ l <= t
      BY <3>1, <3>2
    <3> QED
      BY <3>3 DEF n, s2, l, t
  <2>6. NextSequence(ch[e].links[j].next_sequence) = ch[e].links[j].next_sequence + 1
    <3> DEFINE sl == Slots(e, j)'
               l == Len(accepted[e][j])
    <3>1. sl \in Int /\ l \in Int /\ sl <= MaxCalls[e] /\ l <= Top(Peer(e), j)
          /\ ch[e].links[j].next_sequence + 1 <= sl + l
      BY <2>2, <2>4, <2>5
    <3> HIDE DEF sl, l
    <3> QED
      BY <2>0, <3>1, CounterMoves
  <2> QED
    BY <1>1, <2>6
<1>6. ASSUME NEW j \in Link PROVE LinkInv(e, j)'
  <2>1. Top(p, j) \in Int
    BY <1>0, LinkTypes
  <2>2. CASE j \in out
    BY <1>0, <1>1, <1>2, <1>3, <1>5, <2>1, <2>2, LinkOwns
  <2>3. CASE j \notin out
    BY <1>0, <1>1, <1>2, <1>3, <2>1, <2>3, LinkKeeps DEF Grows
  <2> QED
    BY <2>2, <2>3
<1>7. ASSUME NEW j \in Link PROVE LinkInv(p, j)'
  <2>1. Slots(p, j) \in Int
    BY <1>0, LinkTypes
  <2>2. CASE j \in out
    <3>1. PICK g \in Frame :
               /\ g.kind = kind /\ g.no = no /\ g.sequence = ch[e].links[j].next_sequence
               /\ Good(p, j)' \subseteq Good(p, j) \cup {g}
      BY <1>4, <2>2
    <3>2. /\ Acknowledged(g) => 1 <= g.no /\ Top(e, j) < g.no /\ g.no <= Top(e, j)'
          /\ g.kind # "ACK"
      BY <2>2, <3>1 DEF Acknowledged
    <3>3. /\ ch'[e].links[j].next_sequence = g.sequence + 1
          /\ Top(e, j) <= Top(e, j)' /\ Top(e, j)' \in Int
          /\ ch'[p].links[j] = ch[p].links[j] /\ accepted'[p][j] = accepted[p][j]
      BY <1>1, <1>5, <2>2, <3>1 DEF Grows
    <3> QED
      BY <1>0, <1>1, <1>2, <3>1, <3>2, <3>3, LinkAdds
  <2>3. CASE j \notin out
    BY <1>0, <1>1, <1>2, <1>3, <2>1, <2>3, LinkKeeps DEF Grows
  <2> QED
    BY <2>2, <2>3
<1>8. DeliveryInv(p)'
  <2>1. KeepsStatus(p) /\ \A j \in Link : Delivered(p, j) => Delivered(p, j)'
    BY <1>0, <1>1, <1>3 DEF KeepsStatus
  <2>2. PICK i \in Link : i = call[p].link
    BY <1>0 DEF LinksInv, TypeInv, Types, Call
  <2>21. Waiting(p) => call[p].sequence < ch'[p].links[i].next_sequence
    BY <1>0, <1>1, <2>2 DEF LinksInv, DeliveryInv, WaitInv
  <2>3. ASSUME NEW j \in Link, NEW f \in Good(p, j)', Matches(p, f) PROVE f \in Good(p, j)
    <3>1. CASE j \in out
      BY <1>4, <2>3, <3>1 DEF Matches
    <3>2. CASE j \notin out
      BY <1>3, <2>3, <3>2
    <3> QED
      BY <3>1, <3>2
  <2> QED
    BY <1>0, <1>1, <1>3, <2>1, <2>2, <2>21, <2>3, WaitTells
<1> QED
  BY <1>0, <1>2, <1>5, <1>6, <1>7, <1>8

\* A send puts its frame on a link and waits for the acknowledgement.
LEMMA SendOnLinkStep ==
  ASSUME LinksInv, TypeInv', Horizon, NEW e \in End, SendOnLink(e)
  PROVE  StepInv
<1>0. PICK i \in Link : i = call[e].link
  BY DEF LinksInv, TypeInv, Types, Call
<1> DEFINE p == Peer(e)
<1>1. /\ p \in End /\ p # e /\ Peer(p) = e /\ End = {e, p}
  BY PeerFacts
<1>2. TypeInv /\ CallInv(e)
  BY DEF LinksInv
<1>3. /\ Sending(e) /\ ~call[e].waiting
      /\ call'[e].op = call[e].op /\ call'[e].link = i /\ call'[e].waiting = TRUE
      /\ call'[e].sequence = ch[e].links[i].next_sequence
      /\ UNCHANGED <<calls, due>>
  BY <1>0, <1>2, SendOnLinkFacts
<1>4. PICK kind \in {"DATA", "HEARTBEAT"} : SendEffect(e, {i}, kind, last[e])
  BY <1>0, <1>2, SendOnLinkFacts
<1>5. /\ UNCHANGED <<last, accepted>> /\ net'[e] = net[e] /\ KeepsStatus(e)
      /\ \E g \in Frame :
           /\ g.kind = kind /\ g.no = last[e] /\ g.sequence = ch[e].links[i].next_sequence
           /\ Range(net'[p][i]) = Range(net[p][i]) \cup {g}
  BY <1>4 DEF SendEffect
<1>6. Sending(e)' /\ Waiting(e)' /\ CallInv(e)'
  BY <1>2, <1>3, <1>5 DEF Sending, Waiting, CallInv
<1>7. /\ Ahead(e, i) /\ ~Ahead(e, i)' /\ \A j \in Link : Ahead(e, j)' => Ahead(e, j)
  BY <1>0, <1>3, LinkFacts DEF Ahead, Sending
<1>8. last[e] \in Nat /\ calls[e] \in Nat /\ last[e] = calls[e] /\ 1 <= last[e]
      /\ calls[e] <= MaxCalls[e] /\ MaxCalls[e] \in Nat
  BY <1>2, <1>3, DualAssumption DEF CallInv, TypeInv, Types, End
<1>9. /\ \A j \in Link : Grows(e, j) /\ Top(e, j)' \in Int /\ Slots(e, j)' \in Int
      /\ Slots(e, i) + 1 <= Slots(e, i)' /\ Slots(e, i)' <= MaxCalls[e]
      /\ Top(e, i) < last[e] /\ last[e] <= Top(e, i)'
  BY <1>3, <1>5, <1>7, <1>8 DEF Grows, Top, Slots
<1>10. /\ \A x \in End, j \in Link : LinkInv(x, j)'
       /\ DeliveryInv(p)' /\ CallInv(p)'
       /\ ch'[e].links[i].next_sequence = ch[e].links[i].next_sequence + 1
  <2>1. {i} \in SUBSET Link /\ kind \in {"DATA", "HEARTBEAT", "STATE"} /\ calls'[p] = calls[p]
    BY <1>3
  <2> QED
    BY <1>4, <1>8, <1>9, <2>1, SendStep
<1>11. DeliveryInv(e)'
  <2> DEFINE s == ch[e].links[i].next_sequence
  <2>0. s \in Nat /\ (\A f \in Good(p, i) : f.sequence \in Int) /\ \A f \in Good(e, i) : f.no \in Int
    <3>1. s \in Nat /\ Good(e, i) \in SUBSET Frame
      BY LinkTypes
    <3>2. Good(p, i) \in SUBSET Frame
      BY <1>1, LinkTypes
    <3> QED
      BY <3>1, <3>2, SequenceFacts DEF Frame
  <2>1. /\ \A f \in Good(p, i) : f.sequence < s
        /\ \A f \in Good(e, i) : f.kind = "ACK" => f.no < s
    <3>1. LinkInv(e, i) /\ LinkInv(p, i)
      BY <1>1 DEF LinksInv
    <3> QED
      BY <1>1, <3>1 DEF LinkInv, Orderly
  <2>2. \A f \in Good(p, i)' : f.sequence = s => Acknowledged(f) /\ f.no = last'[e]
    <3>1. PICK g \in Frame :
             /\ g.kind = kind /\ g.no = last[e] /\ g.sequence = s
             /\ Range(net'[p][i]) = Range(net[p][i]) \cup {g}
      BY <1>5
    <3>2. \A f \in Good(p, i)' : f \in Good(p, i) \/ f = g
      BY <3>1 DEF Good
    <3> QED
      BY <1>5, <2>0, <2>1, <3>1, <3>2 DEF Acknowledged
  <2>3. \A f \in Good(e, i)' : ~Matches(e, f)'
    <3>1. Good(e, i)' = Good(e, i)
      BY <1>5 DEF Good
    <3> QED
      BY <1>3, <2>0, <2>1, <3>1 DEF Matches
  <2>4. WaitInv(e)'
    <3>1. s < ch'[e].links[i].next_sequence
      BY <1>10, <2>0
    <3> QED
      BY <1>3, <2>2, <2>3, <3>1 DEF WaitInv
  <2>5. UpInv(e)'
    <3>1. UpInv(e) /\ \A j \in Link : Delivered(e, j) => Delivered(e, j)'
      BY <1>5 DEF LinksInv, DeliveryInv, Delivered
    <3> QED
      BY <1>0, <1>3, <1>5, <1>6, <3>1 DEF UpInv, KeepsStatus
  <2> QED
    BY <1>6, <2>4, <2>5 DEF DeliveryInv, StatusInv
<1> QED
  BY <1>1, <1>6, <1>10, <1>11 DEF StepInv

\* A state frame goes out.
LEMMA SendStateStep ==
  ASSUME LinksInv, TypeInv', Horizon, NEW e \in End, SendState(e)
  PROVE  StepInv
<1> DEFINE p == Peer(e)
<1>1. /\ p \in End /\ p # e /\ Peer(p) = e /\ End = {e, p}
  BY PeerFacts
<1>2. TypeInv /\ CallInv(e) /\ ~stable
  BY DEF LinksInv
<1>3. /\ ~Sending(e) /\ call'[e].op = "idle" /\ Counted(e) /\ calls' # calls
  BY <1>2, SendStateFacts
<1>4. PICK out \in SUBSET Link : SendEffect(e, out, "STATE", 0)
  BY <1>2, SendStateFacts
<1>5. /\ calls'[p] = calls[p] /\ calls'[e] = calls[e] + 1 /\ calls'[e] <= MaxCalls[e]
  BY <1>3, CountedFacts
<1>6. UNCHANGED <<last, accepted>> /\ KeepsStatus(e)
  BY <1>4 DEF SendEffect
<1>7. ~Sending(e)' /\ \A j \in Link : ~Ahead(e, j) /\ ~Ahead(e, j)'
  BY <1>3 DEF Sending, Ahead
<1>8. last[e] \in Nat /\ calls[e] \in Nat
  BY <1>2 DEF TypeInv, Types
<1>9. \A j \in Link : /\ Grows(e, j) /\ Top(e, j)' \in Int /\ Slots(e, j)' \in Int
                      /\ Slots(e, j) + 1 <= Slots(e, j)' /\ Slots(e, j)' <= MaxCalls[e]
  BY <1>5, <1>6, <1>7, <1>8 DEF Grows, Top, Slots
<1>10. CallInv(e)'
  BY <1>2, <1>5, <1>6, <1>7, <1>8 DEF CallInv
<1>11. (\A x \in End, j \in Link : LinkInv(x, j)') /\ DeliveryInv(p)' /\ CallInv(p)'
  BY <1>4, <1>5, <1>9, SendStep
<1>12. DeliveryInv(e)'
  <2>1. \A j \in Link : Delivered(e, j) => Delivered(e, j)'
    BY <1>6 DEF Delivered
  <2> QED
    BY <1>3, <1>6, <1>7, <2>1, IdleTells
<1> QED
  BY <1>1, <1>10, <1>11, <1>12 DEF StepInv

\* A frame that is expected is newer than everything taken in before.
LEMMA ExpectedIsNewer ==
  ASSUME LinksInv, NEW e \in End, NEW i \in Link, NEW f \in Good(e, i),
         f.sequence = ch[e].links[i].expected_sequence, Acknowledged(f)
  PROVE  /\ f.no \in Nat /\ 1 <= f.no /\ Newest(e, i) < f.no /\ f.no <= Top(Peer(e), i)
         /\ Len(accepted[e][i]) + 1 <= f.no
<1> DEFINE x == ch[e].links[i].expected_sequence
           w == Newest(e, i)
           l == Len(accepted[e][i])
           t == Top(Peer(e), i)
<1>1. f \in Frame /\ x \in Nat /\ w \in Nat /\ l \in Nat
  BY LinkTypes
<1>2. f.no \in Nat
  BY <1>1 DEF Frame
<1>3. /\ 1 <= f.no /\ f.no <= t /\ (x <= f.sequence => w < f.no) /\ l <= w
  BY DEF LinksInv, LinkInv, Orderly
<1>4. f.sequence = x
  OBVIOUS
<1> HIDE DEF x, w, l, t
<1>5. w < f.no /\ l + 1 <= f.no
  BY <1>1, <1>2, <1>3, <1>4
<1> QED
  BY <1>2, <1>3, <1>5 DEF w, l, t

\* What an end takes in is a send of its counterpart, newer than the last.
Promises(e, i, f) ==
  \/ UNCHANGED accepted
  \/ /\ accepted' = [accepted EXCEPT ![e][i] = Append(@, f.no)]
     /\ f.no \in Nat /\ Newest(e, i) < f.no /\ f.no <= calls[Peer(e)]

\* An end polls a link and finds a frame.
LEMMA PollStep ==
  ASSUME LinksInv, TypeInv', Horizon, NEW e \in End, NEW i \in Link, i = call[e].link,
         NEW f \in Frame, NEW ack \in BOOLEAN, PollEffect(e, i, f, ack)
  PROVE  StepInv /\ Promises(e, i, f)
<1> DEFINE p == Peer(e)
           taken == msgchannel_receive_status(ch[e], e, i, f) = "OK"
           old == ch[e].links[i]
           new == ch'[e].links[i]
<1>0. /\ p \in End /\ p # e /\ Peer(p) = e /\ End = {e, p}
  BY PeerFacts
<1>1. /\ ch'[p] = ch[p] /\ call'[p] = call[p] /\ UNCHANGED <<calls, last>> /\ Types'
      /\ f \in Range(net[e][i])
      /\ \A j \in Link \ {i} : ch'[e].links[j] = ch[e].links[j]
      /\ taken => new.expected_sequence = NextSequence(f.sequence)
      /\ ~taken => new.expected_sequence = old.expected_sequence
      /\ ack => taken /\ Acknowledged(f)
      /\ new.next_sequence = IF ack THEN NextSequence(old.next_sequence) ELSE old.next_sequence
      /\ Range(net'[e][i]) \subseteq Range(net[e][i])
      /\ \A j \in Link \ {i} : net'[e][j] = net[e][j] /\ net'[p][j] = net[p][j]
      /\ ~ack => net'[p][i] = net[p][i]
      /\ ack => \E g \in Frame :
                  /\ g.kind = "ACK" /\ g.no = f.sequence /\ g.sequence = old.next_sequence
                  /\ Range(net'[p][i]) = Range(net[p][i]) \cup {g}
      /\ accepted' = IF taken /\ Acknowledged(f) /\ f.no # 0
                     THEN [accepted EXCEPT ![e][i] = Append(@, f.no)] ELSE accepted
  BY BelowHorizon DEF PollEffect, TypeInv
<1>2. \/ Polling(e) /\ call'[e].op \in {"idle", call[e].op} /\ KeepsStatus(e)
      \/ Waiting(e) /\ call' = call /\ KeepsStatus(e)
      \/ Waiting(e) /\ MovesOn(e, i, FALSE)
      \/ Waiting(e) /\ MovesOn(e, i, TRUE) /\ taken /\ Matches(e, f)
  BY DEF PollEffect
<1>3. taken => f \in Good(e, i) /\ f.sequence = old.expected_sequence
  BY <1>1 DEF msgchannel_receive_status, vital_message_verify, Good
<1> HIDE DEF taken, p
<1>4. /\ \A j \in Link : Good(e, j)' \subseteq Good(e, j)
      /\ \A j \in Link \ {i} : Good(p, j)' = Good(p, j)
      /\ ~ack => Good(p, i)' = Good(p, i)
      /\ ack => \E g \in Frame :
                  /\ g.kind = "ACK" /\ g.no = f.sequence /\ g.sequence = old.next_sequence
                  /\ Good(p, i)' \subseteq Good(p, i) \cup {g}
  <2>1. ASSUME NEW j \in Link PROVE Good(e, j)' \subseteq Good(e, j)
    <3>1. Range(net'[e][j]) \subseteq Range(net[e][j])
      BY <1>1
    <3> QED
      BY <3>1 DEF Good
  <2>2. /\ \A j \in Link \ {i} : Good(p, j)' = Good(p, j)
        /\ ~ack => Good(p, i)' = Good(p, i)
    BY <1>1 DEF Good
  <2>3. ASSUME ack
        PROVE  \E g \in Frame :
                  /\ g.kind = "ACK" /\ g.no = f.sequence /\ g.sequence = old.next_sequence
                  /\ Good(p, i)' \subseteq Good(p, i) \cup {g}
    <3>1. PICK g \in Frame :
                  /\ g.kind = "ACK" /\ g.no = f.sequence /\ g.sequence = old.next_sequence
                  /\ Range(net'[p][i]) = Range(net[p][i]) \cup {g}
      BY <1>1, <2>3
    <3>2. Good(p, i)' \subseteq Good(p, i) \cup {g}
      BY <3>1 DEF Good
    <3> QED
      BY <3>1, <3>2
  <2> QED
    BY <2>1, <2>2, <2>3
<1>5. /\ old.next_sequence \in Nat /\ old.expected_sequence \in Nat
      /\ Slots(e, i) \in Int /\ Slots(e, i) <= MaxCalls[e] /\ Len(accepted[e][i]) \in Nat
      /\ f.sequence \in Nat
  BY LinkTypes, SequenceFacts DEF Frame
<1>6. taken /\ Acknowledged(f) =>
        /\ f.no \in Nat /\ 1 <= f.no /\ Newest(e, i) < f.no /\ f.no <= Top(p, i)
        /\ Len(accepted[e][i]) + 1 <= f.no
  BY <1>3, ExpectedIsNewer DEF p
<1>7. taken => f.sequence < ch[p].links[i].next_sequence
               /\ NextSequence(f.sequence) = f.sequence + 1
  <2>1. ASSUME taken PROVE f.sequence < ch[p].links[i].next_sequence
    BY <1>3, <2>1 DEF LinksInv, LinkInv, Orderly, p
  <2>2. /\ ch[p].links[i].next_sequence \in Sequence /\ ch[p].links[i].next_sequence \in Nat
    BY <1>0, LinkTypes
  <2>3. SEQ_MOD \in Nat /\ f.sequence \in Sequence
    BY DualAssumption DEF Frame
  <2>4. ASSUME taken PROVE f.sequence + 1 < SEQ_MOD
    BY <1>5, <2>1, <2>2, <2>3, <2>4 DEF Sequence
  <2> QED
    BY <2>1, <2>3, <2>4, SequenceFacts
<1>8. ack => new.next_sequence = old.next_sequence + 1
  <2> SUFFICES ASSUME ack PROVE NextSequence(old.next_sequence) = old.next_sequence + 1
    BY <1>1
  <2> DEFINE sl == Slots(e, i)
             l == Len(accepted[e][i]) + 1
  <2>1. old.next_sequence <= sl + Len(accepted[e][i])
    BY DEF LinksInv, LinkInv
  <2>2. Top(p, i) \in Int
    BY <1>0, LinkTypes
  <2>21. /\ Len(accepted[e][i]) + 1 <= f.no /\ f.no <= Top(p, i) /\ f.no \in Nat
    BY <1>1, <1>6
  <2>22. l <= Top(p, i) /\ l \in Int
    BY <1>5, <2>2, <2>21
  <2>23. old.next_sequence + 1 <= sl + l
    <3>1. ASSUME NEW n \in Nat, NEW x \in Int, NEW k \in Nat, n <= x + k
          PROVE  n + 1 <= x + (k + 1)
      BY <3>1
    <3> QED
      BY <1>5, <2>1, <3>1
  <2>3. sl \in Int /\ l \in Int /\ sl <= MaxCalls[e] /\ l <= Top(Peer(e), i)
        /\ old.next_sequence + 1 <= sl + l
    BY <1>5, <2>22, <2>23 DEF p
  <2> HIDE DEF sl, l
  <2> QED
    BY <2>3, CounterMoves
<1>9. /\ accepted'[p] = accepted[p] /\ \A j \in Link \ {i} : accepted'[e][j] = accepted[e][j]
      /\ accepted'[e][i] = IF taken /\ Acknowledged(f) /\ f.no # 0
                           THEN Append(accepted[e][i], f.no) ELSE accepted[e][i]
  <2>1. accepted \in [End -> [Link -> Seq(Nat)]]
    BY DEF LinksInv, TypeInv, Types
  <2>2. CASE taken /\ Acknowledged(f) /\ f.no # 0
    <3>1. accepted' = [accepted EXCEPT ![e] = [accepted[e] EXCEPT ![i] = Append(accepted[e][i], f.no)]]
      BY <1>1, <2>2
    <3> QED
      BY <1>0, <2>1, <2>2, <3>1
  <2>3. CASE ~(taken /\ Acknowledged(f) /\ f.no # 0)
    BY <1>1, <2>3
  <2> QED
    BY <2>2, <2>3
<1>10. /\ \A x \in End, j \in Link : Delivered(x, j) => Delivered(x, j)'
       /\ taken /\ Acknowledged(f) /\ f.no = last[p] => Delivered(p, i)'
  <2>1. ASSUME NEW x \in End, NEW j \in Link
        PROVE  Range(accepted[x][j]) \subseteq Range(accepted'[x][j])
    <3>1. accepted[e][i] \in Seq(Nat) /\ f.no \in Nat
      BY DEF LinksInv, TypeInv, Types, Frame
    <3>2. Range(accepted[e][i]) \subseteq Range(Append(accepted[e][i], f.no))
      BY <3>1, AppendFacts
    <3> QED
      BY <1>0, <1>9, <3>2
  <2>2. ASSUME taken, Acknowledged(f) PROVE f.no \in Range(accepted'[e][i])
    <3>1. accepted[e][i] \in Seq(Nat) /\ f.no \in Nat /\ 1 <= f.no
      BY <1>6, <2>2 DEF LinksInv, TypeInv, Types
    <3>11. f.no # 0
      BY <3>1
    <3>2. accepted'[e][i] = Append(accepted[e][i], f.no)
      BY <1>9, <2>2, <3>11, Zenon
    <3> DEFINE t == Append(accepted[e][i], f.no)
    <3>3. f.no \in Range(t)
      BY <3>1, AppendFacts
    <3> HIDE DEF t
    <3> QED
      BY <3>2, <3>3 DEF t
  <2>3. \A x \in End : Peer(x) \in End
    BY PeerFacts
  <2>4. ASSUME NEW x \in End, NEW j \in Link, Delivered(x, j) PROVE Delivered(x, j)'
    BY <1>1, <2>1, <2>3, <2>4 DEF Delivered
  <2> QED
    BY <1>0, <1>1, <2>2, <2>4 DEF Delivered
<1>11. /\ CallInv(p)' /\ \A j \in Link : Top(p, j)' = Top(p, j) /\ Slots(p, j)' = Slots(p, j)
  BY <1>0, <1>1, OtherKeeps DEF LinksInv
<1>12. Promises(e, i, f)
  <2>1. taken /\ Acknowledged(f) => f.no <= calls[p]
    <3>1. Top(p, i) \in Int /\ Top(p, i) <= last[p] /\ last[p] <= calls[p]
          /\ last[p] \in Nat /\ calls[p] \in Nat
      <4>1. last[p] \in Nat /\ calls[p] \in Nat /\ last[p] <= calls[p]
        BY <1>0 DEF LinksInv, TypeInv, Types, CallInv
      <4> QED
        BY <4>1 DEF Top
    <3> QED
      BY <1>6, <3>1
  <2> QED
    BY <1>1, <1>6, <2>1 DEF Promises, p
<1>13. /\ CallInv(e)' /\ DeliveryInv(e)'
       /\ \A j \in Link : Grows(e, j) /\ Top(e, j)' \in Int /\ Slots(e, j)' \in Int
  <2>0. CallInv(e) /\ WaitInv(e)
    BY DEF LinksInv, DeliveryInv
  <2>1. CASE Polling(e) /\ call'[e].op \in {"idle", call[e].op} /\ KeepsStatus(e)
    <3>1. ~Sending(e) /\ ~Sending(e)' /\ \A j \in Link : ~Ahead(e, j) /\ ~Ahead(e, j)'
      BY <2>1 DEF Polling, Sending, Ahead
    <3>2. DeliveryInv(e)'
      BY <1>1, <1>10, <2>1, <3>1, IdleTells
    <3>3. last[e] \in Nat /\ calls[e] \in Nat
      BY DEF LinksInv, TypeInv, Types
    <3> QED
      BY <1>1, <2>0, <3>1, <3>2, <3>3 DEF CallInv, Grows, Top, Slots
  <2>2. CASE Waiting(e) /\ call' = call /\ KeepsStatus(e)
    <3>1. /\ CallInv(e)' /\ \A j \in Link : Top(e, j)' = Top(e, j) /\ Slots(e, j)' = Slots(e, j)
      BY <1>1, <2>0, <2>2, OtherKeeps
    <3>2. \A j \in Link : Top(e, j) \in Int /\ Slots(e, j) \in Int
      BY LinkTypes
    <3> DEFINE s == call[e].sequence
    <3>3. s < old.next_sequence /\ s \in Nat
      BY <2>0, <2>2, SequenceFacts DEF WaitInv, LinksInv, TypeInv, Types, Call
    <3>4. s < new.next_sequence
      BY <1>1, <1>5, <1>8, <3>3
    <3>5. \A h \in Good(p, i)' : h.sequence = s => h \in Good(p, i)
      BY <1>4, <1>5, <3>3
    <3>6. DeliveryInv(e)'
      BY <1>1, <1>4, <1>10, <2>2, <3>4, <3>5, WaitTells DEF p
    <3> QED
      BY <3>1, <3>2, <3>6 DEF Grows
  <2>3. ASSUME NEW up \in BOOLEAN, Waiting(e), MovesOn(e, i, up), up => Delivered(e, i)'
        PROVE  /\ CallInv(e)' /\ DeliveryInv(e)'
               /\ \A j \in Link : Grows(e, j) /\ Top(e, j)' \in Int /\ Slots(e, j)' \in Int
    <3>1. Sending(e)
      BY <2>3 DEF Waiting, Sending
    <3>2. MovesOn(e, call[e].link, up)
      BY <2>3
    <3>3. DeliveryInv(e)'
      BY <1>1, <1>10, <2>3, <3>1, MovesOnTells
    <3> QED
      BY <1>1, <3>1, <3>2, <3>3, MovesOnFacts
  <2>4. CASE Waiting(e) /\ MovesOn(e, i, FALSE)
    BY <2>3, <2>4
  <2>5. CASE Waiting(e) /\ MovesOn(e, i, TRUE) /\ taken /\ Matches(e, f)
    <3>1. Delivered(e, i)
      BY <1>3, <2>0, <2>5 DEF WaitInv
    <3> QED
      BY <1>10, <2>3, <2>5, <3>1
  <2> QED
    BY <1>2, <2>1, <2>2, <2>4, <2>5
<1>14. DeliveryInv(p)'
  <2>1. KeepsStatus(p) /\ WaitInv(p) /\ call[p].link \in Link
    BY <1>0, <1>1 DEF KeepsStatus, LinksInv, DeliveryInv, TypeInv, Types, Call
  <2>2. ASSUME NEW j \in Link, j = call[p].link, Waiting(p), NEW h \in Good(p, j)', Matches(p, h)
        PROVE  h \in Good(p, j) \/ Delivered(p, j)'
    <3>1. CASE j # i \/ ~ack
      BY <1>4, <3>1
    <3>2. CASE j = i /\ ack
      <4>1. PICK g \in Frame :
                  /\ g.kind = "ACK" /\ g.no = f.sequence /\ g.sequence = old.next_sequence
                  /\ Good(p, i)' \subseteq Good(p, i) \cup {g}
        BY <1>4, <3>2
      <4>2. CASE h = g
        <5>1. f.sequence = call[p].sequence /\ f \in Good(Peer(p), call[p].link) /\ taken /\ Acknowledged(f)
          BY <1>0, <1>1, <1>3, <2>2, <3>2, <4>1, <4>2 DEF Matches
        <5>2. f.no = last[p]
          BY <2>1, <2>2, <5>1 DEF WaitInv
        <5> QED
          BY <1>10, <3>2, <5>1, <5>2
      <4> QED
        BY <2>2, <3>2, <4>1, <4>2
    <3> QED
      BY <3>1, <3>2
  <2>3. PICK j \in Link : j = call[p].link
    BY <2>1
  <2>4. Waiting(p) => call[p].sequence < ch'[p].links[j].next_sequence
    BY <1>1, <2>1, <2>3 DEF WaitInv
  <2>5. Good(Peer(p), j)' \subseteq Good(Peer(p), j)
    BY <1>0, <1>4
  <2>6. \A k \in Link : Delivered(p, k) => Delivered(p, k)'
    BY <1>0, <1>10
  <2>7. call'[p] = call[p] /\ last'[p] = last[p]
    BY <1>1
  <2>8. Waiting(p) =>
          \A h \in Good(p, j)' : Matches(p, h) => h \in Good(p, j) \/ Delivered(p, j)'
    BY <2>2, <2>3
  <2> QED
    BY <1>0, <2>1, <2>3, <2>4, <2>5, <2>6, <2>7, <2>8, WaitTells
<1>15. ASSUME NEW j \in Link PROVE LinkInv(e, j)'
  <2>1. /\ Top(p, j) \in Int
    BY <1>0, LinkTypes
  <2>2. CASE j # i
    <3>1. /\ ch'[Peer(e)].links[j].next_sequence = ch[Peer(e)].links[j].next_sequence
          /\ ch'[e].links[j] = ch[e].links[j] /\ accepted'[e][j] = accepted[e][j]
          /\ Good(e, j)' \subseteq Good(e, j)
      BY <1>1, <1>4, <1>9, <2>2 DEF p
    <3>2. /\ Top(Peer(e), j) <= Top(Peer(e), j)' /\ Top(Peer(e), j)' \in Int
          /\ Slots(e, j) <= Slots(e, j)' /\ Slots(e, j)' \in Int
      BY <1>11, <1>13, <2>1 DEF Grows, p
    <3> QED
      BY <1>1, <3>1, <3>2, LinkKeeps
  <2>3. CASE j = i /\ ~taken
    <3>1. new.next_sequence = old.next_sequence /\ new.expected_sequence = old.expected_sequence
      BY <1>1, <2>3
    <3>2. new = old
      <4>1. ch[e] \in Channel /\ ch'[e] \in Channel
        BY <1>1 DEF LinksInv, TypeInv, Types
      <4>2. /\ old \in [next_sequence: Sequence, expected_sequence: Sequence]
            /\ new \in [next_sequence: Sequence, expected_sequence: Sequence]
        BY <4>1 DEF Channel
      <4> QED
        BY <3>1, <4>2
    <3>3. accepted'[e][i] = accepted[e][i]
      BY <1>9, <2>3
    <3> QED
      BY <1>1, <1>4, <1>11, <1>13, <2>1, <2>3, <3>2, <3>3, LinkKeeps DEF Grows, p
  <2>4. CASE j = i /\ taken
    <3> DEFINE a == IF ack THEN 1 ELSE 0
    <3>1. /\ a \in {0, 1} /\ (a = 1 => Acknowledged(f))
          /\ new.next_sequence = old.next_sequence + a
          /\ new.expected_sequence = f.sequence + 1
      BY <1>1, <1>5, <1>7, <1>8, <2>4
    <3>2. accepted'[e][i] = IF Acknowledged(f) /\ f.no # 0 THEN Append(accepted[e][i], f.no)
                            ELSE accepted[e][i]
      BY <1>9, <2>4
    <3> HIDE DEF a
    <3>3. /\ f \in Good(e, i) /\ f.sequence = ch[e].links[i].expected_sequence
          /\ Good(e, i)' \subseteq Good(e, i)
          /\ ch'[Peer(e)].links[i] = ch[Peer(e)].links[i]
          /\ Top(Peer(e), i)' = Top(Peer(e), i)
          /\ Slots(e, i) <= Slots(e, i)' /\ Slots(e, i)' \in Int
      BY <1>1, <1>3, <1>4, <1>11, <1>13, <2>4 DEF Grows, p
    <3>4. LinkInv(e, i)'
      BY <1>1, <3>1, <3>2, <3>3, LinkTakes
    <3> QED
      BY <2>4, <3>4
  <2> QED
    BY <2>2, <2>3, <2>4
<1>16. ASSUME NEW j \in Link PROVE LinkInv(p, j)'
  <2>1. Slots(p, j) \in Int
    BY <1>0, LinkTypes
  <2>2. CASE j # i \/ ~ack
    <3>1. ch'[e].links[j].next_sequence = ch[e].links[j].next_sequence
      BY <1>1, <2>2
    <3>2. Good(p, j)' \subseteq Good(p, j)
      BY <1>4, <2>2
    <3> QED
      BY <1>0, <1>1, <1>9, <1>11, <1>13, <2>1, <3>1, <3>2, LinkKeeps DEF Grows
  <2>3. CASE j = i /\ ack
    <3>1. PICK g \in Frame :
              /\ g.kind = "ACK" /\ g.no = f.sequence /\ g.sequence = old.next_sequence
              /\ Good(p, i)' \subseteq Good(p, i) \cup {g}
      BY <1>4, <2>3
    <3>2. /\ ~Acknowledged(g) /\ g.no < ch[p].links[i].next_sequence
          /\ ch'[e].links[i].next_sequence = g.sequence + 1
      BY <1>1, <1>7, <1>8, <2>3, <3>1 DEF Acknowledged
    <3> QED
      BY <1>0, <1>1, <1>9, <1>11, <1>13, <2>3, <3>1, <3>2, LinkAdds DEF Grows
  <2> QED
    BY <2>2, <2>3
<1> QED
  BY <1>0, <1>11, <1>12, <1>13, <1>14, <1>15, <1>16 DEF StepInv

-----------------------------------------------------------------------------
(* The theorems *)

\* Nothing is on its way and nothing was sent.
LEMMA LinksInit == Init => LinksInv
<1> SUFFICES ASSUME Init PROVE LinksInv
  OBVIOUS
<1>1. TypeInv /\ ~stable
  BY TypeInit DEF Init
<1>2. ASSUME NEW e \in End PROVE ~Sending(e) /\ ~Waiting(e) /\ last[e] = 0 /\ calls[e] = 0
  BY ReturnedFacts DEF Init, Sending, Waiting
<1>3. ASSUME NEW e \in End PROVE CallInv(e) /\ DeliveryInv(e)
  <2>1. MaxCalls[e] \in Nat
    BY DualAssumption DEF End
  <2> QED
    BY <1>2, <2>1 DEF CallInv, DeliveryInv, WaitInv, UpInv, StatusInv
<1>4. ASSUME NEW e \in End, NEW i \in Link PROVE LinkInv(e, i)
  <2>0. Peer(e) \in End
    BY PeerFacts
  <2>1. net[e][i] = <<>> /\ accepted[e][i] = <<>>
    BY DEF Init
  <2>2. Good(e, i) = {}
    BY <2>1 DEF Good, Range
  <2>3. Newest(e, i) = 0 /\ Len(accepted[e][i]) = 0
    BY <2>1 DEF Newest, Promised!Newest
  <2>4. Top(Peer(e), i) = 0 /\ Slots(e, i) = 0
    BY <1>2, <2>0 DEF Top, Slots, Ahead
  <2>5. ch[e].links[i].next_sequence = 0
    BY InitFacts DEF Init
  <2> QED
    BY <2>2, <2>3, <2>4, <2>5 DEF LinkInv, Orderly
<1> QED
  BY <1>1, <1>3, <1>4 DEF LinksInv

\* Every step keeps the invariant and is a step that OrderedLinks allows.
LEMMA LinksStep ==
  ASSUME Horizon, LinksInv, [Next]_vars
  PROVE  LinksInv' /\ [Promised!Next]_<<calls, accepted>>
<1>0. TypeInv /\ TypeInv' /\ ~stable
  BY TypeStep DEF LinksInv
<1>1. ASSUME StepInv, UNCHANGED stable PROVE LinksInv'
  BY <1>0, <1>1 DEF StepInv, LinksInv
<1>2. ASSUME NEW e \in End, Counted(e), UNCHANGED accepted
      PROVE  [Promised!Next]_<<calls, accepted>>
  BY <1>2 DEF Counted, Promised!Next, Promised!Send
<1>3. ASSUME NEW e \in End, QuietEffect(e)
      PROVE  LinksInv' /\ [Promised!Next]_<<calls, accepted>>
  <2>1. Counted(e) /\ UNCHANGED <<stable, accepted>>
    BY <1>3 DEF QuietEffect, Counted
  <2>2. StepInv
    BY <1>0, <1>3, QuietStep
  <2> QED
    BY <1>1, <1>2, <2>1, <2>2
<1>4. ASSUME NEW e \in End, Poll(e)
      PROVE  LinksInv' /\ [Promised!Next]_<<calls, accepted>>
  <2>1. PICK i \in Link : i = call[e].link
    BY DEF LinksInv, TypeInv, Types, Call
  <2>2. PICK f \in Frame, ack \in BOOLEAN : PollEffect(e, i, f, ack)
    BY <1>0, <1>4, <2>1, PollFacts
  <2>3. StepInv /\ Promises(e, i, f)
    BY <1>0, <2>1, <2>2, PollStep
  <2>4. UNCHANGED <<calls, stable>>
    BY <2>2 DEF PollEffect
  <2>5. CASE UNCHANGED accepted
    BY <1>1, <2>3, <2>4, <2>5
  <2>6. CASE /\ accepted' = [accepted EXCEPT ![e][i] = Append(@, f.no)]
             /\ f.no \in Nat /\ Newest(e, i) < f.no /\ f.no <= calls[Peer(e)]
    <3>1. Newest(e, i) \in Nat /\ calls[Peer(e)] \in Nat
      BY <1>0, LinkTypes, PeerFacts DEF TypeInv, Types
    <3>2. f.no \in (Newest(e, i) + 1)..calls[Peer(e)]
      BY <2>6, <3>1
    <3>3. Promised!Accept(e, i)
      BY <2>4, <2>6, <3>2 DEF Promised!Accept, Newest
    <3> QED
      BY <1>1, <2>3, <2>4, <3>3 DEF Promised!Next
  <2> QED
    BY <2>3, <2>5, <2>6 DEF Promises
<1>5. ASSUME NEW e \in End, SendOnLink(e)
      PROVE  LinksInv' /\ [Promised!Next]_<<calls, accepted>>
  <2>1. UNCHANGED <<calls, stable, accepted>>
    BY <1>5 DEF SendOnLink
  <2>2. StepInv
    BY <1>0, <1>5, SendOnLinkStep
  <2> QED
    BY <1>1, <2>1, <2>2
<1>6. ASSUME NEW e \in End, SendState(e)
      PROVE  LinksInv' /\ [Promised!Next]_<<calls, accepted>>
  <2>1. Counted(e) /\ UNCHANGED <<stable, accepted>>
    BY <1>0, <1>6, SendStateFacts DEF SendState
  <2>2. StepInv
    BY <1>0, <1>6, SendStateStep
  <2> QED
    BY <1>1, <1>2, <2>1, <2>2
<1>7. ASSUME NetworkEffect
      PROVE  LinksInv' /\ [Promised!Next]_<<calls, accepted>>
  <2>1. UNCHANGED <<calls, stable, accepted>>
    BY <1>7 DEF NetworkEffect
  <2>2. StepInv
    BY <1>0, <1>7, NetworkStep
  <2> QED
    BY <1>1, <2>1, <2>2
<1>8. CASE Next
  <2>1. PICK e \in End : Step(e) \/ Environment(e)
    BY <1>8 DEF Next
  <2>2. CASE \E i \in Link : Lose(e, i) \/ Repeat(e, i) \/ Delay(e, i) \/ Corrupt(e, i)
                             \/ Misdirect(e, i)
    BY <1>0, <1>7, <2>2, NetworkFacts
  <2>3. CASE \/ StartSend(e, "send") \/ StartSend(e, "heartbeat")
             \/ StartReceive(e, "receive") \/ StartReceive(e, "receive_state")
             \/ PollEmpty(e) \/ AckTimeout(e) \/ SendRefused(e) \/ PollFault(e) \/ AckLate(e)
    BY <1>0, <1>3, <2>3, QuietFacts
  <2>4. ~Restart(e)
    BY DEF Restart, Disturb, Horizon
  <2> QED
    BY <1>4, <1>5, <1>6, <2>1, <2>2, <2>3, <2>4 DEF Step, Environment
<1>9. CASE UNCHANGED vars
  <2>1. NetworkEffect
    BY <1>0, <1>9 DEF vars, NetworkEffect, TypeInv, Types
  <2> QED
    BY <1>7, <2>1
<1> QED
  BY <1>8, <1>9

\* Within the horizon rte_dual_channel_send() and its heartbeat tell the truth:
\* when they have returned, a link that is up, DEGRADED and FULL mean that the
\* counterpart took in this very send, for any number of links, calls and
\* disturbances.
THEOREM DeliveryIsTold == Horizon => (Spec => []StatusTellsDelivery)
<1> SUFFICES ASSUME Horizon PROVE Spec => []StatusTellsDelivery
  OBVIOUS
<1>1. LinksInv /\ [Next]_vars => LinksInv'
  BY LinksStep
<1>2. LinksInv => StatusTellsDelivery
  <2> SUFFICES ASSUME LinksInv, NEW e \in End, call[e].op = "idle", last[e] # 0
               PROVE  /\ \A i \in Link : ch[e].link_up[i] => Delivered(e, i)
                      /\ ch[e].last_status = "FULL" => \A i \in Link : Delivered(e, i)
                      /\ ch[e].last_status = "DEGRADED" => \E i \in Link : Delivered(e, i)
    BY DEF StatusTellsDelivery
  <2>1. ~Sending(e) /\ UpInv(e) /\ StatusInv(e)
    BY DEF LinksInv, DeliveryInv, Sending
  <2>2. /\ \A i \in Link : ch[e].link_up[i] => Delivered(e, i)
        /\ ch[e].last_status = compute_status(ch[e].link_up)
    BY <2>1 DEF UpInv, StatusInv
  <2> QED
    BY <2>2 DEF compute_status
<1> QED
  BY <1>1, <1>2, LinksInit, PTL DEF Spec

\* Within the horizon the two endpoints implement OrderedLinks: over each link
\* they take in only sends that were made, each at most once and in their order,
\* whatever the network repeats, loses, delays, corrupts or misdirects.
THEOREM LinksAreOrdered == Horizon => (Spec => ImplementsOrderedLinks)
<1> SUFFICES ASSUME Horizon PROVE Spec => Promised!Spec
  BY DEF ImplementsOrderedLinks
<1>1. LinksInv /\ [Next]_vars => LinksInv' /\ [Promised!Next]_<<calls, accepted>>
  BY LinksStep
<1>2. Init => Promised!Init
  BY DEF Init, Promised!Init
<1> QED
  BY <1>1, <1>2, LinksInit, PTL DEF Spec, Promised!Spec
=============================================================================
