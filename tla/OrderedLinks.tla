---------------------------- MODULE OrderedLinks ----------------------------
(***************************************************************************)
(* What the redundant links promise ("sequence_number defends against      *)
(* repetition/deletion/resequencing", rte_dual_msgchannel.h): each end     *)
(* numbers its calls, and what the other end takes in over one link are    *)
(* sends that were really made, each at most once and in their order.      *)
(* Nothing is promised about losses, or about an order between links.      *)
(***************************************************************************)
EXTENDS Naturals, Sequences

CONSTANTS Ends, Links, Other(_)

VARIABLES sent, accepted

Init ==
  /\ sent = [e \in Ends |-> 0]
  /\ accepted = [e \in Ends |-> [i \in Links |-> <<>>]]

Send(e) ==
  /\ sent' = [sent EXCEPT ![e] = @ + 1]
  /\ UNCHANGED accepted

\* The number of the last send taken in over link i.
Newest(e, i) == IF accepted[e][i] = <<>> THEN 0 ELSE accepted[e][i][Len(accepted[e][i])]

Accept(e, i) ==
  /\ \E n \in (Newest(e, i) + 1)..sent[Other(e)] :
       accepted' = [accepted EXCEPT ![e][i] = Append(@, n)]
  /\ UNCHANGED sent

Next == \E e \in Ends : Send(e) \/ \E i \in Links : Accept(e, i)

Spec == Init /\ [][Next]_<<sent, accepted>>
=============================================================================
