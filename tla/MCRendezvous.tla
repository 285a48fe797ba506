---------------------------- MODULE MCRendezvous ----------------------------
(* Instances of Rendezvous for TLC. *)
EXTENDS Rendezvous, TLC

CONSTANTS a, b, c, p, q

\* a is configured with two peers, of which c is down, and needs one of them;
\* b needs a.
ThreeChannels == a :> <<c, b>> @@ b :> <<a>> @@ c :> <<>>
ThreeExpected == a :> 1 @@ b :> 1 @@ c :> 0
=============================================================================
