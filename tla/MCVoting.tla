------------------------------ MODULE MCVoting ------------------------------
(* Instances of Voting for TLC. *)
EXTENDS Voting, TLC

CONSTANTS c1, c2, c3

\* A tolerance: not transitive, since 1 and 3 are both close to 2.
Close(x, y) == x <= y + 1 /\ y <= x + 1

Cfg(s, q, cb, l) == [strategy |-> s, quorum_size |-> q, callback |-> cb, level |-> l]

AllStrategies ==
  {Cfg("2OO2", 0, TRUE, "SAFE"), Cfg("2OO3", 0, TRUE, "SAFE"), Cfg("2OO3", 0, FALSE, "DEGRADED"),
   Cfg("NMR", 1, FALSE, "SAFE"), Cfg("NMR", 3, FALSE, "SAFE"), Cfg("NMR", 2, TRUE, "DEGRADED"),
   Cfg("CROSS", 0, TRUE, "SAFE")}

AnyChannel == Permutations(Channel)
=============================================================================
