---------------------------- MODULE MCDualChannel ----------------------------
(* Finite instances of DualChannel for TLC: the disturbances each run allows. *)
EXTENDS DualChannel

OneOne == [A |-> 1, B |-> 1]
TwoOne == [A |-> 2, B |-> 1]
AnyButRestart == Kinds \ {"restart"}
RestartOrLoss == {"restart", "lose", "late"}
=============================================================================
