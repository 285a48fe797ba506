--------------------------- MODULE MCSiteRolePair ---------------------------
(* Finite instances of SiteRolePair for TLC: the disturbances each run     *)
(* allows and what the hosts' clocks may read at a boot.                   *)
EXTENDS SiteRolePair

None == [k \in Kinds |-> 0]
AnyKind == [k \in Kinds |-> 1]
OneCrash == [None EXCEPT !["crash"] = 1]
CrashFaultConfirm == [None EXCEPT !["crash"] = 1, !["fault"] = 1, !["confirm"] = 1]

\* A timestamp of EAST before or equal to WEST's; either of two on both hosts.
EastEither == [c \in Chan |-> IF IsWest(c) THEN {2} ELSE {1, 2}]
AnyOfTwo == [c \in Chan |-> {1, 2}]
=============================================================================
