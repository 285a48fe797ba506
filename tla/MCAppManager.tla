---------------------------- MODULE MCAppManager ----------------------------
(* Instances of AppManager for TLC. *)
EXTENDS AppManager

\* Everything optional present and no limit on the cycles; a bounded run with
\* the mandatory operations only.
EndlessAndPlain ==
  {[pre_execute |-> TRUE, post_execute |-> TRUE, on_result |-> TRUE, checkpoint |-> TRUE,
    max_iterations |-> 0, error_threshold |-> 2],
   [pre_execute |-> FALSE, post_execute |-> FALSE, on_result |-> FALSE, checkpoint |-> FALSE,
    max_iterations |-> 2, error_threshold |-> 0]}
=============================================================================
