----------------------------- MODULE MCTurnGame -----------------------------
(* TurnGame on small instances. *)
EXTENDS TurnGame, TLC

\* Player b has played before, so that the cap is reached by one of the two.
MCPriorRounds == [p \in {PlayerA, PlayerB} |-> IF p = PlayerB THEN 1 ELSE 0]

=============================================================================
