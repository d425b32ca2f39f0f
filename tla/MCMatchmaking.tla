--------------------------- MODULE MCMatchmaking ---------------------------
(* Matchmaking on small instances. *)
EXTENDS Matchmaking, TLC

CONSTANTS p1, p2, p3

\* Three mother tongues; everybody also knows English.
MCNativeThree == (p1 :> "as") @@ (p2 :> "bn") @@ (p3 :> "hi")
MCCommonEnglish == [p \in {p1, p2, p3} |-> {"en"}]

=============================================================================
