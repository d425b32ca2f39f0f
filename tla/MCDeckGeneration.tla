-------------------------- MODULE MCDeckGeneration --------------------------
(* DeckGeneration on small instances. *)
EXTENDS DeckGeneration

=============================================================================
