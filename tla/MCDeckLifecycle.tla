-------------------------- MODULE MCDeckLifecycle --------------------------
(* DeckLifecycle on small instances. *)
EXTENDS DeckLifecycle, TLC

\* Activation requests are alike, and so are builders of one kind.
Symmetric == Permutations(Admins) \cup Permutations(Tasks) \cup Permutations(Clis)

=============================================================================
