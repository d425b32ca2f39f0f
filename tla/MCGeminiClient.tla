--------------------------- MODULE MCGeminiClient ---------------------------
(* GeminiClient on small instances. *)
EXTENDS GeminiClient, TLC

=============================================================================
