---------------------------- MODULE MCPlayerClient ----------------------------
(* One browser, two turns, three options.                                 *)
EXTENDS PlayerClient
==============================================================================
