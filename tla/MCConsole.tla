------------------------------ MODULE MCConsole ------------------------------
(* The console on two decks, two jobs and two samples.                     *)
EXTENDS Console
==============================================================================
