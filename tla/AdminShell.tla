------------------------------ MODULE AdminShell ------------------------------
(***************************************************************************)
(* What the panels of the operator console share (AdminApp): whether the   *)
(* admin key is accepted, and which tab is on screen.  React unmounts a    *)
(* panel when its tab is left or the key is lost, and mounts it afresh     *)
(* later: a panel's state lives only while it is open.                     *)
(***************************************************************************)

VARIABLES
    authed,     \* the key is stored and no request has been answered 401
    tab,        \* "decks" or "tune"
    plan        \* what the operator does in this session (see Console)

Tabs == {"decks", "tune"}
Plans == {"decks", "proof", "listen", "record"}

Open(t) == authed /\ tab = t

shellVars == <<authed, tab, plan>>
==============================================================================
