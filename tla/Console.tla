-------------------------------- MODULE Console --------------------------------
(***************************************************************************)
(* The operator console (AdminApp): the key gate, the tabs, and the panel  *)
(* on screen.                                                              *)
(*                                                                         *)
(* A session follows one plan, fixed at its start: build and activate      *)
(* decks, run training proofs, listen to the held-out samples, or record   *)
(* and submit a clip.  The plan bounds what the operator and the servers   *)
(* do, never what the panel does with their answers.                       *)
(***************************************************************************)
EXTENDS DeckPanel, TunePanel

vars == <<shellVars, deckVars, tuneVars>>

Init ==
    /\ authed = FALSE
    /\ tab = "decks"
    /\ plan \in Plans
    /\ DeckInit
    /\ TuneInit

Enter(t) == IF t = "decks" THEN DeckEnter /\ UNCHANGED tuneVars
                           ELSE TuneEnter /\ UNCHANGED deckVars

\* AuthGate: any non-empty key opens the console; the server judges it.
Unlock ==
    /\ ~authed
    /\ authed' = TRUE
    /\ Enter(tab)
    /\ UNCHANGED <<tab, plan>>

Leave(t) == IF t = "decks" THEN DeckLeave /\ UNCHANGED tuneVars
                           ELSE TuneLeave /\ UNCHANGED deckVars

\* The Lock button, or any request answered 401.
Lock ==
    /\ authed
    /\ authed' = FALSE
    /\ Leave(tab)
    /\ UNCHANGED <<tab, plan>>

SelectTab(t) ==
    /\ authed
    /\ tab # t
    /\ tab' = t
    /\ IF t = "decks" THEN TuneLeave /\ DeckEnter ELSE DeckLeave /\ TuneEnter
    /\ UNCHANGED <<authed, plan>>

DeckAction == plan = "decks" /\ DeckStep /\ UNCHANGED <<tuneVars, shellVars>>
TuneAction ==
    /\ \/ plan = "proof" /\ JobStep
       \/ plan = "listen" /\ AudioStep
       \/ plan = "record" /\ MicStep
    /\ UNCHANGED <<deckVars, shellVars>>

Next ==
    \/ Unlock \/ Lock
    \/ \E t \in Tabs : SelectTab(t)
    \/ DeckAction
    \/ TuneAction

Spec == Init /\ [][Next]_vars

\* Timers fire, and the server and the network answer (or fail) in the end.
\* The operator, the builds and the GPU jobs are under no obligation.
FairSpec ==
    /\ Spec
    /\ SF_vars(plan = "decks" /\ (\E c \in Chains : PollDeck(c)) /\ UNCHANGED <<tuneVars, shellVars>>)
    /\ \A c \in Chains :
         WF_vars(plan = "decks" /\ (DeliverReply(c) \/ ServePost(c)) /\ UNCHANGED <<tuneVars, shellVars>>)
    /\ WF_vars(plan = "proof" /\ (\E p \in Polls : AskJob(p)) /\ UNCHANGED <<deckVars, shellVars>>)
    /\ \A p \in Polls :
         WF_vars(plan = "proof" /\ DeliverJob(p) /\ UNCHANGED <<deckVars, shellVars>>)
==============================================================================
