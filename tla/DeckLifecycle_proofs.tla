------------------------ MODULE DeckLifecycle_proofs ------------------------
(***************************************************************************)
(* Theorems about DeckLifecycle, for any number of decks, builders and     *)
(* activations: the locks of activate, publish and mark_failed.            *)
(***************************************************************************)
EXTENDS DeckLifecycle, TLAPS

\* What Goto and ReleaseLocks do, pointwise.
LEMMA GotoEffect ==
    ASSUME TypeOK, NEW x \in Agents, NEW label, Goto(x, label)
    PROVE  /\ pc'[x] = label
           /\ \A y \in Agents \ {x} : pc'[y] = pc[y]
           /\ DOMAIN pc' = Agents
    BY DEF Goto, TypeOK

LEMMA ReleaseEffect ==
    ASSUME TypeOK, NEW x \in Agents, ReleaseLocks(x)
    PROVE  /\ rowLock' \in [Decks -> Builders \cup Admins \cup {None}]
           /\ activating' \in Admins \cup {None}
           /\ \A d \in Decks : rowLock'[d] # x
           /\ \A d \in Decks, y \in Agents \ {x} : rowLock'[d] = y <=> rowLock[d] = y
           /\ activating' # x
           /\ \A y \in Agents \ {x} : activating' = y <=> activating = y
    BY ConstantsAssumption DEF ReleaseLocks, TypeOK, Agents, Builders

LEMMA InitOK == Init => DeckInv
    BY ConstantsAssumption
    DEF Init, DeckInv, TypeOK, LocksOK, Holds, ActivationOK, PublishOK, Statuses, Card, Agents, Builders,
        BuilderPcs, AdminPcs, InPublish, HoldsTarget, FailurePcs

\* A builder that moves on outside its transaction and leaves the row locks alone
\* keeps the invariant, whatever it does to cards and files.
LEMMA BuilderMoves ==
    ASSUME DeckInv, NEW b \in Builders, NEW label \in BuilderPcs \ InPublish, Goto(b, label),
           pc[b] \notin InPublish, label # "idle",
           TypeOK', deck'[b] \in Decks,
           \A x \in Agents \ {b} : deck'[x] = deck[x],
           UNCHANGED <<lockVars, demoted>>,
           \A d \in Decks : status'[d] # status[d] =>
               /\ \A x \in Agents : ~Holds(x, d)
               /\ status[d] # "live" /\ status'[d] # "live"
    PROVE  DeckInv'
<1> USE DEF DeckInv
<1>1. /\ pc'[b] = label /\ \A y \in Agents \ {b} : pc'[y] = pc[y]
      /\ b \in Agents /\ b \notin Admins
    BY GotoEffect, ConstantsAssumption DEF Agents
<1>2. \A x \in Agents, d \in Decks : Holds(x, d)' <=> Holds(x, d)
    BY <1>1 DEF Holds, Agents
<1>3. LocksOK'
    BY <1>1, <1>2 DEF LocksOK, lockVars, Agents
<1>4. ActivationOK'
    <2>1. LiveDecks' = LiveDecks
        BY DEF LiveDecks
    <2>2. ASSUME NEW a \in Admins, pc[a] \in HoldsTarget PROVE status'[deck[a]] = status[deck[a]]
        BY <2>2 DEF Holds, TypeOK, Agents, HoldsTarget, AdminPcs
    <2>3. \A a \in Admins : pc'[a] = pc[a] /\ deck'[a] = deck[a] /\ a \in Agents
        BY <1>1 DEF Agents
    <2> QED
        BY <2>1, <2>2, <2>3 DEF ActivationOK
<1>5. PublishOK'
    <2> SUFFICES ASSUME NEW y \in Builders, pc'[y] \in InPublish
                 PROVE  status'[deck'[y]] \in {"absent", "generating"}
        BY DEF PublishOK
    <2>1. y \in Agents \ {b} /\ pc[y] \in InPublish /\ deck'[y] = deck[y]
        BY <1>1 DEF Agents
    <2>2. deck[y] \in Decks /\ Holds(y, deck[y])
        BY <2>1 DEF TypeOK, Holds, InPublish
    <2> QED
        BY <2>1, <2>2 DEF PublishOK
<1> QED
    BY <1>3, <1>4, <1>5

\* A row nobody holds is held by no transaction that relies on it, and an unused deck
\* has none.
LEMMA FreeRows ==
    ASSUME DeckInv, NEW d \in Decks
    PROVE  /\ RowFree(d) => \A x \in Agents : ~Holds(x, d)
           /\ Unused(d) => \A x \in Agents : ~Holds(x, d)
<1>1. RowFree(d) => \A x \in Agents : ~Holds(x, d)
    BY ConstantsAssumption DEF DeckInv, LocksOK, RowFree
<1>2. ASSUME Unused(d), NEW x \in Agents PROVE ~Holds(x, d)
    <2>1. deck[x] # d /\ status[d] = "absent"
        BY <1>2 DEF Unused
    <2>2. ~(x \in Admins /\ pc[x] = "demoted" /\ d \in demoted[x])
        BY <2>1 DEF DeckInv, ActivationOK, LiveDecks
    <2> QED
        BY <2>1, <2>2 DEF Holds
<1> QED
    BY <1>1, <1>2

\* A builder that leaves its transaction by a rollback.
LEMMA BuilderLeaves ==
    ASSUME DeckInv, NEW b \in Builders, NEW label \in BuilderPcs \ InPublish, Goto(b, label),
           label # "idle", TypeOK', ReleaseLocks(b), UNCHANGED <<deck, demoted>>,
           \A d \in Decks : d # deck[b] => status'[d] = status[d],
           status'[deck[b]] # status[deck[b]] =>
               /\ pc[b] \in InPublish
               /\ status'[deck[b]] \in {"ready", CliFinal}
    PROVE  DeckInv'
<1> USE DEF DeckInv
<1>1. /\ pc'[b] = label /\ \A y \in Agents \ {b} : pc'[y] = pc[y]
      /\ b \in Agents /\ b \notin Admins
    BY GotoEffect, ConstantsAssumption DEF Agents
<1>2. \A x \in Agents \ {b}, d \in Decks : Holds(x, d)' <=> Holds(x, d)
    BY <1>1 DEF Holds, Agents
<1>3. \A d \in Decks : ~Holds(b, d)'
    BY <1>1 DEF Holds, InPublish
<1>4. LocksOK'
    BY <1>1, <1>2, <1>3, ReleaseEffect DEF LocksOK, Agents
<1>5. \A x \in Agents \ {b}, d \in Decks : Holds(x, d) => status'[d] = status[d]
    <2> SUFFICES ASSUME NEW x \in Agents \ {b}, NEW d \in Decks, Holds(x, d), d = deck[b], pc[b] \in InPublish
                 PROVE  FALSE
        OBVIOUS
    <2>1. Holds(b, d) /\ Holds(x, d)
        BY DEF Holds
    <2> QED
        BY <2>1, <1>1 DEF LocksOK
<1>6. ActivationOK'
    <2> SUFFICES ASSUME NEW a \in Admins, pc'[a] \in HoldsTarget
                 PROVE  /\ status'[deck[a]] \in {"ready", "live"}
                        /\ pc'[a] = "demoted" =>
                              /\ demoted[a] \subseteq LiveDecks' \ {deck[a]}
                              /\ CliFinal = "ready" => LiveDecks' \subseteq demoted[a] \cup {deck[a]}
        BY DEF ActivationOK, HoldsTarget
    <2>1. a \in Agents \ {b} /\ pc[a] = pc'[a]
        BY <1>1 DEF Agents
    <2>2. deck[a] \in Decks /\ Holds(a, deck[a])
        BY <2>1 DEF TypeOK, Holds, HoldsTarget
    <2>3. status'[deck[a]] \in {"ready", "live"}
        BY <2>1, <2>2, <1>5 DEF ActivationOK
    <2>4. ASSUME pc'[a] = "demoted" PROVE demoted[a] \subseteq LiveDecks' \ {deck[a]}
        <3>1. demoted[a] \subseteq LiveDecks \ {deck[a]} /\ \A d \in demoted[a] : d \in Decks /\ Holds(a, d)
            BY <2>1, <2>4 DEF ActivationOK, Holds, LiveDecks
        <3> QED
            BY <3>1, <2>1, <1>5 DEF LiveDecks
    <2>5. ASSUME pc'[a] = "demoted", CliFinal = "ready" PROVE LiveDecks' \subseteq demoted[a] \cup {deck[a]}
        <3>1. LiveDecks' \subseteq LiveDecks
            BY <2>5 DEF LiveDecks
        <3> QED
            BY <3>1, <2>1, <2>5 DEF ActivationOK
    <2> QED
        BY <2>3, <2>4, <2>5
<1>7. PublishOK'
    <2> SUFFICES ASSUME NEW y \in Builders, pc'[y] \in InPublish
                 PROVE  status'[deck[y]] \in {"absent", "generating"}
        BY DEF PublishOK
    <2>1. y \in Agents \ {b} /\ pc[y] \in InPublish
        BY <1>1 DEF Agents
    <2>2. deck[y] \in Decks /\ Holds(y, deck[y])
        BY <2>1 DEF TypeOK, Holds, InPublish
    <2> QED
        BY <2>1, <2>2, <1>5 DEF PublishOK
<1> QED
    BY <1>4, <1>6, <1>7

-----------------------------------------------------------------------------
\* Every step of a builder keeps DeckInv.
LEMMA StartStep ==
    ASSUME DeckInv, NEW b \in Builders, NEW d \in Decks,
           StartGeneration(b, d) \/ RunDeckgen(b, d)
    PROVE  DeckInv'
<1> USE DEF DeckInv
<1>1. b \in Agents /\ Goto(b, "building") /\ pc[b] = "idle" /\ deck' = [deck EXCEPT ![b] = d]
    BY DEF StartGeneration, RunDeckgen, Agents
<1>2. TypeOK'
    BY <1>1, ConstantsAssumption
    DEF StartGeneration, RunDeckgen, SetStatus, Goto, TypeOK, Statuses, dbVars, fileVars, lockVars,
        history, Agents, Builders, BuilderPcs, AdminPcs
<1>3. \A e \in Decks : status'[e] # status[e] =>
          /\ \A x \in Agents : ~Holds(x, e)
          /\ status[e] # "live" /\ status'[e] # "live"
    BY FreeRows DEF StartGeneration, RunDeckgen, SetStatus, TypeOK, dbVars, Unused
<1>4. deck'[b] \in Decks /\ \A x \in Agents \ {b} : deck'[x] = deck[x]
    BY <1>1 DEF TypeOK
<1> QED
    BY <1>1, <1>2, <1>3, <1>4, BuilderMoves
    DEF StartGeneration, RunDeckgen, lockVars, BuilderPcs, InPublish

\* Those steps of a builder that begin and end outside its transaction.
LEMMA OutsideStep ==
    ASSUME DeckInv, NEW b \in Builders,
           \/ BuildFails(b) \/ \E c \in Concepts : MakeDir(b, c)
           \/ PersistCard(b) \/ PersistRollsBack(b) \/ FinalizeDeck(b)
           \/ StageImages(b) \/ UndoPublish(b) \/ MarkFailed(b) \/ MarkingFails(b) \/ ServiceMarksFailed(b)
    PROVE  DeckInv'
<1> USE DEF DeckInv
<1>0. b \in Agents /\ pc[b] \notin InPublish /\ pc[b] # "idle" /\ deck[b] \in Decks
      /\ UNCHANGED <<lockVars, demoted, deck>>
    BY DEF BuildFails, MakeDir, PersistCard, PersistRollsBack, FinalizeDeck, StageImages, UndoPublish,
           MarkFailed, MarkingFails, ServiceMarksFailed, Agents, TypeOK, InPublish, dbVars, fileVars
<1>1. PICK label \in BuilderPcs \ InPublish : Goto(b, label) /\ label # "idle"
    BY DEF BuildFails, MakeDir, PersistCard, PersistRollsBack, FinalizeDeck, StageImages, UndoPublish,
           MarkFailed, MarkingFails, ServiceMarksFailed, Raise, BuilderPcs, InPublish, FailurePcs
<1>2. \A d \in Decks : status'[d] # status[d] =>
          /\ \A x \in Agents : ~Holds(x, d)
          /\ status[d] # "live" /\ status'[d] # "live"
    BY <1>0, FreeRows
    DEF BuildFails, MakeDir, PersistCard, PersistRollsBack, FinalizeDeck, StageImages, UndoPublish,
        MarkFailed, MarkingFails, ServiceMarksFailed, SetStatus, Fresh, KeptByService, TypeOK, dbVars
<1>3. TypeOK'
    <2> USE <1>0, ConstantsAssumption DEF TypeOK, Goto, Agents, Builders, BuilderPcs, AdminPcs, InPublish,
          FailurePcs, Statuses, Card, dbVars, fileVars, lockVars, history
    <2>1. CASE BuildFails(b)
        BY <2>1 DEF BuildFails, Raise
    <2>2. CASE PersistCard(b)
        BY <2>2 DEF PersistCard, HasCardFor
    <2>3. CASE PersistRollsBack(b)
        BY <2>3 DEF PersistRollsBack, Raise, HasCardFor
    <2>4. CASE FinalizeDeck(b)
        BY <2>4 DEF FinalizeDeck, SetStatus
    <2>5. CASE StageImages(b)
        BY <2>5 DEF StageImages, Raise
    <2>6. CASE UndoPublish(b)
        <3>1. hasDir' \in [Decks -> BOOLEAN] /\ images' \in [Decks -> SUBSET Card]
            BY <2>6 DEF UndoPublish
        <3> QED
            BY <2>6, <3>1 DEF UndoPublish
    <2>7. CASE MarkFailed(b)
        BY <2>7 DEF MarkFailed, SetStatus
    <2>8. CASE ServiceMarksFailed(b)
        BY <2>8 DEF ServiceMarksFailed, SetStatus
    <2>10. CASE MarkingFails(b)
        BY <2>10 DEF MarkingFails
    <2>9. ASSUME NEW c \in Concepts, MakeDir(b, c) PROVE TypeOK'
        BY <2>9 DEF MakeDir
    <2> QED
        BY <2>1, <2>2, <2>3, <2>4, <2>5, <2>6, <2>7, <2>8, <2>9, <2>10
<1> QED
    BY <1>0, <1>1, <1>2, <1>3, BuilderMoves

\* The locked part of publish: its beginning, the move of the images and its ends.
LEMMA PublishStep ==
    ASSUME DeckInv, NEW b \in Builders,
           \/ LockDeck(b) \/ MoveImages(b) \/ CommitPublish(b) \/ CommitUnanswered(b)
           \/ PublishRaises(b) \/ BuilderDies(b)
    PROVE  DeckInv'
<1> USE DEF DeckInv
<1>0. b \in Agents /\ b \notin Admins /\ pc[b] # "idle" /\ deck[b] \in Decks
    BY ConstantsAssumption
    DEF LockDeck, MoveImages, CommitPublish, CommitUnanswered, Published, PublishRaises, BuilderDies,
        Agents, TypeOK
<1>1. CASE LockDeck(b) /\ Publishable(b)
    <2>1. TypeOK'
        BY <1>1, <1>0, ConstantsAssumption
        DEF LockDeck, Goto, TypeOK, Agents, Builders, BuilderPcs, AdminPcs, InPublish, dbVars, fileVars, history
    <2>2. /\ pc'[b] = "inserting" /\ pc[b] = "staged"
          /\ \A y \in Agents \ {b} : pc'[y] = pc[y]
          /\ UNCHANGED <<deck, demoted, status, activating>>
          /\ rowLock[deck[b]] = None /\ rowLock' = [rowLock EXCEPT ![deck[b]] = b]
        BY <1>1, <1>0, GotoEffect DEF LockDeck, RowFree, dbVars
    <2>3. LocksOK'
        BY <2>2, <1>0, ConstantsAssumption DEF LocksOK, Holds, TypeOK, Agents, InPublish
    <2>4. ActivationOK' /\ PublishOK'
        BY <2>2, <1>0, <1>1 DEF ActivationOK, PublishOK, LiveDecks, Publishable, Fresh, Agents
    <2> QED
        BY <2>1, <2>3, <2>4
<1>2. CASE LockDeck(b) /\ ~Publishable(b)
    <2>1. TypeOK'
        BY <1>2, <1>0
        DEF LockDeck, Goto, TypeOK, Agents, Builders, BuilderPcs, AdminPcs, FailurePcs, dbVars, fileVars, history
    <2> QED
        BY <1>2, <1>0, <2>1, BuilderMoves
        DEF LockDeck, lockVars, dbVars, BuilderPcs, InPublish, FailurePcs
<1>3. CASE MoveImages(b)
    <2>1. TypeOK'
        BY <1>3, <1>0
        DEF MoveImages, Goto, TypeOK, Agents, Builders, BuilderPcs, AdminPcs, InPublish, Own, Card,
            dbVars, lockVars, history
    <2>2. /\ pc'[b] \in InPublish /\ pc[b] \in InPublish
          /\ \A y \in Agents \ {b} : pc'[y] = pc[y]
          /\ UNCHANGED <<deck, demoted, status, activating, rowLock>>
        BY <1>3, <1>0, GotoEffect DEF MoveImages, InPublish, dbVars, lockVars
    <2>3. LocksOK'
        BY <2>2, <1>0 DEF LocksOK, Holds, Agents
    <2>4. ActivationOK' /\ PublishOK'
        BY <2>2, <1>0 DEF ActivationOK, PublishOK, LiveDecks, Agents
    <2> QED
        BY <2>1, <2>3, <2>4
<1>4. CASE CommitPublish(b) \/ CommitUnanswered(b)
    <2>1. PICK label \in BuilderPcs \ InPublish : Goto(b, label) /\ label # "idle" /\ label # "persisting"
        BY <1>4 DEF CommitPublish, CommitUnanswered, BuilderPcs, InPublish, FailurePcs
    <2>2. /\ status' = [status EXCEPT ![deck[b]] = FinalStatus(b)]
          /\ cards' \in [Decks -> SUBSET Card] /\ decoyed' \in [Decks -> SUBSET Card]
          /\ ReleaseLocks(b) /\ pc[b] = "moved"
          /\ UNCHANGED <<hasDir, images, deck, arg, built, demoted, exposed>>
          /\ unanswered' \subseteq Builders
        BY <1>4, <1>0
        DEF CommitPublish, CommitUnanswered, Published, SetStatus, TypeOK, Own, Card, fileVars
    <2>3. TypeOK'
        BY <1>0, <2>1, <2>2, ConstantsAssumption, ReleaseEffect
        DEF Goto, FinalStatus, TypeOK, Agents, Builders, BuilderPcs, AdminPcs, InPublish, FailurePcs, Statuses
    <2> QED
        BY <1>0, <2>1, <2>2, <2>3, ConstantsAssumption, BuilderLeaves DEF FinalStatus, TypeOK, InPublish
<1>5. CASE PublishRaises(b) \/ BuilderDies(b)
    <2>1. TypeOK'
        BY <1>5, <1>0, ConstantsAssumption, ReleaseEffect
        DEF PublishRaises, BuilderDies, Raise, Goto, TypeOK, Agents, Builders, BuilderPcs, AdminPcs,
            FailurePcs, InPublish, dbVars, fileVars, history
    <2>2. PICK label \in BuilderPcs \ InPublish : Goto(b, label) /\ label # "idle"
        BY <1>5 DEF PublishRaises, BuilderDies, Raise, BuilderPcs, InPublish, FailurePcs
    <2> QED
        BY <1>5, <1>0, <2>1, <2>2, BuilderLeaves DEF PublishRaises, BuilderDies, dbVars
<1> QED
    BY <1>1, <1>2, <1>3, <1>4, <1>5

-----------------------------------------------------------------------------
\* While one activation is under way every other one is idle.
LEMMA OneActivation ==
    ASSUME DeckInv, NEW a \in Admins
    PROVE  /\ pc[a] # "idle" => \A e \in Admins \ {a} : pc[e] = "idle"
           /\ activating = None => \A e \in Admins : pc[e] = "idle"
    BY ConstantsAssumption DEF DeckInv, LocksOK, Agents

\* Every step of an activation keeps DeckInv.
LEMMA AdminKeeps ==
    ASSUME DeckInv, NEW a \in Admins, AdminStep(a)
    PROVE  DeckInv'
<1> USE DEF DeckInv
<1>0. a \in Agents /\ a \notin Builders
    BY ConstantsAssumption DEF Agents
<1>1. ASSUME NEW d \in Decks, Activate(a, d) PROVE DeckInv'
    <2>1. TypeOK'
        BY <1>1, <1>0 DEF Activate, Goto, TypeOK, Agents, AdminPcs, dbVars, fileVars, history
    <2>2. /\ pc'[a] = "activating" /\ pc[a] = "idle" /\ activating = None /\ activating' = a
          /\ \A y \in Agents \ {a} : pc'[y] = pc[y] /\ deck'[y] = deck[y]
          /\ UNCHANGED <<demoted, status, rowLock>>
        BY <1>1, <1>0, GotoEffect DEF Activate, LockFree, dbVars, TypeOK
    <2>3. LocksOK'
        BY <2>2, <1>0, OneActivation DEF LocksOK, Holds, Agents, HoldsTarget
    <2>4. ActivationOK' /\ PublishOK'
        BY <2>2, <1>0 DEF ActivationOK, PublishOK, LiveDecks, Agents, HoldsTarget
    <2> QED
        BY <2>1, <2>3, <2>4
<1>2. CASE SelectTarget(a)
    <2>1. TypeOK'
        BY <1>2, <1>0 DEF SelectTarget, Goto, TypeOK, Agents, AdminPcs, HoldsTarget, dbVars, fileVars, history
    <2>2. /\ pc'[a] = "selected" /\ pc[a] = "activating"
          /\ \A y \in Agents \ {a} : pc'[y] = pc[y]
          /\ UNCHANGED <<deck, demoted, status, activating>>
          /\ deck[a] \in Decks /\ rowLock[deck[a]] = None
          /\ rowLock' = [rowLock EXCEPT ![deck[a]] = a]
          /\ status[deck[a]] \in {"ready", "live"}
        BY <1>2, <1>0, GotoEffect DEF SelectTarget, RowFree, dbVars, TypeOK
    <2>3. LocksOK'
        BY <2>2, <1>0, ConstantsAssumption DEF LocksOK, Holds, TypeOK, Agents, HoldsTarget
    <2>4. ActivationOK' /\ PublishOK'
        BY <2>2, <1>0 DEF ActivationOK, PublishOK, LiveDecks, Agents, HoldsTarget
    <2> QED
        BY <2>1, <2>3, <2>4
<1>3. CASE DemoteOthers(a)
    <2>1. TypeOK'
        BY <1>3, <1>0
        DEF DemoteOthers, Goto, TypeOK, Agents, AdminPcs, HoldsTarget, LiveDecks, dbVars, fileVars, history
    <2>2. /\ pc'[a] = "demoted" /\ pc[a] = "selected" /\ deck[a] \in Decks
          /\ \A y \in Agents \ {a} : pc'[y] = pc[y]
          /\ UNCHANGED <<deck, status, activating>>
          /\ demoted'[a] = LiveDecks \ {deck[a]}
          /\ \A e \in Admins \ {a} : demoted'[e] = demoted[e]
          /\ \A d \in LiveDecks \ {deck[a]} : rowLock[d] = None /\ rowLock'[d] = a
          /\ \A d \in Decks : d \notin LiveDecks \ {deck[a]} => rowLock'[d] = rowLock[d]
        BY <1>3, <1>0, GotoEffect DEF DemoteOthers, RowFree, dbVars, TypeOK, LiveDecks
    <2>3. \A x \in Agents \ {a}, d \in Decks : Holds(x, d)' <=> Holds(x, d)
        BY <2>2, <1>0 DEF Holds, Agents
    <2>4. \A d \in Decks : Holds(a, d)' <=> Holds(a, d) \/ d \in LiveDecks \ {deck[a]}
        BY <2>2, <1>0 DEF Holds, HoldsTarget
    <2>5. LocksOK'
        BY <2>2, <2>3, <2>4, <1>0, ConstantsAssumption DEF LocksOK, Agents
    <2>6. ActivationOK' /\ PublishOK'
        BY <2>2, <1>0, OneActivation DEF ActivationOK, PublishOK, LiveDecks, Agents, HoldsTarget
    <2> QED
        BY <2>1, <2>5, <2>6
<1>4. CASE PromoteDeck(a) \/ RefuseTarget(a) \/ ActivationLost(a)
    <2>0. EndActivation(a) /\ pc[a] # "idle" /\ Goto(a, "idle")
        BY <1>4 DEF PromoteDeck, RefuseTarget, ActivationLost, EndActivation
    <2>1. status' \in [Decks -> Statuses]
        BY <1>4 DEF PromoteDeck, RefuseTarget, ActivationLost, TypeOK, Statuses
    <2>2. TypeOK'
        BY <2>0, <2>1, <1>0, ConstantsAssumption, ReleaseEffect
        DEF EndActivation, Goto, TypeOK, Agents, AdminPcs, fileVars, history
    <2>3. /\ pc'[a] = "idle" /\ \A y \in Agents \ {a} : pc'[y] = pc[y] /\ deck'[y] = deck[y]
          /\ \A e \in Admins \ {a} : demoted'[e] = demoted[e] /\ pc'[e] = "idle"
          /\ ReleaseLocks(a)
        BY <2>0, <1>0, GotoEffect, OneActivation DEF EndActivation, TypeOK, Agents
    <2>4. \A e \in Admins : pc'[e] = "idle"
        BY <2>3
    <2>5. LocksOK'
        <3>1. \A x \in Agents \ {a}, d \in Decks : Holds(x, d)' <=> Holds(x, d)
            BY <2>3, <1>0 DEF Holds, Agents
        <3>2. \A d \in Decks : ~Holds(a, d)'
            BY <2>3, <1>0 DEF Holds, HoldsTarget
        <3> QED
            BY <2>3, <3>1, <3>2, <1>0, ReleaseEffect DEF LocksOK, Agents
    <2>6. ActivationOK'
        BY <2>4 DEF ActivationOK, HoldsTarget
    <2>7. PublishOK'
        <3> SUFFICES ASSUME NEW y \in Builders, pc'[y] \in InPublish
                     PROVE  status'[deck'[y]] \in {"absent", "generating"}
            BY DEF PublishOK
        <3>1. y \in Agents \ {a} /\ pc[y] \in InPublish /\ deck'[y] = deck[y]
            BY <2>3, <1>0 DEF Agents
        <3>2. status[deck[y]] \in {"absent", "generating"} /\ deck[y] \in Decks
            BY <3>1 DEF PublishOK, TypeOK, InPublish
        <3>3. PromoteDeck(a) => status'[deck[y]] = status[deck[y]]
            BY <3>2 DEF PromoteDeck, ActivationOK, LiveDecks, HoldsTarget
        <3> QED
            BY <1>4, <3>1, <3>2, <3>3 DEF RefuseTarget, ActivationLost
    <2> QED
        BY <2>2, <2>5, <2>6, <2>7
<1> QED
    BY <1>1, <1>2, <1>3, <1>4 DEF AdminStep

LEMMA DeckStep == DeckInv /\ [Next]_vars => DeckInv'
<1> SUFFICES ASSUME DeckInv, [Next]_vars PROVE DeckInv'
    OBVIOUS
<1>1. CASE \/ \E b \in Tasks, d \in Decks : StartGeneration(b, d)
           \/ \E b \in Clis, d \in Decks : RunDeckgen(b, d)
    BY <1>1, StartStep DEF Builders
<1>2. CASE \E b \in Builders : BuilderStep(b)
    BY <1>2, OutsideStep, PublishStep DEF BuilderStep
<1>3. CASE \E a \in Admins : AdminStep(a)
    BY <1>3, AdminKeeps
<1>4. CASE UNCHANGED vars
    BY <1>4 DEF vars, DeckInv, TypeOK, LocksOK, Holds, ActivationOK, PublishOK, LiveDecks
<1> QED
    BY <1>1, <1>2, <1>3, <1>4 DEF Next

-----------------------------------------------------------------------------
\* DeckInv is invariant: the transactions of publish and activate hold the locks they
\* rely on until they end, whatever builders and activations overlap or are lost.
THEOREM DeckInvariant == Spec => []DeckInv
<1> QED
    BY InitOK, DeckStep, PTL DEF Spec

\* What a promotion leaves live when the command line publishes ready decks: the target.
LEMMA PromotionStep ==
    ASSUME DeckInv, CliFinal = "ready", NEW a \in Admins, PromoteDeck(a)
    PROVE  LiveDecks' = {deck[a]}
<1>1. deck[a] \in Decks /\ LiveDecks \subseteq demoted[a] \cup {deck[a]}
    BY DEF DeckInv, ActivationOK, PromoteDeck, TypeOK, Agents
<1> QED
    BY <1>1 DEF PromoteDeck, LiveDecks

\* No other step makes a deck live then.
LEMMA OthersPromoteNothing ==
    ASSUME DeckInv, CliFinal = "ready", [Next]_vars, ~\E a \in Admins : PromoteDeck(a)
    PROVE  LiveDecks' \subseteq LiveDecks
<1> USE DEF LiveDecks, DeckInv, TypeOK
<1>1. ASSUME NEW b \in Builders, NEW d \in Decks, StartGeneration(b, d) \/ RunDeckgen(b, d)
      PROVE  LiveDecks' \subseteq LiveDecks
    BY <1>1 DEF StartGeneration, RunDeckgen, SetStatus, dbVars
<1>2. ASSUME NEW b \in Builders, BuilderStep(b) PROVE LiveDecks' \subseteq LiveDecks
    BY <1>2
    DEF BuilderStep, BuildFails, MakeDir, PersistCard, PersistRollsBack, FinalizeDeck, StageImages, LockDeck,
        MoveImages, CommitPublish, CommitUnanswered, Published, FinalStatus, PublishRaises, UndoPublish,
        MarkFailed, MarkingFails, ServiceMarksFailed, KeptByService, BuilderDies, SetStatus, dbVars
<1>3. ASSUME NEW a \in Admins, AdminStep(a) PROVE LiveDecks' \subseteq LiveDecks
    BY <1>3 DEF AdminStep, Activate, SelectTarget, RefuseTarget, DemoteOthers, ActivationLost, dbVars
<1> QED
    BY <1>1, <1>2, <1>3 DEF Next, Builders, vars

\* Overlapping activations leave at most one live deck, as long as the command line
\* does not publish live decks past them.
THEOREM ActivationKeepsOneLive == CliFinal = "ready" => (Spec => []AtMostOneLive)
<1> SUFFICES ASSUME CliFinal = "ready" PROVE Spec => []AtMostOneLive
    OBVIOUS
<1>1. Init => AtMostOneLive
    BY DEF Init, AtMostOneLive, LiveDecks
<1>2. AtMostOneLive /\ DeckInv /\ [Next]_vars => AtMostOneLive'
    <2> SUFFICES ASSUME AtMostOneLive, DeckInv, [Next]_vars PROVE AtMostOneLive'
        OBVIOUS
    <2>1. CASE \E a \in Admins : PromoteDeck(a)
        BY <2>1, PromotionStep DEF AtMostOneLive
    <2>2. CASE ~\E a \in Admins : PromoteDeck(a)
        BY <2>2, OthersPromoteNothing DEF AtMostOneLive
    <2> QED
        BY <2>1, <2>2
<1> QED
    BY <1>1, <1>2, DeckInvariant, PTL DEF Spec

\* How each step may change the status of a deck.
LEMMA StatusStep ==
    ASSUME DeckInv, [Next]_vars
    PROVE  /\ \A d \in Decks : status'[d] # status[d] => <<status[d], status'[d]>> \in Moves
           /\ LiveDecks # {} => LiveDecks' # {}
<1> DEFINE Fine == /\ \A d \in Decks : status'[d] # status[d] => <<status[d], status'[d]>> \in Moves
                   /\ LiveDecks # {} => LiveDecks' # {}
<1> USE DEF DeckInv, Moves, LiveDecks
<1>1. ASSUME NEW b \in Builders, NEW d \in Decks, StartGeneration(b, d) \/ RunDeckgen(b, d)
      PROVE  Fine
    BY <1>1 DEF StartGeneration, RunDeckgen, Unused, SetStatus, TypeOK, dbVars
<1>2. ASSUME NEW b \in Builders, BuilderStep(b) PROVE Fine
    <2>1. deck[b] \in Decks
        BY <1>2 DEF BuilderStep, BuildFails, MakeDir, PersistCard, PersistRollsBack, FinalizeDeck, StageImages,
               LockDeck, MoveImages, CommitPublish, CommitUnanswered, Published, PublishRaises, UndoPublish,
               MarkFailed, MarkingFails, ServiceMarksFailed, BuilderDies, TypeOK, Agents
    <2>2. CASE CommitPublish(b) \/ CommitUnanswered(b)
        <3>1. status[deck[b]] \in {"absent", "generating"}
            BY <2>2 DEF CommitPublish, CommitUnanswered, Published, PublishOK, InPublish
        <3> QED
            BY <2>2, <2>1, <3>1 DEF CommitPublish, CommitUnanswered, Published, SetStatus, FinalStatus, TypeOK
    <2>3. CASE FinalizeDeck(b)
        BY <2>3, <2>1 DEF FinalizeDeck, SetStatus, TypeOK
    <2>4. CASE MarkFailed(b)
        BY <2>4, <2>1 DEF MarkFailed, SetStatus, Fresh, TypeOK
    <2>5. CASE ServiceMarksFailed(b)
        BY <2>5, <2>1 DEF ServiceMarksFailed, KeptByService, SetStatus, TypeOK, Statuses
    <2>6. CASE status' = status
        BY <2>6
    <2> QED
        BY <1>2, <2>2, <2>3, <2>4, <2>5, <2>6
        DEF BuilderStep, BuildFails, MakeDir, PersistCard, PersistRollsBack, StageImages, LockDeck,
            MoveImages, PublishRaises, UndoPublish, MarkingFails, BuilderDies, dbVars
<1>3. ASSUME NEW a \in Admins, AdminStep(a) PROVE Fine
    <2>1. CASE PromoteDeck(a)
        <3>1. /\ deck[a] \in Decks /\ status[deck[a]] \in {"ready", "live"}
              /\ demoted[a] \subseteq LiveDecks \ {deck[a]}
            BY <2>1 DEF PromoteDeck, ActivationOK, HoldsTarget, TypeOK, Agents
        <3> QED
            BY <2>1, <3>1 DEF PromoteDeck
    <2>2. CASE status' = status
        BY <2>2
    <2> QED
        BY <1>3, <2>1, <2>2
        DEF AdminStep, Activate, SelectTarget, RefuseTarget, DemoteOthers, ActivationLost, dbVars
<1>4. CASE UNCHANGED vars
    BY <1>4 DEF vars
<1> QED
    BY <1>1, <1>2, <1>3, <1>4 DEF Next, Builders

\* A failed deck stays failed, a live one is only set back to ready and none goes back
\* to generating: the row locks keep late failures, activations and publishes apart.
THEOREM StatusAdvances == Spec => StatusOrder
<1>1. DeckInv /\ [Next]_vars =>
          [\A d \in Decks : status'[d] # status[d] => <<status[d], status'[d]>> \in Moves]_vars
    BY StatusStep
<1> QED
    BY <1>1, DeckInvariant, PTL DEF Spec, StatusOrder

\* Once a deck is live the game always has a live deck.
THEOREM LiveDeckRemains == Spec => SomeDeckStaysLive
<1>1. DeckInv /\ [Next]_vars => [LiveDecks # {} => LiveDecks' # {}]_vars
    BY StatusStep
<1> QED
    BY <1>1, DeckInvariant, PTL DEF Spec, SomeDeckStaysLive

-----------------------------------------------------------------------------
(* Decks that can be played *)

\* A task starts on a deck nobody has, so a deck has one task at most.
OneTask ==
    /\ \A s, t \in Tasks : deck[s] = deck[t] /\ deck[s] # None => s = t
    /\ \A b \in Builders : pc[b] = "idle" => deck[b] = None /\ built[b] = {}

\* Before a deck is published its cards are those its task has persisted; the cards
\* of a deck that can be played are those of the one builder that published it.
Begun(d)    == status[d] \in {"absent", "generating"}
Playable(d) == status[d] \in {"ready", "live"}

Growing(d) ==
    Begun(d) => /\ decoyed[d] = {}
                /\ \A b \in Builders, c \in Concepts :
                       <<b, c>> \in cards[d] => Progressive(b) /\ deck[b] = d

Complete(d) ==
    Playable(d) /\ cards[d] \cap exposed = {} =>
        \E b \in Builders : cards[d] = Own(b) /\ decoyed[d] = Own(b)

\* What a builder has persisted stays.
Persisted(b) ==
    /\ pc[b] = "persisting" => Progressive(b)
    /\ Progressive(b) => \A c \in built[b] : <<b, c>> \in cards[deck[b]]

\* From the move of the images to the commit, or to the removal of the directory, the
\* images moved are there; the deck has no card row at the move but exposed ones, and
\* none but those before the removal, unless the publish was committed after all.
HasMoved(b) == pc[b] \in {"moved", "undo_moved"}

Moved(b) ==
    /\ HasMoved(b) => Own(b) \subseteq images[deck[b]]
    /\ pc[b] = "moved" => cards[deck[b]] \subseteq exposed
    /\ pc[b] = "undo_moved" =>
           \A card \in cards[deck[b]] \ exposed : card[1] \in unanswered

\* The directory of a deck was moved in place by one builder at a time.
OneMover ==
    \A x, y \in Builders :
        HasMoved(x) /\ HasMoved(y) /\ deck[x] = deck[y] /\ x # y => Concepts = {}

\* A publish that went unanswered has taken effect.
Unheard(b) == b \in unanswered => deck[b] \in Decks /\ ~Begun(deck[b])

PlayInv ==
    /\ OneTask /\ OneMover /\ CardsHaveImages
    /\ \A d \in Decks : Growing(d) /\ Complete(d)
    /\ \A b \in Builders : Persisted(b) /\ Moved(b) /\ Unheard(b)

LEMMA PlayInit == Init => PlayInv
    BY ConstantsAssumption
    DEF Init, PlayInv, OneTask, OneMover, HasMoved, CardsHaveImages, Growing, Complete, Persisted, Moved, Unheard,
        Begun, Playable,
        Agents, Builders, Progressive

\* Steps that leave the cards and the images alone.
CardsStay ==
    /\ UNCHANGED <<cards, decoyed, images, built, history>>
    /\ \A b \in Builders :
          /\ deck'[b] = deck[b]
          /\ pc'[b] = "idle" => pc[b] = "idle"
          /\ pc'[b] = "persisting" => pc[b] = "persisting" \/ Progressive(b)
          /\ pc'[b] = "moved" => pc[b] = "moved"
          /\ pc'[b] = "undo_moved" => HasMoved(b)
    /\ \A d \in Decks :
          /\ status'[d] \in {"absent", "generating"} => status[d] \in {"absent", "generating"}
          /\ status'[d] \in {"ready", "live"} => status[d] \in {"ready", "live"}

LEMMA CardsAlone == ASSUME PlayInv, CardsStay PROVE PlayInv'
<1> USE DEF CardsStay
<1>1. \A b \in Builders : Progressive(b)' <=> Progressive(b)
    BY DEF Progressive
<1>2. OneTask' /\ OneMover' /\ CardsHaveImages'
    BY DEF PlayInv, OneTask, OneMover, HasMoved, CardsHaveImages, Builders, history
<1>3. \A d \in Decks : Growing(d)'
    BY <1>1 DEF PlayInv, Growing, Begun
<1>4. \A d \in Decks : Complete(d)'
    BY DEF PlayInv, Complete, Playable, Own, history
<1>5. \A b \in Builders : Persisted(b)'
    BY <1>1 DEF PlayInv, Persisted
<1>6. \A b \in Builders : Moved(b)'
    BY DEF PlayInv, Moved, HasMoved, Own, history
<1>7. \A b \in Builders : Unheard(b)'
    BY DEF PlayInv, Unheard, Begun, history
<1> QED
    BY <1>2, <1>3, <1>4, <1>5, <1>6, <1>7 DEF PlayInv

LEMMA StartKeepsPlayable ==
    ASSUME DeckInv, PlayInv, NEW b \in Builders, NEW d \in Decks,
           (b \in Tasks /\ StartGeneration(b, d)) \/ (b \in Clis /\ RunDeckgen(b, d))
    PROVE  PlayInv'
<1>1. /\ pc[b] = "idle" /\ deck[b] = None /\ built[b] = {} /\ b \in Agents
      /\ pc'[b] = "building" /\ deck'[b] = d
      /\ \A x \in Builders \ {b} : pc'[x] = pc[x] /\ deck'[x] = deck[x]
      /\ UNCHANGED <<cards, decoyed, images, built, history>>
    BY GotoEffect
    DEF StartGeneration, RunDeckgen, DeckInv, TypeOK, PlayInv, OneTask, Agents, dbVars, fileVars
<1>2. None \notin Decks /\ Tasks \cap Clis = {}
    BY ConstantsAssumption
<1>3. \A x \in Builders, e \in Decks :
          Progressive(x) /\ deck[x] = e => Progressive(x)' /\ deck'[x] = e
    BY <1>1, <1>2 DEF Progressive
<1>4. b \in Tasks => \A t \in Tasks : deck[t] # d
    BY <1>2 DEF StartGeneration, Unused, Agents, Builders
<1>5. OneTask'
    BY <1>1, <1>4, <1>2 DEF PlayInv, OneTask, Builders
<1>6. \A e \in Decks : (Begun(e)' => Begun(e)) /\ (Playable(e)' => Playable(e))
    BY DEF StartGeneration, RunDeckgen, Unused, SetStatus, Begun, Playable, dbVars, DeckInv, TypeOK
<1>7. \A e \in Decks : Growing(e)' /\ Complete(e)'
    BY <1>1, <1>3, <1>6 DEF PlayInv, Growing, Complete, Own, history
<1>8. \A x \in Builders : Persisted(x)'
    BY <1>1 DEF PlayInv, Persisted, Progressive
<1>9. \A x \in Builders : Moved(x)'
    BY <1>1 DEF PlayInv, Moved, HasMoved, Own, history
<1>10. CardsHaveImages' /\ OneMover'
    BY <1>1 DEF PlayInv, CardsHaveImages, OneMover, HasMoved, history
<1>11. \A x \in Builders : Unheard(x)'
    <2> SUFFICES ASSUME NEW x \in Builders, x \in unanswered
                 PROVE  Unheard(x)'
        BY <1>1 DEF Unheard, history
    <2>1. deck[x] \in Decks /\ ~Begun(deck[x])
        BY DEF PlayInv, Unheard
    <2>2. deck'[x] = deck[x]
        BY <1>1, <1>2, <2>1
    <2>3. status'[deck[x]] \notin {"absent", "generating"}
        BY <1>6, <2>1 DEF Begun
    <2> QED
        BY <2>1, <2>2, <2>3 DEF Unheard, Begun
<1> QED
    BY <1>5, <1>7, <1>8, <1>9, <1>10, <1>11 DEF PlayInv

\* While the row of a deck is free nobody is about to commit a publish of it.
LEMMA NobodyMoved ==
    ASSUME DeckInv, NEW d \in Decks, RowFree(d), NEW x \in Builders
    PROVE  pc[x] = "moved" => deck[x] # d
<1> SUFFICES ASSUME pc[x] = "moved", deck[x] = d PROVE FALSE
    OBVIOUS
<1>1. Holds(x, d) /\ x \in Agents
    BY DEF Holds, InPublish, Agents
<1> QED
    BY <1>1, FreeRows DEF DeckInv

LEMMA PersistKeepsPlayable ==
    ASSUME DeckInv, PlayInv, NEW b \in Builders,
           PersistCard(b) \/ PersistRollsBack(b)
    PROVE  PlayInv'
<1> DEFINE d == deck[b]
<1>1. /\ b \in Agents /\ d \in Decks /\ Progressive(b) /\ arg[b] \in Concepts /\ status[d] = "generating"
      /\ pc[b] = "persisting" /\ RowFree(d) /\ UNCHANGED <<deck, status, decoyed, unanswered>>
      /\ \A x \in Builders \ {b} : pc'[x] = pc[x]
      /\ pc'[b] \in {"building", "done", "failing"}
    BY GotoEffect
    DEF PersistCard, PersistRollsBack, Raise, DeckInv, TypeOK, PlayInv, Persisted, Agents, dbVars,
        history
<1>2. \A x \in Builders : pc[x] = "moved" => deck[x] # d
    BY <1>1, NobodyMoved
<1>12. /\ exposed \subseteq exposed' /\ images[d] \subseteq images'[d]
       /\ CleanupDue(d) => cards'[d] \ cards[d] \subseteq exposed'
    BY <1>1 DEF PersistCard, PersistRollsBack, DeckInv, TypeOK, dbVars, history
<1>3. \A e \in Decks \ {d} : cards'[e] = cards[e] /\ images'[e] = images[e]
    BY <1>1 DEF PersistCard, PersistRollsBack, DeckInv, TypeOK, dbVars
<1>4. \A x \in Builders : Progressive(x)' <=> Progressive(x)
    BY <1>1 DEF Progressive
<1>5. \/ cards'[d] = cards[d] /\ built' = built
      \/ /\ cards'[d] \subseteq cards[d] \cup {<<b, arg[b]>>} /\ cards[d] \subseteq cards'[d]
         /\ built' = [built EXCEPT ![b] = @ \cup {arg[b]}]
         /\ HasCardFor(d, arg[b]) \/ <<b, arg[b]>> \in cards'[d]
    BY <1>1 DEF PersistCard, PersistRollsBack, DeckInv, TypeOK, dbVars
<1>6. HasCardFor(d, arg[b]) => <<b, arg[b]>> \in cards[d]
    <2> SUFFICES ASSUME NEW card \in cards[d], card[2] = arg[b] PROVE <<b, arg[b]>> \in cards[d]
        BY DEF HasCardFor
    <2>1. PICK x \in Builders, c \in Concepts : card = <<x, c>>
        BY <1>1 DEF DeckInv, TypeOK, Card
    <2>2. Progressive(x) /\ deck[x] = d /\ c = arg[b]
        BY <1>1, <2>1 DEF PlayInv, Growing, Begun
    <2>3. x = b
        BY <1>1, <2>2, ConstantsAssumption DEF PlayInv, OneTask, Progressive
    <2> QED
        BY <2>1, <2>2, <2>3
<1>7. \A card \in cards'[d] \ exposed' : card \in images'[d] \/ card[1] \in unanswered
    <2>1. cards'[d] \ cards[d] \subseteq images'[d]
        BY <1>1 DEF PersistCard, PersistRollsBack, DeckInv, TypeOK, dbVars
    <2>2. \A card \in cards[d] \ exposed : card \in images[d] \/ card[1] \in unanswered
        BY <1>1 DEF PlayInv, CardsHaveImages
    <2> HIDE DEF d
    <2> QED
        BY <2>1, <2>2, <1>12
<1>8. OneTask' /\ OneMover' /\ CardsHaveImages'
    <2>1. CardsHaveImages'
        BY <1>1, <1>3, <1>7, <1>12 DEF PlayInv, CardsHaveImages
    <2>3. OneMover'
        BY <1>1 DEF PlayInv, OneMover, HasMoved
    <2>2. OneTask'
        BY <1>1, <1>5 DEF PlayInv, OneTask, Builders, DeckInv, TypeOK
    <2> QED
        BY <2>1, <2>2, <2>3
<1>9. \A e \in Decks : Growing(e)' /\ Complete(e)'
    <2> TAKE e \in Decks
    <2>1. CASE e = d
        BY <2>1, <1>1, <1>4, <1>5 DEF PlayInv, Growing, Complete, Begun, Playable
    <2>2. CASE e # d
        BY <2>2, <1>1, <1>3, <1>4, <1>12 DEF PlayInv, Growing, Complete, Begun, Playable, Own
    <2> QED
        BY <2>1, <2>2
<1>10. \A x \in Builders : Persisted(x)'
    <2> TAKE x \in Builders
    <2>1. \A c \in built'[x] : c \in built[x] \/ (x = b /\ c = arg[b] /\ <<b, arg[b]>> \in cards'[d])
        <3>1. CASE built' = built
            BY <3>1
        <3>2. CASE built' # built
            <4>1. <<b, arg[b]>> \in cards'[d] /\ built' = [built EXCEPT ![b] = @ \cup {arg[b]}]
                BY <1>5, <1>6, <3>2
            <4> HIDE DEF d
            <4> QED
                BY <4>1 DEF DeckInv, TypeOK
        <3> QED
            BY <3>1, <3>2
    <2>2. Progressive(x) => deck[x] \in Decks /\ cards[deck[x]] \subseteq cards'[deck[x]]
        BY <1>3, <1>5, ConstantsAssumption DEF Progressive
    <2> QED
        BY <1>1, <1>4, <2>1, <2>2 DEF PlayInv, Persisted
<1>11. \A x \in Builders : Moved(x)'
    <2> SUFFICES ASSUME NEW x \in Builders, HasMoved(x)' PROVE Moved(x)'
        BY DEF Moved, HasMoved
    <2>1. HasMoved(x) /\ pc'[x] = pc[x] /\ deck[x] \in Decks
        BY <1>1 DEF DeckInv, TypeOK, Agents, HasMoved
    <2>2. CASE deck[x] = d
        <3>1. pc[x] = "undo_moved" /\ CleanupDue(d)
            BY <1>2, <2>1, <2>2 DEF HasMoved, CleanupDue
        <3>2. /\ Own(x) \subseteq images[d]
              /\ \A card \in cards[d] \ exposed : card[1] \in unanswered
            BY <2>1, <2>2, <3>1 DEF PlayInv, Moved
        <3>3. Own(x)' = Own(x) /\ deck'[x] = d
            BY <1>1, <2>2 DEF Own
        <3> HIDE DEF d
        <3> QED
            BY <1>1, <1>12, <2>1, <3>1, <3>2, <3>3 DEF Moved, HasMoved
    <2>3. CASE deck[x] # d
        BY <1>1, <1>3, <1>12, <2>1, <2>3 DEF PlayInv, Moved, HasMoved, Own
    <2> QED
        BY <2>2, <2>3
<1>13. \A x \in Builders : Unheard(x)'
    BY <1>1 DEF PlayInv, Unheard, Begun
<1> QED
    BY <1>8, <1>9, <1>10, <1>11, <1>13 DEF PlayInv

\* A finished progressive deck has exactly the cards of its task.
LEMMA FinalizeKeepsPlayable ==
    ASSUME DeckInv, PlayInv, NEW b \in Builders, FinalizeDeck(b)
    PROVE  PlayInv'
<1> DEFINE d == deck[b]
<1>1. /\ b \in Agents /\ d \in Decks /\ Progressive(b) /\ built[b] = Concepts /\ status[d] = "generating"
      /\ UNCHANGED <<deck, cards, images, built, exposed, unanswered>> /\ pc'[b] = "done"
      /\ \A x \in Builders \ {b} : pc'[x] = pc[x]
      /\ status' = [status EXCEPT ![d] = "ready"] /\ decoyed' = [decoyed EXCEPT ![d] = cards[d] \cap Own(b)]
    BY GotoEffect, ConstantsAssumption
    DEF FinalizeDeck, AllBuilt, SetStatus, DeckInv, TypeOK, Progressive, Agents, fileVars,
        history
<1>2. Own(b) \subseteq cards[d]
    BY <1>1 DEF PlayInv, Persisted, Own
<1>3. cards[d] \subseteq Own(b)
    <2> SUFFICES ASSUME NEW card \in cards[d] PROVE card \in Own(b)
        OBVIOUS
    <2>1. PICK x \in Builders, c \in Concepts : card = <<x, c>>
        BY <1>1 DEF DeckInv, TypeOK, Card
    <2>2. Progressive(x) /\ deck[x] = d
        BY <1>1, <2>1 DEF PlayInv, Growing, Begun
    <2>3. x = b
        BY <1>1, <2>2, ConstantsAssumption DEF PlayInv, OneTask, Progressive
    <2> QED
        BY <2>1, <2>3 DEF Own
<1>4. cards'[d] = Own(b) /\ decoyed'[d] = Own(b)
    BY <1>1, <1>2, <1>3 DEF DeckInv, TypeOK
<1>5. \A e \in Decks \ {d} : status'[e] = status[e] /\ decoyed'[e] = decoyed[e]
    BY <1>1 DEF DeckInv, TypeOK
<1>6. \A e \in Decks : Growing(e)' /\ Complete(e)'
    <2> TAKE e \in Decks
    <2>1. CASE e = d
        BY <2>1, <1>1, <1>4 DEF Growing, Complete, Begun, Own, DeckInv, TypeOK
    <2>2. CASE e # d
        BY <2>2, <1>1, <1>5 DEF PlayInv, Growing, Complete, Begun, Playable, Own, Progressive
    <2> QED
        BY <2>1, <2>2
<1>7. OneTask' /\ OneMover' /\ CardsHaveImages' /\ \A x \in Builders : Persisted(x)' /\ Moved(x)'
    BY <1>1 DEF PlayInv, OneTask, OneMover, HasMoved, CardsHaveImages, Persisted, Moved, Progressive, Own, Builders
<1>8. \A x \in Builders : Unheard(x)'
    BY <1>1, <1>5 DEF PlayInv, Unheard, Begun, DeckInv, TypeOK
<1> QED
    BY <1>6, <1>7, <1>8 DEF PlayInv

\* Without concepts there are no cards.
LEMMA NoConcepts == Concepts = {} => Card = {} /\ \A b \in Builders : Own(b) = {}
    BY DEF Card, Own

\* The locked part of publish, and the removal of what it moved.
LEMMA MoveKeepsPlayable ==
    ASSUME DeckInv, PlayInv, NEW b \in Builders, MoveImages(b)
    PROVE  PlayInv'
<1> DEFINE d == deck[b]
<1>1. /\ b \in Agents /\ d \in Decks /\ images[d] = {} /\ pc[b] = "inserting" /\ pc'[b] = "moved"
      /\ UNCHANGED <<status, deck, cards, decoyed, built, exposed, unanswered>>
      /\ images' = [images EXCEPT ![d] = Own(b)]
      /\ \A x \in Builders \ {b} : pc'[x] = pc[x]
    BY GotoEffect DEF MoveImages, DeckInv, TypeOK, Agents, dbVars, history
<1>2. images'[d] = Own(b) /\ \A e \in Decks \ {d} : images'[e] = images[e]
    BY <1>1 DEF DeckInv, TypeOK
<1>3. cards[d] \subseteq exposed
    <2> SUFFICES ASSUME NEW card \in cards[d], card \notin exposed PROVE FALSE
        OBVIOUS
    <2>1. card[1] \in unanswered
        BY <1>1 DEF PlayInv, CardsHaveImages
    <2>2. PICK x \in Builders, c \in Concepts : card = <<x, c>>
        BY <1>1 DEF DeckInv, TypeOK, Card
    <2>3. Begun(d)
        BY <1>1 DEF DeckInv, PublishOK, InPublish, Begun
    <2>4. deck[x] = d
        BY <1>1, <2>2, <2>3 DEF PlayInv, Growing
    <2> QED
        BY <2>1, <2>2, <2>3, <2>4 DEF PlayInv, Unheard
<1>4. \A x \in Builders \ {b} : HasMoved(x) /\ deck[x] = d => Concepts = {}
    <2> SUFFICES ASSUME NEW x \in Builders \ {b}, HasMoved(x), deck[x] = d, NEW c \in Concepts
                 PROVE  FALSE
        OBVIOUS
    <2>1. <<x, c>> \in Own(x) /\ Own(x) \subseteq images[d]
        BY DEF PlayInv, Moved, Own
    <2> QED
        BY <1>1, <2>1
<1>5. OneMover'
    BY <1>1, <1>4 DEF PlayInv, OneMover, HasMoved
<1>6. \A x \in Builders : Moved(x)'
    <2> TAKE x \in Builders
    <2>1. CASE x = b
        BY <1>1, <1>2, <1>3, <2>1 DEF Moved, HasMoved, Own
    <2>2. CASE x # b /\ HasMoved(x) /\ deck[x] = d
        BY <1>1, <1>4, <2>2, NoConcepts DEF PlayInv, Moved, HasMoved, Own
    <2>3. CASE x # b /\ ~(HasMoved(x) /\ deck[x] = d)
        <3>1. HasMoved(x) => deck[x] \in Decks \ {d}
            BY <2>3 DEF HasMoved, DeckInv, TypeOK, Agents
        <3> QED
            BY <1>1, <1>2, <2>3, <3>1 DEF PlayInv, Moved, HasMoved, Own
    <2> QED
        BY <2>1, <2>2, <2>3
<1>7. CardsHaveImages'
    BY <1>1, <1>2, <1>3 DEF PlayInv, CardsHaveImages
<1>8. OneTask' /\ \A x \in Builders : Persisted(x)' /\ Unheard(x)'
    BY <1>1 DEF PlayInv, OneTask, Persisted, Progressive, Builders, Unheard, Begun
<1>9. \A e \in Decks : Growing(e)' /\ Complete(e)'
    BY <1>1 DEF PlayInv, Growing, Complete, Begun, Playable, Own, Progressive
<1> QED
    BY <1>5, <1>6, <1>7, <1>8, <1>9 DEF PlayInv

LEMMA CommitKeepsPlayable ==
    ASSUME DeckInv, PlayInv, NEW b \in Builders, CommitPublish(b) \/ CommitUnanswered(b)
    PROVE  PlayInv'
<1> DEFINE d == deck[b]
<1>1. /\ b \in Agents /\ d \in Decks /\ pc[b] = "moved"
      /\ UNCHANGED <<deck, images, built, exposed>>
      /\ \A x \in Builders \ {b} : pc'[x] = pc[x]
      /\ pc'[b] = "done" \/ (pc'[b] = "undo_moved" /\ b \in unanswered')
      /\ unanswered \subseteq unanswered' /\ unanswered' \subseteq unanswered \cup {b}
      /\ Own(b) \subseteq images[d] /\ cards[d] \subseteq exposed
    BY GotoEffect
    DEF CommitPublish, CommitUnanswered, Published, DeckInv, TypeOK, Agents, fileVars, PlayInv, Moved, HasMoved
<1>2. Begun(d) /\ decoyed[d] = {}
    BY <1>1 DEF DeckInv, PublishOK, InPublish, Begun, PlayInv, Growing
<1>3. /\ cards'[d] = cards[d] \cup Own(b) /\ decoyed'[d] = Own(b) /\ status'[d] = FinalStatus(b)
      /\ \A e \in Decks \ {d} : cards'[e] = cards[e] /\ decoyed'[e] = decoyed[e] /\ status'[e] = status[e]
    BY <1>1, <1>2 DEF CommitPublish, CommitUnanswered, Published, SetStatus, DeckInv, TypeOK
<1>4. FinalStatus(b) \in {"ready", "live"}
    BY ConstantsAssumption DEF FinalStatus
<1>5. \A e \in Decks : Growing(e)' /\ Complete(e)'
    <2> TAKE e \in Decks
    <2>1. CASE e = d
        <3>1. cards'[d] \cap exposed = {} => cards'[d] = Own(b)
            BY <1>1, <1>3
        <3> QED
            BY <2>1, <1>1, <1>3, <1>4, <3>1 DEF Growing, Complete, Begun, Own
    <2>2. CASE e # d
        BY <2>2, <1>1, <1>3 DEF PlayInv, Growing, Complete, Begun, Playable, Own, Progressive
    <2> QED
        BY <2>1, <2>2
<1>6. \A x \in Builders : Moved(x)'
    <2> TAKE x \in Builders
    <2>1. CASE x = b
        <3>1. \A card \in cards'[d] \ exposed : card[1] = b
            BY <1>1, <1>3 DEF Own
        <3> QED
            BY <2>1, <1>1, <3>1 DEF Moved, HasMoved, Own
    <2>2. CASE x # b /\ HasMoved(x) /\ deck[x] = d
        <3>1. Own(b) = {}
            BY <1>1, <2>2, NoConcepts DEF PlayInv, OneMover, HasMoved
        <3>2. cards'[d] = cards[d]
            BY <1>3, <3>1
        <3> QED
            BY <1>1, <2>2, <3>2 DEF PlayInv, Moved, HasMoved, Own
    <2>3. CASE x # b /\ ~(HasMoved(x) /\ deck[x] = d)
        <3>1. HasMoved(x) => deck[x] \in Decks \ {d}
            BY <2>3 DEF HasMoved, DeckInv, TypeOK, Agents
        <3> QED
            BY <1>1, <1>3, <2>3, <3>1 DEF PlayInv, Moved, HasMoved, Own
    <2> QED
        BY <2>1, <2>2, <2>3
<1>7. \A x \in Builders : Persisted(x)'
    <2>1. \A x \in Builders : Progressive(x) => deck[x] \in Decks /\ cards[deck[x]] \subseteq cards'[deck[x]]
        BY <1>1, <1>3, ConstantsAssumption DEF Progressive
    <2> QED
        BY <1>1, <2>1 DEF PlayInv, Persisted, Progressive
<1>8. CardsHaveImages'
    BY <1>1, <1>3 DEF PlayInv, CardsHaveImages
<1>9. OneTask' /\ OneMover'
    BY <1>1 DEF PlayInv, OneTask, OneMover, HasMoved, Builders
<1>10. \A x \in Builders : Unheard(x)'
    BY <1>1, <1>3, <1>4 DEF PlayInv, Unheard, Begun
<1> QED
    BY <1>5, <1>6, <1>7, <1>8, <1>9, <1>10 DEF PlayInv

\* rmtree takes away images that no card row shows, or that an exception covers.
LEMMA UndoKeepsPlayable ==
    ASSUME DeckInv, PlayInv, NEW b \in Builders, UndoPublish(b), pc[b] = "undo_moved"
    PROVE  PlayInv'
<1> DEFINE d == deck[b]
<1>1. /\ b \in Agents /\ d \in Decks /\ pc'[b] = "failing"
      /\ UNCHANGED <<deck, status, cards, decoyed, built, exposed, unanswered>>
      /\ \A x \in Builders \ {b} : pc'[x] = pc[x]
      /\ \A card \in cards[d] \ exposed : card[1] \in unanswered
    BY GotoEffect DEF UndoPublish, DeckInv, TypeOK, Agents, dbVars, history, PlayInv, Moved
<1>2. images'[d] = {} /\ \A e \in Decks \ {d} : images'[e] = images[e]
    BY <1>1 DEF UndoPublish, CreatedDir, DeckInv, TypeOK
<1>3. \A x \in Builders : Moved(x)'
    <2> SUFFICES ASSUME NEW x \in Builders \ {b}, HasMoved(x) PROVE Moved(x)'
        BY <1>1 DEF Moved, HasMoved
    <2>1. deck[x] \in Decks
        BY DEF HasMoved, DeckInv, TypeOK, Agents
    <2>2. CASE deck[x] = d
        <3>1. Own(x) = {}
            BY <2>2, NoConcepts DEF PlayInv, OneMover, HasMoved
        <3> QED
            BY <1>1, <3>1 DEF PlayInv, Moved, HasMoved, Own
    <2>3. CASE deck[x] # d
        BY <1>1, <1>2, <2>1, <2>3 DEF PlayInv, Moved, HasMoved, Own
    <2> QED
        BY <2>2, <2>3
<1>4. OneTask' /\ OneMover' /\ CardsHaveImages' /\ \A x \in Builders : Persisted(x)' /\ Unheard(x)'
    BY <1>1, <1>2
    DEF PlayInv, OneTask, OneMover, HasMoved, CardsHaveImages, Persisted, Unheard, Begun, Progressive, Builders
<1>5. \A e \in Decks : Growing(e)' /\ Complete(e)'
    BY <1>1 DEF PlayInv, Growing, Complete, Begun, Playable, Own, Progressive
<1> QED
    BY <1>3, <1>4, <1>5 DEF PlayInv

LEMMA OtherStepsKeepPlayable ==
    ASSUME DeckInv, PlayInv, NEW b \in Builders,
           \/ BuildFails(b) \/ \E c \in Concepts : MakeDir(b, c)
           \/ StageImages(b) \/ LockDeck(b) \/ PublishRaises(b)
           \/ UndoPublish(b) /\ pc[b] # "undo_moved"
           \/ MarkFailed(b) \/ MarkingFails(b) \/ ServiceMarksFailed(b) \/ BuilderDies(b)
    PROVE  PlayInv'
<1>1. b \in Agents /\ UNCHANGED <<cards, decoyed, images, built, deck, history>>
    BY DEF BuildFails, MakeDir, StageImages, LockDeck, PublishRaises, UndoPublish, CreatedDir, MarkFailed, MarkingFails,
           ServiceMarksFailed, BuilderDies, Agents, dbVars, fileVars
<1>2. PICK label : /\ Goto(b, label) /\ label \notin {"idle", "moved"}
                   /\ label = "persisting" => Progressive(b)
                   /\ label = "undo_moved" => HasMoved(b)
    BY DEF BuildFails, MakeDir, StageImages, LockDeck, PublishRaises, UndoPublish, MarkFailed, MarkingFails,
           ServiceMarksFailed, BuilderDies, Raise, HasMoved
<1>3. \A x \in Builders : x # b => pc'[x] = pc[x]
    BY <1>1, <1>2, GotoEffect DEF DeckInv, Agents
<1>4. pc'[b] = label
    BY <1>1, <1>2, GotoEffect DEF DeckInv
<1>5. \A d \in Decks :
          /\ status'[d] \in {"absent", "generating"} => status[d] \in {"absent", "generating"}
          /\ status'[d] \in {"ready", "live"} => status[d] \in {"ready", "live"}
    BY DEF BuildFails, MakeDir, StageImages, LockDeck, PublishRaises, UndoPublish, MarkFailed, MarkingFails,
           ServiceMarksFailed, KeptByService, Fresh, BuilderDies, SetStatus, Begun, Playable, dbVars,
           DeckInv, TypeOK
<1>6. CardsStay
    BY <1>1, <1>2, <1>3, <1>4, <1>5 DEF CardsStay, HasMoved
<1> QED
    BY <1>6, CardsAlone

LEMMA AdminsKeepPlayable ==
    ASSUME DeckInv, PlayInv, NEW a \in Admins, AdminStep(a)
    PROVE  PlayInv'
<1>1. a \in Agents /\ \A b \in Builders : b \in Agents \ {a}
    BY ConstantsAssumption DEF Agents
<1>2. UNCHANGED <<cards, decoyed, images, built, history>>
    BY DEF AdminStep, Activate, SelectTarget, RefuseTarget, DemoteOthers, PromoteDeck, ActivationLost,
           EndActivation, dbVars, fileVars
<1>3. \A b \in Builders : pc'[b] = pc[b] /\ deck'[b] = deck[b]
    BY <1>1
    DEF AdminStep, Activate, SelectTarget, RefuseTarget, DemoteOthers, PromoteDeck, ActivationLost,
        EndActivation, Goto, DeckInv, TypeOK
<1>4. \A d \in Decks :
          /\ status'[d] \in {"absent", "generating"} => status[d] \in {"absent", "generating"}
          /\ status'[d] \in {"ready", "live"} => status[d] \in {"ready", "live"}
    <2>1. CASE PromoteDeck(a)
        <3>1. status[deck[a]] \in {"ready", "live"} /\ \A d \in demoted[a] : status[d] = "live"
            BY <2>1 DEF PromoteDeck, DeckInv, ActivationOK, HoldsTarget, LiveDecks
        <3> QED
            BY <2>1, <3>1 DEF PromoteDeck, Begun, Playable
    <2>2. CASE status' = status
        BY <2>2 DEF Begun, Playable
    <2> QED
        BY <2>1, <2>2
        DEF AdminStep, Activate, SelectTarget, RefuseTarget, DemoteOthers, ActivationLost, dbVars
<1>5. CardsStay
    BY <1>2, <1>3, <1>4 DEF CardsStay, HasMoved
<1> QED
    BY <1>5, CardsAlone

LEMMA PlayStep ==
    ASSUME DeckInv, PlayInv, [Next]_vars
    PROVE  PlayInv'
<1>0. ASSUME NEW b \in Builders, NEW d \in Decks,
             (b \in Tasks /\ StartGeneration(b, d)) \/ (b \in Clis /\ RunDeckgen(b, d))
      PROVE  PlayInv'
    BY <1>0, StartKeepsPlayable
<1>1. CASE \/ \E b \in Tasks, d \in Decks : StartGeneration(b, d)
           \/ \E b \in Clis, d \in Decks : RunDeckgen(b, d)
    BY <1>0, <1>1 DEF Builders
<1>2. CASE \E b \in Builders : BuilderStep(b)
    BY <1>2, PersistKeepsPlayable, FinalizeKeepsPlayable, MoveKeepsPlayable, CommitKeepsPlayable,
       UndoKeepsPlayable, OtherStepsKeepPlayable DEF BuilderStep
<1>3. CASE \E a \in Admins : AdminStep(a)
    BY <1>3, AdminsKeepPlayable
<1>4. CASE UNCHANGED vars
    <2>1. CardsStay
        BY <1>4 DEF vars, CardsStay, HasMoved, history
    <2> QED
        BY <2>1, CardsAlone
<1> QED
    BY <1>1, <1>2, <1>3, <1>4 DEF Next

\* Whoever else builds the same deck, fails after any step or is lost, a deck that can
\* be played has every card once, with its decoys and its image; an image is missing
\* only of a card persisted while the cleanup of another builder's failed publish was
\* due, or of a publish whose COMMIT had no answer (publish.py, persist_card and publish).
THEOREM PlayableDecks == Spec => []DecksPlayable
<1>1. PlayInv => DecksPlayable
    <2> SUFFICES ASSUME PlayInv PROVE ReadyDeckComplete
        BY DEF DecksPlayable, PlayInv
    <2> SUFFICES ASSUME NEW d \in Decks, Playable(d), cards[d] \cap exposed = {}
                 PROVE  /\ \A c \in Concepts : \E card \in cards[d] :
                               card[2] = c /\ \A other \in cards[d] : other[2] = c => other = card
                        /\ decoyed[d] = cards[d]
        BY DEF ReadyDeckComplete, Playable
    <2>1. PICK b \in Builders : cards[d] = Own(b) /\ decoyed[d] = Own(b)
        BY DEF PlayInv, Complete
    <2>2. \A c \in Concepts : <<b, c>> \in cards[d]
        BY <2>1 DEF Own
    <2>3. \A card \in cards[d] : card = <<b, card[2]>>
        BY <2>1 DEF Own
    <2> QED
        BY <2>1, <2>2, <2>3
<1>2. DeckInv /\ PlayInv /\ [Next]_vars => PlayInv'
    BY PlayStep
<1> QED
    BY <1>1, <1>2, PlayInit, DeckInvariant, PTL DEF Spec

=============================================================================
