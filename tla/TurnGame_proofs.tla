--------------------------- MODULE TurnGame_proofs ---------------------------
(* Proofs about TurnGame, for any players, handlers, clips, caps and bounds. *)
EXTENDS TurnGame, FiniteSetTheorems, TLAPS

-----------------------------------------------------------------------------
(* What the two bookkeeping operators do to the handlers' variables. *)

\* A handler that answers is idle and the other handlers are as they were.
LEMMA ReplyEffect ==
    ASSUME TypeOK, NEW r \in Reqs, Reply(r)
    PROVE  /\ pc' \in [Reqs -> Pcs] /\ who' \in [Reqs -> Players]
           /\ arg' \in [Reqs -> Clips \cup {NoArg, "right", "wrong"}]
           /\ turn' \in [Reqs -> 0..MaxTurns]
           /\ pc'[r] = "idle"
           /\ \A s \in Reqs \ {r} : pc'[s] = pc[s] /\ arg'[s] = arg[s] /\ turn'[s] = turn[s]
    BY ConstantsAssumption DEF Reply, TypeOK, Pcs, Players

\* A handler that moves on changes only its own program counter.
LEMMA GotoEffect ==
    ASSUME TypeOK, NEW r \in Reqs, NEW label \in Pcs, Goto(r, label)
    PROVE  /\ pc' \in [Reqs -> Pcs]
           /\ pc'[r] = label
           /\ \A s \in Reqs \ {r} : pc'[s] = pc[s]
    BY DEF Goto, TypeOK

\* The created turns are among the turns of the model.
LEMMA CreatedTurns == TypeOK => nturns \in Nat /\ Created \subseteq Turns
    BY ConstantsAssumption DEF TypeOK, Created, Turns

\* Every label is a program counter.
LEMMA Labels ==
    /\ "idle" \in Pcs /\ UploadPcs \subseteq Pcs /\ ConfirmPcs \subseteq Pcs
    /\ GuessPcs \subseteq Pcs /\ AfterScoredPcs \subseteq Pcs
    BY DEF Pcs

-----------------------------------------------------------------------------
\* Every step keeps the types.
LEMMA TypeStep == TypeOK /\ [Next]_vars => TypeOK'
<1> SUFFICES ASSUME TypeOK, [Next]_vars PROVE TypeOK'
    OBVIOUS
<1> USE DEF turnVars, storeVars, handlerVars
<1>0. /\ nturns \in Nat /\ MaxTurns \in Nat
      /\ Created \subseteq Turns
    BY ConstantsAssumption DEF TypeOK, Created, Turns
<1>1. ASSUME NEW r \in Reqs, NEW p \in Players, NEW label \in {"up_turn", "cf_turn", "gs_turn"},
             NEW a \in Clips \cup {NoArg, "right", "wrong"}, label = "up_turn" => a \in Clips,
             Arrive(r, p, a, label)
      PROVE  TypeOK'
    <2>1. label \in Pcs
        BY DEF Pcs, UploadPcs, ConfirmPcs, GuessPcs
    <2>2. \A s \in Reqs : HandlerOK(s)'
        BY <1>1, <2>1, GotoEffect DEF Arrive, TypeOK, HandlerOK, UploadPcs, Created
    <2> QED
        BY <1>1, <2>1, <2>2, GotoEffect DEF Arrive, TypeOK
<1>2. ASSUME NEW r \in Reqs, Reply(r), UNCHANGED storeVars PROVE TypeOK'
    <2>1. \A s \in Reqs : HandlerOK(s)'
        BY <1>2, ReplyEffect DEF TypeOK, HandlerOK, UploadPcs, Created
    <2> QED
        BY <1>2, <2>1, ReplyEffect DEF TypeOK
<1>3. ASSUME NEW r \in Reqs, NEW t \in Created, NEW label \in {"up_check", "cf_apply", "gs_apply"},
             label = "up_check" => arg[r] \in Clips, ReadTurn(r, t, label),
             file' \in [Turns -> Clips \cup {NoFile}],
             UNCHANGED <<turnVars, triageJobs, packageJobs, validatedPairs>>
      PROVE  TypeOK'
    <2>1. label \in Pcs /\ Goto(r, label)
        BY <1>3 DEF Pcs, UploadPcs, ConfirmPcs, GuessPcs, ReadTurn
    <2>2. turn' \in [Reqs -> 0..MaxTurns] /\ turn'[r] = t
        BY <1>3, <1>0, ConstantsAssumption DEF ReadTurn, TypeOK, Turns
    <2>3. \A s \in Reqs : HandlerOK(s)'
        BY <1>3, <2>1, <2>2, GotoEffect DEF ReadTurn, TypeOK, HandlerOK, UploadPcs, Created
    <2> QED
        BY <1>3, <2>1, <2>2, <2>3, GotoEffect DEF ReadTurn, TypeOK
<1>4. ASSUME NEW r \in Reqs, pc[r] \notin {"idle", "up_turn", "cf_turn", "gs_turn"},
             NEW label \in {"up_accept", "up_unlink", "up_enqueue"} \cup AfterScoredPcs,
             label \in UploadPcs => pc[r] \in UploadPcs,
             Goto(r, label), UNCHANGED <<nturns, who, arg, turn>>
      PROVE  /\ pc' \in [Reqs -> Pcs]
             /\ \A s \in Reqs : HandlerOK(s)'
    <2>1. label \in Pcs
        BY Labels DEF UploadPcs
    <2> QED
        BY <1>4, <2>1, GotoEffect DEF TypeOK, HandlerOK, Created
<1>5. ASSUME NEW r \in Reqs, Refused(r) \/ UpdateMatchesNoRow(r) \/ HandlerDies(r) PROVE TypeOK'
    BY <1>5, <1>2 DEF Refused, UpdateMatchesNoRow, HandlerDies, GivesUp
<1>6. ASSUME NEW r \in Reqs, Arrival(r) PROVE TypeOK'
    BY <1>6, <1>1 DEF Arrival, UploadArrives, ConfirmArrives, GuessArrives
<1>7. ASSUME NEW r \in Reqs, UploadWrites(r) PROVE TypeOK'
    <2>1. arg[r] \in Clips
        BY <1>7 DEF UploadWrites, TypeOK, HandlerOK, UploadPcs
    <2>2. file' \in [Turns -> Clips \cup {NoFile}]
        BY <1>7, <2>1, <1>0 DEF UploadWrites, TypeOK
    <2> QED
        BY <1>7, <2>1, <2>2, <1>3 DEF UploadWrites
<1>8. ASSUME NEW r \in Reqs, UploadChecks(r) PROVE TypeOK'
    BY <1>8, <1>4 DEF UploadChecks, TypeOK, UploadPcs
<1>9. ASSUME NEW r \in Reqs, UploadRejected(r) PROVE TypeOK'
    <2>1. \A s \in Reqs : HandlerOK(s)'
        BY <1>9, ReplyEffect DEF UploadRejected, TypeOK, HandlerOK, UploadPcs, Created
    <2> QED
        BY <1>9, <2>1, ReplyEffect DEF UploadRejected, TypeOK
<1>10. ASSUME NEW r \in Reqs, AcceptAudio(r) PROVE TypeOK'
    <2>1. pc' \in [Reqs -> Pcs] /\ \A s \in Reqs : HandlerOK(s)'
        BY <1>10, <1>4 DEF RowIn, AcceptAudio, UploadPcs
    <2> QED
        BY <1>10, <2>1 DEF RowIn, AcceptAudio, TypeOK, TurnStatuses
<1>11. ASSUME NEW r \in Reqs, EnqueueTriage(r) PROVE TypeOK'
    <2>1. \A s \in Reqs : HandlerOK(s)'
        BY <1>11, ReplyEffect DEF EnqueueTriage, TypeOK, HandlerOK, UploadPcs, Created
    <2>2. turn[r] \in Turns
        BY <1>11, <1>0 DEF EnqueueTriage, TypeOK, HandlerOK
    <2> QED
        BY <1>11, <2>1, <2>2, ReplyEffect DEF EnqueueTriage, TypeOK
<1>12. ASSUME NEW r \in Reqs, ConfirmReadsTurn(r) \/ GuessReadsTurn(r) PROVE TypeOK'
    BY <1>12, <1>3 DEF ConfirmReadsTurn, GuessReadsTurn, TypeOK
<1>13. ASSUME NEW r \in Reqs, ConfirmLabel(r) PROVE TypeOK'
    <2>1. \A s \in Reqs : HandlerOK(s)'
        BY <1>13, ReplyEffect DEF RowIn, ConfirmLabel, TypeOK, HandlerOK, UploadPcs, Created
    <2> QED
        BY <1>13, <2>1, ReplyEffect DEF RowIn, ConfirmLabel, TypeOK, TurnStatuses
<1>14. ASSUME NEW r \in Reqs, GuessScores(r) PROVE TypeOK'
    <2>1. pc' \in [Reqs -> Pcs] /\ \A s \in Reqs : HandlerOK(s)'
        BY <1>14, <1>4 DEF RowIn, GuessScores, AfterScoredPcs, UploadPcs
    <2>2. PICK a \in Nat : attempts' = [attempts EXCEPT ![turn[r]] = a]
        <3>1. attempts[turn[r]] + 1 \in Nat
            BY <1>14, <1>0 DEF RowIn, GuessScores, TypeOK, HandlerOK
        <3> QED
            BY <1>14, <3>1 DEF RowIn, GuessScores
    <2>3. attempts' \in [Turns -> Nat]
        BY <2>2 DEF TypeOK
    <2>4. validatedPairs' \in Nat
        BY <1>14 DEF RowIn, GuessScores, TypeOK
    <2>5. /\ status' \in [Turns -> TurnStatuses]
          /\ outcome' \in [Turns -> {"pending", "validated", "unclear"}]
        BY <1>14 DEF RowIn, GuessScores, TypeOK, TurnStatuses
    <2> QED
        BY <1>14, <2>1, <2>3, <2>4, <2>5 DEF RowIn, GuessScores, TypeOK
<1>15. ASSUME NEW r \in Reqs, GuessMisses(r) PROVE TypeOK'
    <2>1. \A s \in Reqs : HandlerOK(s)'
        BY <1>15, ReplyEffect DEF RowIn, GuessMisses, TypeOK, HandlerOK, UploadPcs, Created
    <2>2. PICK a \in Nat : attempts' = [attempts EXCEPT ![turn[r]] = a]
        <3>1. attempts[turn[r]] + 1 \in Nat
            BY <1>15, <1>0 DEF RowIn, GuessMisses, TypeOK, HandlerOK
        <3> QED
            BY <1>15, <3>1 DEF RowIn, GuessMisses
    <2>3. attempts' \in [Turns -> Nat]
        BY <2>2 DEF TypeOK
    <2> QED
        BY <1>15, <2>1, <2>3, ReplyEffect DEF RowIn, GuessMisses, TypeOK
<1>16. ASSUME NEW r \in Reqs, ReadsFreshQuality(r) PROVE TypeOK'
    <2>1. pc' \in [Reqs -> Pcs] /\ \A s \in Reqs : HandlerOK(s)'
        BY <1>16, <1>4 DEF QualityStored, ReadsFreshQuality, AfterScoredPcs, UploadPcs
    <2> QED
        BY <1>16, <2>1 DEF QualityStored, ReadsFreshQuality, TypeOK
<1>17. ASSUME NEW r \in Reqs, EnqueuePackage(r) PROVE TypeOK'
    <2>1. pc' \in [Reqs -> Pcs] /\ \A s \in Reqs : HandlerOK(s)'
        BY <1>17, <1>4 DEF EnqueuePackage, AfterScoredPcs, UploadPcs
    <2>2. turn[r] \in Turns
        BY <1>17, <1>0 DEF EnqueuePackage, TypeOK, HandlerOK
    <2> QED
        BY <1>17, <2>1, <2>2 DEF EnqueuePackage, TypeOK
<1>18. ASSUME NEW r \in Reqs, CompletePairIfCapped(r) PROVE TypeOK'
    <2>1. CASE Reply(r)
        <3>1. \A s \in Reqs : HandlerOK(s)'
            BY <1>18, <2>1, ReplyEffect DEF CompletePairIfCapped, TypeOK, HandlerOK, UploadPcs, Created
        <3> QED
            BY <1>18, <2>1, <3>1, ReplyEffect DEF CompletePairIfCapped, TypeOK
    <2>2. CASE Goto(r, "gs_card") /\ UNCHANGED <<pairStatus, who, arg, turn>>
        <3>1. pc' \in [Reqs -> Pcs] /\ \A s \in Reqs : HandlerOK(s)'
            BY <1>18, <2>2, <1>4 DEF CompletePairIfCapped, AfterScoredPcs, UploadPcs
        <3> QED
            BY <1>18, <2>2, <3>1 DEF CompletePairIfCapped, TypeOK
    <2> QED
        BY <1>18, <2>1, <2>2 DEF CompletePairIfCapped
<1>19. ASSUME NEW r \in Reqs, PickCardForPair(r) PROVE TypeOK'
    <2>1. CASE Goto(r, "gs_create") /\ UNCHANGED <<who, arg, turn>>
        <3>1. pc' \in [Reqs -> Pcs] /\ \A s \in Reqs : HandlerOK(s)'
            BY <1>19, <2>1, <1>4 DEF PickCardForPair, AfterScoredPcs, UploadPcs
        <3> QED
            BY <1>19, <2>1, <3>1 DEF PickCardForPair, TypeOK
    <2> QED
        BY <1>19, <2>1, <1>2 DEF PickCardForPair, GivesUp
<1>20. ASSUME NEW r \in Reqs, CreateTurn(r) PROVE TypeOK'
    <2>1. nturns' = nturns + 1 /\ nturns' \in 0..MaxTurns /\ Created \subseteq Created'
        BY <1>20, <1>0 DEF CreateTurn, Turns, Created
    <2>2. \A s \in Reqs : HandlerOK(s)'
        BY <1>20, <2>1, ReplyEffect DEF CreateTurn, TypeOK, HandlerOK, UploadPcs
    <2>3. speaker' \in [Turns -> Players] /\ status' \in [Turns -> TurnStatuses]
        BY <1>20 DEF CreateTurn, TypeOK, Other, Players, TurnStatuses
    <2> QED
        BY <1>20, <2>1, <2>2, <2>3, ReplyEffect DEF CreateTurn, TypeOK
<1>21. ASSUME NEW t \in Turns, PersistTriage(t) PROVE TypeOK'
    <2>1. \A s \in Reqs : HandlerOK(s)'
        BY <1>21 DEF PersistTriage, TypeOK, HandlerOK, Created
    <2> QED
        BY <1>21, <2>1 DEF PersistTriage, TypeOK
<1>22. CASE UNCHANGED vars
    BY <1>22 DEF vars, TypeOK, HandlerOK, Created
<1> QED
    BY <1>5, <1>6, <1>7, <1>8, <1>9, <1>10, <1>11, <1>12, <1>13, <1>14, <1>15, <1>16,
       <1>17, <1>18, <1>19, <1>20, <1>21, <1>22 DEF Next, HandlerStep
\* The rows of turns and the handlers keep their types through every step.
THEOREM TypeCorrect == Spec => []TypeOK
<1>1. Init => TypeOK
    BY ConstantsAssumption
    DEF Init, TypeOK, HandlerOK, Players, Turns, TurnStatuses, Pcs, UploadPcs
<1> QED
    BY <1>1, TypeStep, PTL DEF Spec

-----------------------------------------------------------------------------
(* The inductive invariant. *)

\* A step that creates no turn, scores none, closes no pair and lets no handler
\* into _after_scored (or past the cap check) keeps the invariant.
LEMMA QuietStep ==
    ASSUME TurnInv, TypeOK', UNCHANGED <<nturns, pairStatus, speaker>>,
           \A t \in Created : Scored(t)' <=> Scored(t),
           \A s \in Reqs : pc'[s] \in AfterScoredPcs =>
                pc[s] \in AfterScoredPcs /\ turn'[s] = turn[s],
           \A s \in Reqs : pc'[s] \in {"gs_card", "gs_create"} =>
                pc[s] \in {"gs_card", "gs_create"}
    PROVE  TurnInv'
<1>1. Created' = Created
    BY DEF Created
<1>2. AdvancerOwnsPair'
    <2> SUFFICES ASSUME NEW r \in Reqs, pc'[r] \in AfterScoredPcs
                 PROVE  /\ turn'[r] = nturns' /\ Scored(nturns)'
                        /\ pairStatus' = "active"
                        /\ \A s \in Reqs : pc'[s] \in AfterScoredPcs => s = r
        BY DEF AdvancerOwnsPair
    <2>1. turn[r] = nturns /\ Scored(nturns) /\ pairStatus = "active"
        BY DEF TurnInv, AdvancerOwnsPair
    <2>2. nturns \in Created
        BY <2>1, ConstantsAssumption
        DEF TurnInv, TypeOK, HandlerOK, AfterScoredPcs, Created
    <2>3. status'[nturns] = "scored"
        BY <2>1, <2>2 DEF Scored
    <2> QED
        BY <2>1, <2>3 DEF TurnInv, AdvancerOwnsPair, Scored
<1>3. OpenTurnIsNewest' /\ (pairStatus' = "completed" => \A t \in Created' : Scored(t)')
    BY <1>1 DEF TurnInv, OpenTurnIsNewest
<1>4. RolesAlternate' /\ RoomForNextTurn' /\ TurnsWithinCap'
    BY <1>1 DEF TurnInv, RolesAlternate, RoomForNextTurn, TurnsWithinCap, Other
<1> QED
    BY <1>2, <1>3, <1>4 DEF TurnInv

\* While a handler is in _after_scored, every turn of the pair is scored.
LEMMA AllScored ==
    ASSUME TurnInv, NEW r \in Reqs, pc[r] \in AfterScoredPcs
    PROVE  \A t \in Created : Scored(t)
    BY DEF TurnInv, AdvancerOwnsPair, OpenTurnIsNewest

\* The cap check that lets the pair go on leaves room for a turn: the count of
\* scored turns is the number of turns.
LEMMA RoomAfterCapCheck ==
    ASSUME TurnInv, NEW r \in Reqs, pc[r] = "gs_cap", ~Capped
    PROVE  nturns < RoundsCap
<1>1. pairStatus = "active" /\ \A t \in Created : Scored(t)
    BY AllScored DEF TurnInv, AdvancerOwnsPair, AfterScoredPcs
<1>2. {t \in Created : Scored(t)} = 1..nturns
    BY <1>1 DEF Created
<1>3. nturns \in Nat
    BY ConstantsAssumption DEF TurnInv, TypeOK
<1>4. Cardinality(1..nturns) = nturns
    BY <1>3, FS_Interval
<1>5. RoundsPlayed(PlayerA) = PriorRounds[PlayerA] + nturns
    BY <1>2, <1>4 DEF RoundsPlayed
<1>6. ~(RoundsPlayed(PlayerA) >= RoundsCap)
    BY <1>1 DEF Capped, Players
<1> QED
    BY <1>3, <1>5, <1>6, ConstantsAssumption DEF Players

\* A pair just matched, with its first turn or none, satisfies the invariant.
LEMMA TurnInvInit == Init => TurnInv
<1> SUFFICES ASSUME Init PROVE TurnInv
    OBVIOUS
<1>1. TypeOK
    BY ConstantsAssumption
    DEF Init, TypeOK, HandlerOK, Players, Turns, TurnStatuses, Pcs, UploadPcs
<1>2. nturns \in {0, 1} /\ \A r \in Reqs : pc[r] = "idle"
    BY DEF Init
<1>3. AdvancerOwnsPair /\ RoomForNextTurn
    BY <1>2 DEF AdvancerOwnsPair, RoomForNextTurn, AfterScoredPcs
<1>4. OpenTurnIsNewest /\ RolesAlternate
    BY <1>2 DEF OpenTurnIsNewest, RolesAlternate, Created
<1>5. TurnsWithinCap
    BY <1>2, ConstantsAssumption DEF TurnsWithinCap
<1> QED
    BY <1>1, <1>3, <1>4, <1>5 DEF TurnInv, Init

\* The invariant is inductive: one step of any handler, crash or triage keeps it.
\* Scoring takes the token of _after_scored, creating a turn gives it back.
LEMMA TurnInvStep == TurnInv /\ [Next]_vars => TurnInv'
<1> SUFFICES ASSUME TurnInv, [Next]_vars PROVE TurnInv'
    OBVIOUS
<1> USE DEF turnVars, storeVars, handlerVars
<1>0. TypeOK /\ TypeOK'
    BY TypeStep DEF TurnInv
<1>1. ASSUME NEW r \in Reqs, Arrival(r) \/ Refused(r) \/ UpdateMatchesNoRow(r) \/ HandlerDies(r)
      PROVE  TurnInv'
    BY <1>0, <1>1, QuietStep
    DEF Arrival, UploadArrives, ConfirmArrives, GuessArrives, Arrive, Refused,
        UpdateMatchesNoRow, HandlerDies, GivesUp, Goto, Reply, AfterScoredPcs, Scored, TypeOK
<1>2. ASSUME NEW r \in Reqs, UploadWrites(r) \/ ConfirmReadsTurn(r) \/ GuessReadsTurn(r)
      PROVE  TurnInv'
    BY <1>0, <1>2, QuietStep
    DEF UploadWrites, ConfirmReadsTurn, GuessReadsTurn, ReadTurn, Goto, AfterScoredPcs, Scored, TypeOK
<1>3. ASSUME NEW r \in Reqs, UploadChecks(r) \/ UploadRejected(r) \/ EnqueueTriage(r)
      PROVE  TurnInv'
    BY <1>0, <1>3, QuietStep
    DEF UploadChecks, UploadRejected, EnqueueTriage, Goto, Reply, AfterScoredPcs, Scored, TypeOK
<1>4. ASSUME NEW r \in Reqs, AcceptAudio(r) \/ ConfirmLabel(r) \/ GuessMisses(r)
      PROVE  TurnInv'
    <2>1. \A t \in Created : t \in Turns
        BY <1>0, CreatedTurns
    <2>2. \A t \in Created : Scored(t)' <=> Scored(t)
        BY <1>0, <1>4, <2>1 DEF RowIn, AcceptAudio, ConfirmLabel, GuessMisses, Scored, TypeOK
    <2> QED
        BY <1>0, <1>4, <2>2, QuietStep
        DEF RowIn, AcceptAudio, ConfirmLabel, GuessMisses, Goto, Reply, AfterScoredPcs, TypeOK
<1>5. ASSUME NEW r \in Reqs, ReadsFreshQuality(r) \/ EnqueuePackage(r) \/ PickCardForPair(r)
      PROVE  TurnInv'
    BY <1>0, <1>5, QuietStep
    DEF QualityStored, ReadsFreshQuality, EnqueuePackage, PickCardForPair, GivesUp, Goto, Reply, AfterScoredPcs, Scored, TypeOK
<1>6. ASSUME NEW t \in Turns, PersistTriage(t) PROVE TurnInv'
    BY <1>0, <1>6, QuietStep DEF PersistTriage, Scored
<1>7. CASE UNCHANGED vars
    BY <1>0, <1>7, QuietStep DEF vars, Scored
<1>8. ASSUME NEW r \in Reqs, GuessScores(r) PROVE TurnInv'
    <2>1. turn[r] \in Created /\ ~Scored(turn[r]) /\ nturns \in Nat /\ Created \subseteq Turns
        BY <1>0, <1>8, CreatedTurns DEF RowIn, GuessScores, TypeOK, HandlerOK, Scored
    <2>2. turn[r] = nturns
        BY <2>1 DEF TurnInv, OpenTurnIsNewest
    <2>3. \A s \in Reqs : pc[s] \notin AfterScoredPcs
        BY <2>1, <2>2 DEF TurnInv, AdvancerOwnsPair
    <2>4. pairStatus' = "active"
        BY <1>0, <1>8, <2>1 DEF RowIn, GuessScores, TurnInv, TypeOK
    <2>5. \A t \in Created : Scored(t)'
        <3>1. \A t \in Created : t = nturns \/ Scored(t)
            BY DEF TurnInv, OpenTurnIsNewest
        <3>2. \A t \in Created : status'[t] = IF t = nturns THEN "scored" ELSE status[t]
            BY <1>0, <1>8, <2>1, <2>2 DEF RowIn, GuessScores, TypeOK
        <3> QED
            BY <3>1, <3>2 DEF Scored
    <2>6. \A s \in Reqs : pc'[s] \in AfterScoredPcs => s = r
        BY <1>0, <1>8, <2>3 DEF RowIn, GuessScores, Goto, TypeOK
    <2>7. Created' = Created /\ nturns' = nturns /\ turn' = turn
        BY <1>8 DEF RowIn, GuessScores, Created
    <2>8. AdvancerOwnsPair'
        BY <2>1, <2>2, <2>4, <2>5, <2>6, <2>7 DEF AdvancerOwnsPair, Scored
    <2>9. OpenTurnIsNewest' /\ (pairStatus' = "completed" => \A t \in Created' : Scored(t)')
        BY <2>5, <2>7 DEF OpenTurnIsNewest
    <2>10. RoomForNextTurn'
        BY <1>0, <1>8, <2>3, <2>6 DEF RowIn, GuessScores, Goto, RoomForNextTurn, AfterScoredPcs, TypeOK
    <2>11. RolesAlternate' /\ TurnsWithinCap'
        BY <1>8, <2>7 DEF RowIn, GuessScores, TurnInv, RolesAlternate, TurnsWithinCap, Other
    <2> QED
        BY <1>0, <2>8, <2>9, <2>10, <2>11 DEF TurnInv
<1>9. ASSUME NEW r \in Reqs, CompletePairIfCapped(r) PROVE TurnInv'
    <2>1. pc[r] = "gs_cap" /\ pc[r] \in AfterScoredPcs
        BY <1>9 DEF CompletePairIfCapped, AfterScoredPcs
    <2>2. \A t \in Created : Scored(t)
        BY <2>1, AllScored
    <2>3. Created' = Created /\ nturns' = nturns /\ status' = status /\ speaker' = speaker
        BY <1>9 DEF CompletePairIfCapped, Created
    <2>4. OpenTurnIsNewest' /\ (pairStatus' = "completed" => \A t \in Created' : Scored(t)')
          /\ RolesAlternate' /\ TurnsWithinCap'
        BY <2>2, <2>3 DEF TurnInv, OpenTurnIsNewest, Scored, RolesAlternate, TurnsWithinCap, Other
    <2>5. CASE Capped /\ Reply(r)
        <3>1. \A s \in Reqs : pc'[s] \notin AfterScoredPcs
            BY <1>0, <2>1, <2>5 DEF Reply, TurnInv, AdvancerOwnsPair, AfterScoredPcs, TypeOK
        <3>2. AdvancerOwnsPair' /\ RoomForNextTurn'
            BY <3>1 DEF AdvancerOwnsPair, RoomForNextTurn, AfterScoredPcs
        <3> QED
            BY <1>0, <2>4, <3>2 DEF TurnInv
    <2>6. CASE ~Capped /\ Goto(r, "gs_card") /\ UNCHANGED <<pairStatus, who, arg, turn>>
        <3>1. nturns < RoundsCap
            BY <2>1, <2>6, RoomAfterCapCheck
        <3>2. RoomForNextTurn'
            BY <2>3, <3>1 DEF RoomForNextTurn
        <3>3. \A s \in Reqs : pc'[s] \in AfterScoredPcs => pc[s] \in AfterScoredPcs
            BY <1>0, <2>1, <2>6 DEF Goto, TypeOK
        <3>4. AdvancerOwnsPair'
            BY <2>3, <2>6, <3>3 DEF TurnInv, AdvancerOwnsPair, Scored
        <3> QED
            BY <1>0, <2>4, <3>2, <3>4 DEF TurnInv
    <2> QED
        BY <1>9, <2>5, <2>6 DEF CompletePairIfCapped
<1>10. ASSUME NEW r \in Reqs, CreateTurn(r) PROVE TurnInv'
    <2>1. pc[r] \in AfterScoredPcs /\ pc[r] \in {"gs_card", "gs_create"}
        BY <1>10 DEF CreateTurn, AfterScoredPcs
    <2>2. /\ turn[r] = nturns /\ pairStatus = "active" /\ nturns < RoundsCap
          /\ \A s \in Reqs : pc[s] \in AfterScoredPcs => s = r
          /\ \A t \in Created : Scored(t)
        BY <2>1, AllScored DEF TurnInv, AdvancerOwnsPair, RoomForNextTurn
    <2>3. nturns \in Nat /\ nturns + 1 \in Turns /\ nturns \in Created /\ Created \subseteq Turns
        BY <1>0, <1>10, <2>2, CreatedTurns DEF CreateTurn, TypeOK, HandlerOK
    <2>4. /\ nturns' = nturns + 1 /\ Created' = Created \cup {nturns + 1}
          /\ pairStatus' = pairStatus
        BY <1>10, <2>3 DEF CreateTurn, Created
    <2>5. \A s \in Reqs : pc'[s] \notin AfterScoredPcs
        BY <1>0, <1>10, <2>2 DEF CreateTurn, Reply, AfterScoredPcs, TypeOK
    <2>6. AdvancerOwnsPair' /\ RoomForNextTurn'
        BY <2>5 DEF AdvancerOwnsPair, RoomForNextTurn, AfterScoredPcs
    <2>7. \A t \in Created : Scored(t)'
        BY <1>0, <1>10, <2>2, <2>3 DEF CreateTurn, Scored, TypeOK, Created
    <2>8. OpenTurnIsNewest' /\ (pairStatus' = "completed" => \A t \in Created' : Scored(t)')
        BY <2>2, <2>4, <2>7 DEF OpenTurnIsNewest
    <2>9. /\ speaker'[nturns + 1] = Other(speaker[nturns])
          /\ \A t \in Created : speaker'[t] = speaker[t]
        BY <1>0, <1>10, <2>2, <2>3 DEF CreateTurn, TypeOK, Created
    <2>10. RolesAlternate'
        <3> SUFFICES ASSUME NEW t \in Created', t + 1 \in Created'
                     PROVE  speaker'[t + 1] = Other(speaker'[t])
            BY DEF RolesAlternate, Other
        <3>1. t \in Created
            BY <2>3, <2>4 DEF Created
        <3>2. CASE t = nturns
            BY <2>9, <3>1, <3>2
        <3>3. CASE t # nturns
            <4>1. t + 1 \in Created
                BY <2>3, <3>1, <3>3 DEF Created
            <4> QED
                BY <2>9, <3>1, <4>1 DEF TurnInv, RolesAlternate
        <3> QED
            BY <3>2, <3>3
    <2>11. TurnsWithinCap'
        BY <2>2, <2>3, <2>4, ConstantsAssumption DEF TurnsWithinCap
    <2> QED
        BY <1>0, <2>6, <2>8, <2>10, <2>11 DEF TurnInv
<1> QED
    BY <1>1, <1>2, <1>3, <1>4, <1>5, <1>6, <1>7, <1>8, <1>9, <1>10 DEF Next, HandlerStep

\* TurnInv holds in every reachable state.
THEOREM TurnInvariant == Spec => []TurnInv
    BY TurnInvInit, TurnInvStep, PTL DEF Spec

\* However many requests overlap, a pair never has two unscored turns.
THEOREM AtMostOneOpenTurn == Spec => []OneOpenTurn
<1>1. TurnInv => OneOpenTurn
    BY DEF TurnInv, OpenTurnIsNewest, OneOpenTurn
<1> QED
    BY <1>1, TurnInvariant, PTL

\* Speaker and guesser swap from every turn to the next.
THEOREM SpeakersAlternate == Spec => []RolesAlternate
<1>1. TurnInv => RolesAlternate
    BY DEF TurnInv
<1> QED
    BY <1>1, TurnInvariant, PTL

\* A pair is completed only between two rounds.
THEOREM PairCompletesBetweenRounds == Spec => []CompletedPairIsQuiet
<1>1. TurnInv => CompletedPairIsQuiet
    BY DEF TurnInv, CompletedPairIsQuiet, AdvancerOwnsPair
<1> QED
    BY <1>1, TurnInvariant, PTL

\* The rounds cap bounds the turns of a pair, with handlers overlapping or lost.
THEOREM TurnsNeverExceedCap == Spec => []TurnsWithinCap
<1>1. TurnInv => TurnsWithinCap
    BY DEF TurnInv
<1> QED
    BY <1>1, TurnInvariant, PTL

-----------------------------------------------------------------------------
(* The package job, when no handler is lost. *)

\* A step keeps PackageNotLost when it leaves scores, quality and turns alone,
\* drops no package job and moves no handler that has yet to look.
LEMMA PackageQuietStep ==
    ASSUME PackageNotLost, UNCHANGED <<nturns, quality>>,
           \A t \in Created : Scored(t)' <=> Scored(t),
           packageJobs \subseteq packageJobs',
           dropped \subseteq dropped',
           \A s \in Reqs : pc[s] \in {"gs_fresh", "gs_package"} =>
                \/ pc'[s] = pc[s] /\ turn'[s] = turn[s]
                \/ <<turn[s], "package">> \in dropped'
    PROVE  PackageNotLost'
<1> SUFFICES ASSUME NEW t \in Created, Scored(t), quality[t]
             PROVE  \/ t \in packageJobs'
                    \/ \E s \in Reqs : turn'[s] = t /\ pc'[s] \in {"gs_fresh", "gs_package"}
                    \/ <<t, "package">> \in dropped'
    BY DEF PackageNotLost, Created
<1> QED
    BY DEF PackageNotLost

\* Every step keeps PackageNotLost: scoring starts the look for quality,
\* persist_triage of a scored turn enqueues the job itself, and a handler that is
\* lost before it looked leaves the debt in dropped.
LEMMA PackageStep ==
    ASSUME TypeOK, PackageNotLost, [Next]_vars
    PROVE  PackageNotLost'
<1> USE DEF turnVars, storeVars, handlerVars
<1>1. ASSUME NEW r \in Reqs,
             Arrival(r) \/ ((Refused(r) \/ UpdateMatchesNoRow(r)) /\ UNCHANGED dropped)
      PROVE  PackageNotLost'
    BY <1>1, PackageQuietStep
    DEF Arrival, UploadArrives, ConfirmArrives, GuessArrives, Arrive, Refused,
        UpdateMatchesNoRow, Goto, Reply, Scored, TypeOK
<1>2. ASSUME NEW r \in Reqs, UploadWrites(r) \/ ConfirmReadsTurn(r) \/ GuessReadsTurn(r),
             UNCHANGED dropped
      PROVE  PackageNotLost'
    BY <1>2, PackageQuietStep
    DEF UploadWrites, ConfirmReadsTurn, GuessReadsTurn, ReadTurn, Goto, Scored, TypeOK
<1>3. ASSUME NEW r \in Reqs, UploadChecks(r) \/ UploadRejected(r) \/ EnqueueTriage(r),
             UNCHANGED dropped
      PROVE  PackageNotLost'
    BY <1>3, PackageQuietStep
    DEF UploadChecks, UploadRejected, EnqueueTriage, Goto, Reply, Scored, TypeOK
<1>4. ASSUME NEW r \in Reqs, AcceptAudio(r) \/ ConfirmLabel(r) \/ GuessMisses(r),
             UNCHANGED dropped
      PROVE  PackageNotLost'
    <2>1. \A t \in Created : Scored(t)' <=> Scored(t)
        BY <1>4, CreatedTurns DEF RowIn, AcceptAudio, ConfirmLabel, GuessMisses, Scored, TypeOK
    <2> QED
        BY <1>4, <2>1, PackageQuietStep DEF RowIn, AcceptAudio, ConfirmLabel, GuessMisses, Goto, Reply, TypeOK
<1>5. ASSUME NEW r \in Reqs,
             (CompletePairIfCapped(r) /\ UNCHANGED dropped) \/ PickCardForPair(r) \/ HandlerDies(r)
      PROVE  PackageNotLost'
    <2>1. CASE CompletePairIfCapped(r) /\ UNCHANGED dropped
        BY <2>1, PackageQuietStep DEF CompletePairIfCapped, Goto, Reply, Scored, TypeOK
    <2>2. CASE PickCardForPair(r)
        BY <2>2, PackageQuietStep DEF PickCardForPair, GivesUp, Goto, Reply, Scored, TypeOK
    <2>3. CASE HandlerDies(r)
        BY <2>3, PackageQuietStep DEF HandlerDies, GivesUp, Owes, Reply, Scored, TypeOK
    <2> QED
        BY <1>5, <2>1, <2>2, <2>3
<1>6. ASSUME NEW r \in Reqs, GuessScores(r), UNCHANGED dropped PROVE PackageNotLost'
    <2>1. \A t \in Created : t # turn[r] => (Scored(t)' <=> Scored(t))
        BY <1>6, CreatedTurns DEF RowIn, GuessScores, Scored, TypeOK
    <2>2. turn'[r] = turn[r] /\ pc'[r] = "gs_fresh" /\ \A s \in Reqs \ {r} : pc'[s] = pc[s]
        BY <1>6 DEF RowIn, GuessScores, Goto, TypeOK
    <2> QED
        BY <1>6, <2>1, <2>2 DEF RowIn, GuessScores, PackageNotLost, Created
<1>7. ASSUME NEW r \in Reqs, ReadsFreshQuality(r), UNCHANGED dropped PROVE PackageNotLost'
    <2>1. pc'[r] = (IF quality[turn[r]] THEN "gs_package" ELSE "gs_cap")
          /\ \A s \in Reqs \ {r} : pc'[s] = pc[s]
        BY <1>7 DEF QualityStored, ReadsFreshQuality, Goto, TypeOK
    <2> QED
        BY <1>7, <2>1 DEF QualityStored, ReadsFreshQuality, PackageNotLost, Created, Scored
<1>8. ASSUME NEW r \in Reqs, EnqueuePackage(r), UNCHANGED dropped PROVE PackageNotLost'
    <2>1. \A s \in Reqs \ {r} : pc'[s] = pc[s]
        BY <1>8 DEF EnqueuePackage, Goto, TypeOK
    <2> QED
        BY <1>8, <2>1 DEF EnqueuePackage, PackageNotLost, Created, Scored
<1>9. ASSUME NEW r \in Reqs, CreateTurn(r), UNCHANGED dropped PROVE PackageNotLost'
    <2>1. Created' = Created \cup {nturns + 1} /\ nturns + 1 \notin Created
        BY <1>9, CreatedTurns DEF CreateTurn, Created
    <2>2. status'[nturns + 1] = "awaiting_audio" /\ \A t \in Created : status'[t] = status[t]
        BY <1>9, <2>1, CreatedTurns DEF CreateTurn, TypeOK
    <2>3. \A s \in Reqs : pc[s] \in {"gs_fresh", "gs_package"} => pc'[s] = pc[s] /\ turn'[s] = turn[s]
        BY <1>9 DEF CreateTurn, Reply, TypeOK
    <2> QED
        BY <1>9, <2>1, <2>2, <2>3 DEF CreateTurn, PackageNotLost, Scored
<1>10. ASSUME NEW t \in Turns, PersistTriage(t) PROVE PackageNotLost'
    BY <1>10, CreatedTurns DEF PersistTriage, PackageNotLost, Created, Scored, TypeOK
<1>11. CASE UNCHANGED vars
    BY <1>11, PackageQuietStep DEF vars, Scored
<1>12. ASSUME NEW r \in Reqs, HandlerStep(r) PROVE PackageNotLost'
    BY <1>12, <1>1, <1>2, <1>3, <1>4, <1>5, <1>6, <1>7, <1>8, <1>9 DEF HandlerStep
<1> QED
    BY <1>1, <1>5, <1>10, <1>11, <1>12 DEF Next

\* The race between scoring and triage never loses the package job: a scored turn
\* with quality has it, or its scorer has yet to look or was lost before it did.
THEOREM PackageEnqueuedOnce == Spec => []PackageNotLost
<1>1. Init => PackageNotLost
    BY ConstantsAssumption DEF Init, PackageNotLost, Created, Scored, Turns
<1>2. TypeOK /\ PackageNotLost /\ [Next]_vars => PackageNotLost'
    BY PackageStep
<1> QED
    BY <1>1, <1>2, TypeCorrect, PTL DEF Spec

-----------------------------------------------------------------------------
(* Statuses, attempts and outcomes of one turn. *)

\* A turn's status moves one place forward or stays, and a scored turn keeps its
\* attempts and outcome: late duplicates of any request bounce off.
THEOREM TurnsAdvanceInOrder == Spec => TurnLifecycle
<1> DEFINE Forward == \A t \in Created :
                        /\ status'[t] \in {status[t], StatusSuccessor[status[t]]}
                        /\ Scored(t) => attempts'[t] = attempts[t] /\ outcome'[t] = outcome[t]
<1>1. ASSUME TypeOK, [Next]_vars PROVE Forward
    <2> USE DEF turnVars, storeVars, handlerVars
    <2>1. CASE UNCHANGED <<status, attempts, outcome>>
        BY <2>1
    <2>2. ASSUME NEW r \in Reqs, AcceptAudio(r) PROVE Forward
        BY <1>1, <2>2, CreatedTurns DEF AcceptAudio, RowIn, TypeOK, StatusSuccessor, Scored
    <2>3. ASSUME NEW r \in Reqs, ConfirmLabel(r) PROVE Forward
        BY <1>1, <2>3, CreatedTurns DEF ConfirmLabel, RowIn, TypeOK, StatusSuccessor, Scored
    <2>4. ASSUME NEW r \in Reqs, GuessScores(r) PROVE Forward
        BY <1>1, <2>4, CreatedTurns DEF GuessScores, RowIn, TypeOK, StatusSuccessor, Scored
    <2>5. ASSUME NEW r \in Reqs, GuessMisses(r) PROVE Forward
        BY <1>1, <2>5, CreatedTurns DEF GuessMisses, RowIn, TypeOK, Scored
    <2>6. ASSUME NEW r \in Reqs, CreateTurn(r) PROVE Forward
        BY <1>1, <2>6, CreatedTurns DEF CreateTurn, TypeOK, Created
    <2>7. CASE UNCHANGED vars
        BY <2>7, <2>1 DEF vars
    <2> QED
        BY <1>1, <2>1, <2>2, <2>3, <2>4, <2>5, <2>6, <2>7
        DEF Next, Arrival, HandlerStep, HandlerDies, UploadArrives, ConfirmArrives, GuessArrives, Arrive,
            Refused, UpdateMatchesNoRow, UploadWrites, UploadChecks, UploadRejected, EnqueueTriage,
            ConfirmReadsTurn, GuessReadsTurn, ReadsFreshQuality, EnqueuePackage,
            CompletePairIfCapped, PickCardForPair, PersistTriage
<1> QED
    BY <1>1, TypeCorrect, PTL DEF Spec, TurnLifecycle

\* The inductive strengthening of AttemptsMatchOutcome: a row not created yet has
\* the defaults of create_turn's INSERT.
AttemptsInv ==
    /\ AttemptsMatchOutcome
    /\ \A t \in Turns \ Created : attempts[t] = 0 /\ outcome[t] = "pending"

\* A step keeps AttemptsInv: apply_guess counts the attempt and decides at once,
\* under the row lock, and only for an unscored turn.
LEMMA AttemptsStep ==
    ASSUME TypeOK, AttemptsInv, [Next]_vars
    PROVE  AttemptsInv'
<1> USE DEF turnVars, storeVars, handlerVars
<1>1. CASE UNCHANGED <<nturns, status, attempts, outcome>>
    BY <1>1 DEF AttemptsInv, AttemptsMatchOutcome, Created, Scored
<1>2. ASSUME NEW r \in Reqs, AcceptAudio(r) \/ ConfirmLabel(r) PROVE AttemptsInv'
    <2>1. \A t \in Created : Scored(t)' <=> Scored(t)
        BY <1>2, CreatedTurns DEF RowIn, AcceptAudio, ConfirmLabel, Scored, TypeOK
    <2> QED
        BY <1>2, <2>1 DEF AcceptAudio, ConfirmLabel, AttemptsInv, AttemptsMatchOutcome, Created
<1>3. ASSUME NEW r \in Reqs, GuessScores(r) \/ GuessMisses(r) PROVE AttemptsInv'
    <2> DEFINE t == turn[r]
    <2>1. t \in Created /\ t \in Turns /\ Created' = Created
        BY <1>3, CreatedTurns DEF GuessScores, GuessMisses, TypeOK, HandlerOK, Created
    <2>2. outcome[t] = "pending" /\ ~Scored(t) /\ attempts[t] \in Nat /\ attempts[t] < MaxGuessAttempts
        BY <1>3, <2>1 DEF GuessScores, GuessMisses, RowIn, Scored, AttemptsInv, AttemptsMatchOutcome, TypeOK
    <2>3. attempts'[t] = attempts[t] + 1
        BY <1>3, <2>1 DEF GuessScores, GuessMisses, TypeOK
    <2>4. \A u \in Turns \ {t} : /\ attempts'[u] = attempts[u] /\ outcome'[u] = outcome[u]
                                 /\ status'[u] = status[u]
        BY <1>3 DEF GuessScores, GuessMisses, TypeOK
    <2>5. CASE GuessScores(r)
        <3>1. /\ status'[t] = "scored"
              /\ \/ outcome'[t] = "validated"
                 \/ outcome'[t] = "unclear" /\ attempts[t] + 1 >= MaxGuessAttempts
            BY <2>1, <2>5 DEF GuessScores, TypeOK
        <3> QED
            BY <2>1, <2>2, <2>3, <2>4, <3>1, CreatedTurns, ConstantsAssumption
            DEF AttemptsInv, AttemptsMatchOutcome, Scored
    <2>6. CASE GuessMisses(r)
        <3>1. status'[t] = status[t] /\ outcome'[t] = outcome[t] /\ attempts[t] + 1 < MaxGuessAttempts
            BY <2>1, <2>6 DEF GuessMisses
        <3> QED
            BY <2>1, <2>2, <2>3, <2>4, <3>1, CreatedTurns
            DEF AttemptsInv, AttemptsMatchOutcome, Scored
    <2> QED
        BY <1>3, <2>5, <2>6
<1>4. ASSUME NEW r \in Reqs, CreateTurn(r) PROVE AttemptsInv'
    <2>1. Created' = Created \cup {nturns + 1} /\ nturns + 1 \in Turns \ Created
        BY <1>4, CreatedTurns DEF CreateTurn, Created
    <2>2. status'[nturns + 1] = "awaiting_audio" /\ \A t \in Created : status'[t] = status[t]
        BY <1>4, <2>1, CreatedTurns DEF CreateTurn, TypeOK
    <2> QED
        BY <1>4, <2>1, <2>2, ConstantsAssumption
        DEF CreateTurn, AttemptsInv, AttemptsMatchOutcome, Scored
<1>5. \/ UNCHANGED <<nturns, status, attempts, outcome>>
      \/ \E r \in Reqs : \/ AcceptAudio(r) \/ ConfirmLabel(r) \/ GuessScores(r)
                        \/ GuessMisses(r) \/ CreateTurn(r)
    BY DEF Next, vars, Arrival, HandlerStep, HandlerDies, UploadArrives, ConfirmArrives, GuessArrives,
        Arrive, Refused, UpdateMatchesNoRow, UploadWrites, UploadChecks, UploadRejected, EnqueueTriage,
        ConfirmReadsTurn, GuessReadsTurn, ReadsFreshQuality, EnqueuePackage,
        CompletePairIfCapped, PickCardForPair, PersistTriage
<1> QED
    BY <1>1, <1>2, <1>3, <1>4, <1>5

\* Guesses that overlap, repeat or are lost never leave a turn whose attempts,
\* outcome and status contradict each other.
THEOREM AttemptsAgreeWithOutcome == Spec => []AttemptsMatchOutcome
<1>1. Init => AttemptsInv
    BY ConstantsAssumption
    DEF Init, AttemptsInv, AttemptsMatchOutcome, Created, Scored, Turns
<1>2. TypeOK /\ AttemptsInv /\ [Next]_vars => AttemptsInv'
    BY AttemptsStep
<1>3. AttemptsInv => AttemptsMatchOutcome
    BY DEF AttemptsInv
<1> QED
    BY <1>1, <1>2, <1>3, TypeCorrect, PTL DEF Spec

=============================================================================
