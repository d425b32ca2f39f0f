------------------------------ MODULE TurnGame ------------------------------
(***************************************************************************)
(* The turns of one matched pair, as app/game/service.py plays them over   *)
(* app/game/pg_store.py.                                                   *)
(*                                                                         *)
(* A request handler is a coroutine; two handlers interleave at every      *)
(* await, and, because the API runs in several uvicorn processes that      *)
(* share one Postgres and one data directory, also between two pieces of   *)
(* synchronous file work.  A handler is therefore a program counter pc[r]  *)
(* and each action below is one database statement or transaction (atomic  *)
(* by the row lock it takes) or one step of file work.                     *)
(*                                                                         *)
(* The gauntlet worker appears as the one transaction by which it touches  *)
(* a turn (PersistTriage); module Gauntlet has the rest of it.             *)
(***************************************************************************)
EXTENDS Naturals, FiniteSets

CONSTANTS
    PlayerA,            \* pairs.player_a: speaks first
    PlayerB,            \* pairs.player_b
    Reqs,               \* request handlers in flight at one time
    Clips,              \* uploaded payloads, told apart by identity
    GoodClips,          \* the payloads check_audio_file accepts
    NoFile,             \* no data/audio/<turn_id>.webm on disk
    PriorRounds,        \* scored turns each player brings from earlier pairs
    RoundsCap,          \* Settings.rounds_cap
    MaxGuessAttempts,   \* GameFeatureConfig.max_guess_attempts
    MaxTurns,           \* bound on the turns of the pair
    DeckMayBeEmpty,     \* TRUE: _pick_card_conn may find no live verified card
    HandlersMayDie      \* TRUE: a handler may be lost between two awaits

Players == {PlayerA, PlayerB}
Turns == 1..MaxTurns
NoArg == "none"

ASSUME ConstantsAssumption ==
    /\ PlayerA # PlayerB
    /\ GoodClips \subseteq Clips
    /\ NoFile \notin Clips
    /\ PriorRounds \in [Players -> Nat]
    /\ RoundsCap \in Nat \ {0}
    /\ MaxGuessAttempts \in Nat \ {0}
    /\ MaxTurns \in Nat
    /\ MaxTurns > RoundsCap
    /\ DeckMayBeEmpty \in BOOLEAN
    /\ HandlersMayDie \in BOOLEAN

VARIABLES
    pairStatus,     \* pairs.status
    nturns,         \* rows of turns for this pair, in creation order
    speaker,        \* turns.speaker_id; the guesser is the other player
    status,         \* turns.status
    attempts,       \* turns.attempts
    outcome,        \* turns.outcome
    quality,        \* turns.quality IS NOT NULL
    file,           \* what data/audio/<turn_id>.webm holds
    triageJobs,     \* turns that have a triage row in jobs
    packageJobs,    \* turns that have a package row in jobs
    validatedPairs, \* metrics_counters.validated_pairs
    pc,             \* where each handler is
    who,            \* the player of the handler
    arg,            \* its uploaded clip, or whether its guess is right
    turn,           \* the turn the handler read
    dropped         \* history: <<turn, job>> that a handler owed and gave up

turnVars == <<pairStatus, nturns, speaker, status, attempts, outcome, quality>>
storeVars == <<turnVars, file, triageJobs, packageJobs, validatedPairs>>
handlerVars == <<pc, who, arg, turn>>
vars == <<storeVars, handlerVars, dropped>>

Created == 1..nturns
Other(p) == IF p = PlayerA THEN PlayerB ELSE PlayerA
Scored(t) == status[t] = "scored"

TurnStatuses == {"awaiting_audio", "awaiting_label_confirm", "awaiting_guess", "scored"}
UploadPcs == {"up_turn", "up_check", "up_unlink", "up_accept", "up_enqueue"}
ConfirmPcs == {"cf_turn", "cf_apply"}
GuessPcs == {"gs_turn", "gs_apply"}
AfterScoredPcs == {"gs_fresh", "gs_package", "gs_cap", "gs_card", "gs_create"}
Pcs == {"idle"} \cup UploadPcs \cup ConfirmPcs \cup GuessPcs \cup AfterScoredPcs

-----------------------------------------------------------------------------
(* Reads of the store. *)

\* get_latest_turn: unscored turns first, then the newest.
IsLatestTurn(t) ==
    /\ t \in Created
    /\ \A u \in Created : \/ ~Scored(t) /\ Scored(u)
                          \/ (Scored(t) <=> Scored(u)) /\ u <= t

\* The WHERE of the guarded UPDATEs, and the status apply_guess reads under its
\* row lock.  RowUnguarded trusts the handler's earlier read instead.
RowUnguarded(t, expected) == t \in Created
RowIn(t, expected) == status[t] = expected

\* The count complete_pair_if_capped takes for each player.
RoundsPlayed(p) == PriorRounds[p] + Cardinality({t \in Created : Scored(t)})

-----------------------------------------------------------------------------
(* Handler bookkeeping. *)

Goto(r, label) == pc' = [pc EXCEPT ![r] = label]

\* The handler answers (or raises) and is gone.
Reply(r) ==
    /\ pc' = [pc EXCEPT ![r] = "idle"]
    /\ who' = [who EXCEPT ![r] = PlayerA]
    /\ arg' = [arg EXCEPT ![r] = NoArg]
    /\ turn' = [turn EXCEPT ![r] = 0]

\* What the handler that is at a label still has to do for its turn.
Owes(label) ==
    {job \in {"triage", "package", "next"} :
        \/ job = "triage" /\ label = "up_enqueue"
        \/ job = "package" /\ label \in {"gs_fresh", "gs_package"}
        \/ job = "next" /\ label \in AfterScoredPcs}

\* The same, leaving that undone.
GivesUp(r) ==
    /\ Reply(r)
    /\ dropped' = dropped \cup {<<turn[r], job>> : job \in Owes(pc[r])}

\* get_active_pair, the first await of every turn handler.
Arrive(r, p, a, label) ==
    /\ pc[r] = "idle"
    /\ pairStatus = "active"
    /\ Goto(r, label)
    /\ who' = [who EXCEPT ![r] = p]
    /\ arg' = [arg EXCEPT ![r] = a]
    /\ UNCHANGED <<storeVars, turn>>

SpeakerTurn(r, expected, t) ==
    /\ IsLatestTurn(t)
    /\ speaker[t] = who[r]
    /\ status[t] = expected

GuesserTurn(r, t) ==
    /\ IsLatestTurn(t)
    /\ speaker[t] # who[r]
    /\ status[t] = "awaiting_guess"

ReadTurn(r, t, label) ==
    /\ turn' = [turn EXCEPT ![r] = t]
    /\ Goto(r, label)
    /\ UNCHANGED <<who, arg>>

\* GameError 409: no turn, the wrong role or the wrong status.
Refused(r) ==
    /\ \/ pc[r] = "up_turn" /\ \A t \in Created : ~SpeakerTurn(r, "awaiting_audio", t)
       \/ pc[r] = "cf_turn" /\ \A t \in Created : ~SpeakerTurn(r, "awaiting_label_confirm", t)
       \/ pc[r] = "gs_turn" /\ \A t \in Created : ~GuesserTurn(r, t)
    /\ Reply(r)
    /\ UNCHANGED storeVars

-----------------------------------------------------------------------------
(* POST /api/turn/audio *)

UploadArrives(r) == \E p \in Players, c \in Clips : Arrive(r, p, c, "up_turn")

\* _require_speaker_turn, then write_bytes with no await in between.
UploadWrites(r) ==
    /\ pc[r] = "up_turn"
    /\ \E t \in Created :
        /\ SpeakerTurn(r, "awaiting_audio", t)
        /\ file' = [file EXCEPT ![t] = arg[r]]
        /\ ReadTurn(r, t, "up_check")
    /\ UNCHANGED <<turnVars, triageJobs, packageJobs, validatedPairs>>

\* The checker probes whatever the path holds by now.
UploadChecks(r) ==
    /\ pc[r] = "up_check"
    /\ Goto(r, IF file[turn[r]] \in GoodClips THEN "up_accept" ELSE "up_unlink")
    /\ UNCHANGED <<storeVars, who, arg, turn>>

UploadRejected(r) ==
    /\ pc[r] = "up_unlink"
    /\ file' = [file EXCEPT ![turn[r]] = NoFile]
    /\ Reply(r)
    /\ UNCHANGED <<turnVars, triageJobs, packageJobs, validatedPairs>>

\* accept_audio: an UPDATE guarded by the status.
AcceptAudio(r) ==
    /\ pc[r] = "up_accept"
    /\ RowIn(turn[r], "awaiting_audio")
    /\ status' = [status EXCEPT ![turn[r]] = "awaiting_label_confirm"]
    /\ Goto(r, "up_enqueue")
    /\ UNCHANGED <<pairStatus, nturns, speaker, attempts, outcome, quality, file,
                   triageJobs, packageJobs, validatedPairs, who, arg, turn>>

\* A guarded UPDATE that matches no row raises ValueError out of the handler.
UpdateMatchesNoRow(r) ==
    /\ \/ pc[r] = "up_accept" /\ ~RowIn(turn[r], "awaiting_audio")
       \/ pc[r] = "cf_apply" /\ ~RowIn(turn[r], "awaiting_label_confirm")
       \/ pc[r] = "gs_apply" /\ ~RowIn(turn[r], "awaiting_guess")
    /\ Reply(r)
    /\ UNCHANGED storeVars

EnqueueTriage(r) ==
    /\ pc[r] = "up_enqueue"
    /\ triageJobs' = triageJobs \cup {turn[r]}
    /\ Reply(r)
    /\ UNCHANGED <<turnVars, file, packageJobs, validatedPairs>>

-----------------------------------------------------------------------------
(* POST /api/turn/confirm-label *)

ConfirmArrives(r) == \E p \in Players : Arrive(r, p, NoArg, "cf_turn")

ConfirmReadsTurn(r) ==
    /\ pc[r] = "cf_turn"
    /\ \E t \in Created : /\ SpeakerTurn(r, "awaiting_label_confirm", t)
                          /\ ReadTurn(r, t, "cf_apply")
    /\ UNCHANGED storeVars

ConfirmLabel(r) ==
    /\ pc[r] = "cf_apply"
    /\ RowIn(turn[r], "awaiting_label_confirm")
    /\ status' = [status EXCEPT ![turn[r]] = "awaiting_guess"]
    /\ Reply(r)
    /\ UNCHANGED <<pairStatus, nturns, speaker, attempts, outcome, quality, file,
                   triageJobs, packageJobs, validatedPairs>>

-----------------------------------------------------------------------------
(* POST /api/turn/guess and _after_scored *)

GuessArrives(r) == \E p \in Players, g \in {"right", "wrong"} : Arrive(r, p, g, "gs_turn")

GuessReadsTurn(r) ==
    /\ pc[r] = "gs_turn"
    /\ \E t \in Created : GuesserTurn(r, t) /\ ReadTurn(r, t, "gs_apply")
    /\ UNCHANGED storeVars

\* apply_guess locks the row and decides from the attempts it then reads.
GuessScores(r) ==
    LET t == turn[r] IN
    /\ pc[r] = "gs_apply"
    /\ RowIn(t, "awaiting_guess")
    /\ arg[r] = "right" \/ attempts[t] + 1 >= MaxGuessAttempts
    /\ attempts' = [attempts EXCEPT ![t] = @ + 1]
    /\ status' = [status EXCEPT ![t] = "scored"]
    /\ outcome' = [outcome EXCEPT ![t] = IF arg[r] = "right" THEN "validated" ELSE "unclear"]
    /\ validatedPairs' = IF arg[r] = "right" THEN validatedPairs + 1 ELSE validatedPairs
    /\ Goto(r, "gs_fresh")
    /\ UNCHANGED <<pairStatus, nturns, speaker, quality, file,
                   triageJobs, packageJobs, who, arg, turn>>

GuessMisses(r) ==
    LET t == turn[r] IN
    /\ pc[r] = "gs_apply"
    /\ RowIn(t, "awaiting_guess")
    /\ arg[r] # "right" /\ attempts[t] + 1 < MaxGuessAttempts
    /\ attempts' = [attempts EXCEPT ![t] = @ + 1]
    /\ Reply(r)
    /\ UNCHANGED <<pairStatus, nturns, speaker, status, outcome, quality, file,
                   triageJobs, packageJobs, validatedPairs>>

\* get_turn once more: quality may have arrived since.  (LeftToWorker: a handler
\* without that read leaves packaging to the worker.)
LeftToWorker(t) == t \notin Created
QualityStored(t) == quality[t]

ReadsFreshQuality(r) ==
    /\ pc[r] = "gs_fresh"
    /\ Goto(r, IF QualityStored(turn[r]) THEN "gs_package" ELSE "gs_cap")
    /\ UNCHANGED <<storeVars, who, arg, turn>>

EnqueuePackage(r) ==
    /\ pc[r] = "gs_package"
    /\ packageJobs' = packageJobs \cup {turn[r]}
    /\ Goto(r, "gs_cap")
    /\ UNCHANGED <<turnVars, file, triageJobs, validatedPairs, who, arg, turn>>

Capped == pairStatus = "active" /\ \E p \in Players : RoundsPlayed(p) >= RoundsCap

CompletePairIfCapped(r) ==
    /\ pc[r] = "gs_cap"
    /\ \/ /\ Capped
          /\ pairStatus' = "completed"
          /\ Reply(r)
       \/ /\ ~Capped
          /\ Goto(r, "gs_card")
          /\ UNCHANGED <<pairStatus, who, arg, turn>>
    /\ UNCHANGED <<nturns, speaker, status, attempts, outcome, quality, file,
                   triageJobs, packageJobs, validatedPairs>>

\* (PicksNoCard: a live card is not found though there is one.)
PicksNoCard(r) == pc[r] = "gs_card" /\ Reply(r) /\ UNCHANGED <<storeVars, dropped>>

PickCardForPair(r) ==
    /\ pc[r] = "gs_card"
    /\ \/ Goto(r, "gs_create") /\ UNCHANGED <<who, arg, turn, dropped>>
       \/ DeckMayBeEmpty /\ GivesUp(r)
    /\ UNCHANGED storeVars

\* The guesser of the scored turn speaks next.
CreateTurn(r) ==
    LET n == nturns + 1 IN
    /\ pc[r] = "gs_create"
    /\ n \in Turns
    /\ nturns' = n
    /\ speaker' = [speaker EXCEPT ![n] = Other(speaker[turn[r]])]
    /\ status' = [status EXCEPT ![n] = "awaiting_audio"]
    /\ Reply(r)
    /\ UNCHANGED <<pairStatus, attempts, outcome, quality, file,
                   triageJobs, packageJobs, validatedPairs>>

-----------------------------------------------------------------------------
(* The process dies, or a statement fails, between two awaits. *)
HandlerDies(r) ==
    /\ HandlersMayDie
    /\ pc[r] # "idle"
    /\ GivesUp(r)
    /\ UNCHANGED storeVars

(* The worker's persist_triage transaction: the row lock its UPDATE takes   *)
(* orders it against apply_guess, so its INSERT ... SELECT sees the status. *)
(* The raw file was read minutes before.  Retries make it repeatable.       *)
PersistTriage(t) ==
    /\ t \in triageJobs
    /\ quality' = [quality EXCEPT ![t] = TRUE]
    /\ packageJobs' = IF Scored(t) THEN packageJobs \cup {t} ELSE packageJobs
    /\ UNCHANGED <<pairStatus, nturns, speaker, status, attempts, outcome, file,
                   triageJobs, validatedPairs, handlerVars, dropped>>

-----------------------------------------------------------------------------
(* try_match has just inserted the pair, with a first turn if a card was live. *)
Init ==
    /\ pairStatus = "active"
    /\ nturns \in (IF DeckMayBeEmpty THEN {0, 1} ELSE {1})
    /\ speaker = [t \in Turns |-> PlayerA]
    /\ status = [t \in Turns |-> "awaiting_audio"]
    /\ attempts = [t \in Turns |-> 0]
    /\ outcome = [t \in Turns |-> "pending"]
    /\ quality = [t \in Turns |-> FALSE]
    /\ file = [t \in Turns |-> NoFile]
    /\ triageJobs = {} /\ packageJobs = {}
    /\ validatedPairs = 0
    /\ pc = [r \in Reqs |-> "idle"]
    /\ who = [r \in Reqs |-> PlayerA]
    /\ arg = [r \in Reqs |-> NoArg]
    /\ turn = [r \in Reqs |-> 0]
    /\ dropped = {}

Arrival(r) == (UploadArrives(r) \/ ConfirmArrives(r) \/ GuessArrives(r)) /\ UNCHANGED dropped

HandlerStep(r) ==
    \/ /\ \/ Refused(r) \/ UpdateMatchesNoRow(r)
          \/ UploadWrites(r) \/ UploadChecks(r) \/ UploadRejected(r)
          \/ AcceptAudio(r) \/ EnqueueTriage(r)
          \/ ConfirmReadsTurn(r) \/ ConfirmLabel(r)
          \/ GuessReadsTurn(r) \/ GuessScores(r) \/ GuessMisses(r)
          \/ ReadsFreshQuality(r) \/ EnqueuePackage(r) \/ CompletePairIfCapped(r)
          \/ CreateTurn(r)
       /\ UNCHANGED dropped
    \/ PickCardForPair(r)

Next ==
    \/ \E r \in Reqs : Arrival(r) \/ HandlerStep(r) \/ HandlerDies(r)
    \/ \E t \in Turns : PersistTriage(t)

Spec == Init /\ [][Next]_vars

\* asyncio resumes every handler whose statement has returned.
FairSpec == Spec /\ \A r \in Reqs : WF_vars(HandlerStep(r))

-----------------------------------------------------------------------------
(* Properties *)

\* A handler past its read of the turn has one; an upload has its clip.
HandlerOK(r) ==
    /\ pc[r] \notin {"idle", "up_turn", "cf_turn", "gs_turn"} => turn[r] \in Created
    /\ pc[r] \in UploadPcs => arg[r] \in Clips

TypeOK ==
    /\ pairStatus \in {"active", "completed"}
    /\ nturns \in 0..MaxTurns
    /\ speaker \in [Turns -> Players]
    /\ status \in [Turns -> TurnStatuses]
    /\ attempts \in [Turns -> Nat]
    /\ outcome \in [Turns -> {"pending", "validated", "unclear"}]
    /\ quality \in [Turns -> BOOLEAN]
    /\ file \in [Turns -> Clips \cup {NoFile}]
    /\ triageJobs \subseteq Turns
    /\ packageJobs \subseteq Turns
    /\ validatedPairs \in Nat
    /\ pc \in [Reqs -> Pcs]
    /\ who \in [Reqs -> Players]
    /\ arg \in [Reqs -> Clips \cup {NoArg, "right", "wrong"}]
    /\ turn \in [Reqs -> 0..MaxTurns]
    /\ \A r \in Reqs : HandlerOK(r)

\* At most one turn of a pair is unscored, whatever requests overlap: two
\* guess handlers that both saw awaiting_guess must not both advance the pair
\* (apply_guess re-reads the status under the row lock).
OneOpenTurn ==
    \A t, u \in Created : ~Scored(t) /\ ~Scored(u) => t = u

\* Speakers alternate: create_turn swaps the roles of the turn just scored,
\* and no handler that read an older turn creates the next one.
RolesAlternate ==
    \A t \in Created : t + 1 \in Created => speaker[t + 1] = Other(speaker[t])

\* complete_pair_if_capped closes a pair only between turns: once it is
\* completed no turn is open and no handler is about to open one, so no round
\* is cut off half played.
CompletedPairIsQuiet ==
    pairStatus = "completed" =>
        /\ \A t \in Created : Scored(t)
        /\ \A r \in Reqs : pc[r] \notin AfterScoredPcs

\* The session cap bounds the turns of a pair: no overlap of handlers slips a
\* turn past the count taken by complete_pair_if_capped.
TurnsWithinCap == nturns <= RoundsCap

\* attempts, outcome and status of one turn agree: a scored turn was validated
\* within the allowed attempts, or is unclear after exactly the last of them;
\* an unscored one still has an attempt left.
AttemptsMatchOutcome ==
    \A t \in Created :
        /\ outcome[t] = "pending" => ~Scored(t) /\ attempts[t] < MaxGuessAttempts
        /\ outcome[t] = "unclear" => Scored(t) /\ attempts[t] = MaxGuessAttempts
        /\ outcome[t] = "validated" => Scored(t) /\ attempts[t] \in 1..MaxGuessAttempts

\* The game enqueues package after scoring and the worker after storing
\* quality; whichever comes second does it.  A scored turn with quality has its
\* job, or the handler that scored it has yet to look, or was lost before it did.
PackageNotLost ==
    \A t \in Created : Scored(t) /\ quality[t] =>
        \/ t \in packageJobs
        \/ \E r \in Reqs : turn[r] = t /\ pc[r] \in {"gs_fresh", "gs_package"}
        \/ <<t, "package">> \in dropped

\* A turn goes through its statuses in order, one per step, and a scored turn
\* never changes again: late duplicates of upload, confirm and guess bounce off.
StatusSuccessor ==
    [awaiting_audio |-> "awaiting_label_confirm", awaiting_label_confirm |-> "awaiting_guess",
     awaiting_guess |-> "scored", scored |-> "scored"]

TurnLifecycle ==
    [][\A t \in Created :
        /\ status'[t] \in {status[t], StatusSuccessor[status[t]]}
        /\ Scored(t) => attempts'[t] = attempts[t] /\ outcome'[t] = outcome[t]]_vars

\* After a round the pair gets its next turn or is completed, unless the one
\* handler that advances it was lost or found no live card: nobody tries again.
RoundAdvances ==
    (nturns > 0 /\ \A t \in Created : Scored(t))
        ~> \/ pairStatus = "completed"
           \/ \E t \in Created : ~Scored(t)
           \/ <<nturns, "next">> \in dropped

-----------------------------------------------------------------------------
(* The inductive invariant behind the safety properties (TurnGame_proofs).   *)

\* A handler in _after_scored holds a token for its pair: its turn is the newest
\* one, it is scored, the pair is active, and no other handler is in there.
AdvancerOwnsPair ==
    \A r \in Reqs : pc[r] \in AfterScoredPcs =>
        /\ turn[r] = nturns /\ Scored(nturns)
        /\ pairStatus = "active"
        /\ \A s \in Reqs : pc[s] \in AfterScoredPcs => s = r

\* An open turn is the newest one: turns are created only when all are scored.
OpenTurnIsNewest == \A t \in Created : ~Scored(t) => t = nturns

\* Past the cap check there is room for one more turn.
RoomForNextTurn ==
    \A r \in Reqs : pc[r] \in {"gs_card", "gs_create"} => nturns < RoundsCap

TurnInv ==
    /\ TypeOK
    /\ AdvancerOwnsPair
    /\ OpenTurnIsNewest
    /\ pairStatus = "completed" => \A t \in Created : Scored(t)
    /\ RolesAlternate
    /\ RoomForNextTurn
    /\ TurnsWithinCap

=============================================================================
